---------------------------- MODULE ClaimsProofs ----------------------------
(***************************************************************************)
(* Proofs about Claims: a statement is one candidate of each version, and  *)
(* a decision replaces only what its reviewer was shown, though nothing    *)
(* that a decision read is locked.                                         *)
(***************************************************************************)
EXTENDS Reading, WellFoundedInduction, FiniteSetTheorems, SequenceTheorems, TLAPS

(* A set of numbers has a first one, ...                                     *)
LEMMA FirstExists ==
    ASSUME NEW T \in SUBSET Nat, T # {}
    PROVE  \E x \in T : \A y \in T : x <= y
<1> DEFINE R == OpToRel(<, Nat)
<1>1. IsWellFoundedOn(R, Nat)
      BY NatLessThanWellFounded
<1>2. \A x, y \in Nat : x < y => <<x, y>> \in R
      BY DEF OpToRel
<1> HIDE DEF R
<1>3. T \subseteq Nat
      OBVIOUS
<1>4. \E x \in T : \A y \in T : ~ (<<y, x>> \in R)
      BY <1>1, <1>3, WFMin, Zenon
<1>5. PICK x \in T : \A y \in T : ~ (<<y, x>> \in R)
      BY <1>4
<1>6. ASSUME NEW y \in T PROVE x <= y
  <2>1. x \in Nat /\ y \in Nat /\ ~ (<<y, x>> \in R)
        BY <1>3, <1>5
  <2>2. ~ (y < x)
        BY <1>2, <2>1, Zenon
  <2> QED BY <2>1, <2>2
<1> QED BY <1>6

(* ... and a last one when it is bounded.                                    *)
LEMMA LastExists ==
    ASSUME NEW T \in SUBSET Nat, T # {}, NEW bound \in Nat, \A y \in T : y <= bound
    PROVE  \E x \in T : \A y \in T : y <= x
<1> DEFINE above == {n \in Nat : \A y \in T : y <= n}
<1>1. PICK n \in above : \A m \in above : n <= m
      BY FirstExists
<1>2. n \in T
  <2> SUFFICES ASSUME n \notin T PROVE FALSE
      OBVIOUS
  <2>1. \A y \in T : y \in Nat /\ y < n
        BY <1>1
  <2>2. n \in Nat /\ n # 0
    <3>1. PICK y \in T : y \in Nat /\ y < n
          BY <2>1
    <3> QED BY <1>1, <3>1
  <2>3. n - 1 \in above
        BY <2>1, <2>2
  <2> QED BY <1>1, <2>2, <2>3
<1> QED BY <1>1, <1>2

(* Min and Max are in the set.                                               *)
LEMMA MinFacts ==
    ASSUME NEW T \in SUBSET Nat, T # {}
    PROVE  Min(T) \in T /\ \A y \in T : Min(T) <= y
BY FirstExists DEF Min

LEMMA MaxFacts == Max(Refs) \in Refs
<1>1. \E x \in Refs : \A y \in Refs : x >= y
      BY ClaimsAssumption
<1> QED BY <1>1 DEF Max

-----------------------------------------------------------------------------
(* What is in force.                                                         *)

(* Of some entries, one has begun last.                                      *)
LEMMA LatestExists ==
    ASSUME log \in Seq(Entries), NEW of \in SUBSET (1..Len(log)), of # {}
    PROVE  {i \in of : \A j \in of : log[j].began <= log[i].began} # {}
<1> DEFINE begins == {log[i].began : i \in of}
<1>1. \A i \in of : log[i].began \in Nat /\ log[i].began <= MaxDecisions
  <2>1. \A i \in of : log[i] \in Entries
        OBVIOUS
  <2> QED BY <2>1, ClaimsAssumption DEF Entries
<1>2. \E b \in begins : \A c \in begins : c <= b
  <2>1. begins \in SUBSET Nat /\ begins # {} /\ \A c \in begins : c <= MaxDecisions
        BY <1>1
  <2> HIDE DEF begins
  <2> QED BY <2>1, ClaimsAssumption, LastExists
<1>3. PICK i \in of : \A c \in begins : c <= log[i].began
      BY <1>2
<1> QED BY <1>3

LEMMA InForceFacts ==
    ASSUME log \in Seq(Entries), NEW kind, NEW x, NEW n \in Nat, n <= Len(log),
           InForce(kind, x, n) # NoEntry
    PROVE  \E i \in 1..n : /\ InForce(kind, x, n) = log[i]
                           /\ log[i].request.kind = kind /\ log[i].on = x
<1> DEFINE of == {i \in 1..n : log[i].request.kind = kind /\ log[i].on = x}
           latest == {i \in of : \A j \in of : log[j].began <= log[i].began}
<1>1. of # {}
      BY DEF InForce
<1>2. of \in SUBSET (1..Len(log))
      OBVIOUS
<1>3. latest # {}
      BY <1>1, <1>2, LatestExists
<1>4. (CHOOSE i \in latest : TRUE) \in latest
      BY <1>3
<1>5. InForce(kind, x, n) = log[CHOOSE i \in latest : TRUE]
      BY <1>1 DEF InForce
<1> QED BY <1>4, <1>5

(* What was in force among the first entries stays, whatever is appended.    *)
LEMMA SamePrefix ==
    ASSUME log \in Seq(Entries), NEW kind, NEW x, NEW n \in Nat, n <= Len(log),
           \A i \in 1..n : log'[i] = log[i]
    PROVE  InForce(kind, x, n)' = InForce(kind, x, n)
<1> DEFINE of == {i \in 1..n : log[i].request.kind = kind /\ log[i].on = x}
           latest == {i \in of : \A j \in of : log[j].began <= log[i].began}
           of1 == {i \in 1..n : log'[i].request.kind = kind /\ log'[i].on = x}
           latest1 == {i \in of1 : \A j \in of1 : log'[j].began <= log'[i].began}
<1>1. of1 = of
      OBVIOUS
<1>2. latest1 = latest
      BY <1>1
<1>3. (CHOOSE i \in latest1 : TRUE) = (CHOOSE i \in latest : TRUE)
      BY <1>2
<1>4. InForce(kind, x, n) = IF of = {} THEN NoEntry ELSE log[CHOOSE i \in latest : TRUE]
      BY DEF InForce
<1>5. InForce(kind, x, n)' = IF of1 = {} THEN NoEntry ELSE log'[CHOOSE i \in latest1 : TRUE]
      BY DEF InForce
<1>6. of # {} => (CHOOSE i \in latest : TRUE) \in 1..n
  <2> SUFFICES ASSUME of # {} PROVE (CHOOSE i \in latest : TRUE) \in 1..n
      OBVIOUS
  <2>1. of \in SUBSET (1..Len(log))
        OBVIOUS
  <2>2. latest # {}
        BY <2>1, LatestExists
  <2>3. (CHOOSE i \in latest : TRUE) \in latest
        BY <2>2
  <2> QED BY <2>3
<1> QED BY <1>1, <1>3, <1>4, <1>5, <1>6

-----------------------------------------------------------------------------
(* The inductive invariant: a transaction that is open read, among the       *)
(* entries that were committed when it began, what its reviewer was shown,   *)
(* and a scope it decides is of a candidate of the deployed versions.        *)
Opened(r) ==
    desk[r].phase = "open" =>
        \A x \in Keys \cup {None}, n \in Nat :
            desk[r].on = x /\ desk[r].after = n =>
                /\ n <= Len(log)
                /\ IF desk[r].request.kind = "scope"
                     THEN /\ desk[r].shown.before = ScopeAfter(x, n)
                          /\ x.rule = deployed.rule /\ x.document = deployed.document
                     ELSE desk[r].shown.before = ActionAfter(x, n)

IInv ==
    /\ TypeOK
    /\ OneCandidatePerStatement
    /\ \A r \in Reviewers : Opened(r)

Plain ==
    /\ deployed \in [rule : Versions, document : Versions]
    /\ parsed \subseteq [source : Sources, document : Versions]
    /\ refs \in [Sources -> (SUBSET Refs) \ {{}}]
    /\ rows \subseteq Candidates
    /\ passes \in [Passes -> [rule : Versions \cup {0}, document : Versions \cup {0},
                             todo : SUBSET [source : Sources, claim : Refs]]]
    /\ \A p \in Passes :
          passes[p].todo # {} => passes[p].rule \in Versions /\ passes[p].document \in Versions
    /\ eligible \subseteq Sources /\ accepted \subseteq rows
    /\ begun \in 0..MaxDecisions /\ events \in 0..MaxEvents

DeskFits(r) == desk[r].phase # "away" => Fits(desk[r])
LogFits(i)  == Fits(log[i])

Desks == desk \in [Reviewers -> Entries] /\ \A r \in Reviewers : DeskFits(r)
Logs  == log \in Seq(Entries) /\ \A i \in 1..Len(log) : LogFits(i)
Open  == \A r \in Reviewers : Opened(r)

LEMMA Parts == IInv <=> Plain /\ Desks /\ Logs /\ OneCandidatePerStatement /\ Open
BY DEF IInv, TypeOK, Plain, Desks, DeskFits, Logs, LogFits, Open

LEMMA ScopeSame ==
    ASSUME log \in Seq(Entries), NEW x, NEW n \in Nat, n <= Len(log),
           \A i \in 1..n : log'[i] = log[i]
    PROVE  ScopeAfter(x, n)' = ScopeAfter(x, n) /\ ActionAfter(x, n)' = ActionAfter(x, n)
<1>1. InForce("scope", x, n)' = InForce("scope", x, n)
      BY SamePrefix
<1>2. InForce("conflict", x, n)' = InForce("conflict", x, n)
      BY SamePrefix
<1> QED BY <1>1, <1>2 DEF ScopeAfter, ActionAfter

LEMMA NoEntryFits == NoEntry \in Entries /\ NoEntry.phase = "away"
BY ClaimsAssumption DEF NoEntry, Entries

(* A step that keeps the candidates and the entries, and changes no desk to  *)
(* what does not fit, keeps the invariant.                                   *)
LEMMA Rebuild ==
    ASSUME IInv, Plain', OneCandidatePerStatement', rows \subseteq rows',
           log' \in Seq(Entries), Len(log) <= Len(log'),
           \A i \in 1..Len(log) : log'[i] = log[i],
           \A i \in (Len(log) + 1)..Len(log') : LogFits(i)',
           desk' \in [Reviewers -> Entries],
           \A r \in Reviewers :
              \/ desk'[r] = NoEntry
              \/ desk'[r] = desk[r] /\ (desk[r].phase = "open" => deployed' = deployed)
              \/ DeskFits(r)' /\ Opened(r)'
    PROVE  IInv'
<1>1. /\ Logs /\ Desks /\ Open
      BY Parts
<1>2. /\ Len(log) \in Nat /\ Len(log') \in Nat
      BY <1>1 DEF Logs
<1>3. Logs'
  <2> SUFFICES ASSUME NEW i \in 1..Len(log') PROVE LogFits(i)'
      BY DEF Logs
  <2>1. CASE i \in 1..Len(log)
    <3>1. LogFits(i)
          BY <1>1, <2>1 DEF Logs
    <3> QED BY <2>1, <3>1 DEF LogFits, Fits
  <2> QED BY <1>2, <2>1
<1>4. ASSUME NEW r \in Reviewers PROVE DeskFits(r)' /\ Opened(r)'
  <2>1. CASE desk'[r] = NoEntry
        BY <2>1, NoEntryFits DEF DeskFits, Opened
  <2>2. CASE desk'[r] = desk[r] /\ (desk[r].phase = "open" => deployed' = deployed)
    <3>1. DeskFits(r) /\ Opened(r)
          BY <1>1 DEF Desks, Open
    <3>2. DeskFits(r)'
          BY <2>2, <3>1 DEF DeskFits, Fits
    <3>3. Opened(r)'
      <4> SUFFICES ASSUME desk[r].phase = "open", NEW x \in Keys \cup {None}, NEW n \in Nat,
                          desk[r].on = x, desk[r].after = n
                   PROVE  /\ n <= Len(log')
                          /\ IF desk[r].request.kind = "scope"
                               THEN /\ desk[r].shown.before = ScopeAfter(x, n)'
                                    /\ x.rule = deployed.rule /\ x.document = deployed.document
                               ELSE desk[r].shown.before = ActionAfter(x, n)'
          BY <2>2 DEF Opened
      <4>1. /\ n <= Len(log)
            /\ IF desk[r].request.kind = "scope"
                 THEN /\ desk[r].shown.before = ScopeAfter(x, n)
                      /\ x.rule = deployed.rule /\ x.document = deployed.document
                 ELSE desk[r].shown.before = ActionAfter(x, n)
            BY <3>1 DEF Opened
      <4>2. ScopeAfter(x, n)' = ScopeAfter(x, n) /\ ActionAfter(x, n)' = ActionAfter(x, n)
            BY <1>1, <1>2, <4>1, ScopeSame DEF Logs
      <4> QED BY <1>2, <4>1, <4>2
    <3> QED BY <3>2, <3>3
  <2> QED BY <2>1, <2>2
<1>5. Desks' /\ Open'
      BY <1>4 DEF Desks, Open
<1> QED BY <1>3, <1>5, Parts, PTL

(* A step after which the log is what it was, and so are the candidates.     *)
LEMMA SameLog ==
    ASSUME IInv, UNCHANGED log
    PROVE  /\ log' \in Seq(Entries) /\ Len(log) <= Len(log')
           /\ \A i \in 1..Len(log) : log'[i] = log[i]
           /\ \A i \in (Len(log) + 1)..Len(log') : LogFits(i)'
<1>1. log \in Seq(Entries) /\ Len(log) \in Nat
      BY Parts DEF Logs
<1> QED BY <1>1

LEMMA InitInv == Init => IInv
<1> SUFFICES ASSUME Init PROVE IInv
    OBVIOUS
<1>1. Plain
  <2>1. /\ deployed = [rule |-> 1, document |-> 1] /\ parsed = {} /\ rows = {}
        /\ refs = [s \in Sources |-> {Max(Refs)}] /\ passes = [p \in Passes |-> Idle]
        /\ eligible = {} /\ accepted = {} /\ begun = 0 /\ events = 0
        BY DEF Init
  <2>2. 1 \in Versions
        BY ClaimsAssumption DEF Versions
  <2>3. refs \in [Sources -> (SUBSET Refs) \ {{}}]
    <3> DEFINE first == {Max(Refs)}
    <3>1. first \in (SUBSET Refs) \ {{}} /\ refs = [s \in Sources |-> first]
          BY <2>1, MaxFacts
    <3> HIDE DEF first
    <3> QED BY <3>1
  <2>4. /\ Idle \in [rule : Versions \cup {0}, document : Versions \cup {0},
                     todo : SUBSET [source : Sources, claim : Refs]]
        /\ Idle.todo = {}
        BY DEF Idle
  <2> QED BY <2>1, <2>2, <2>3, <2>4, ClaimsAssumption DEF Plain
<1>2. Desks /\ Open
      BY NoEntryFits DEF Init, Desks, DeskFits, Open, Opened
<1>3. Logs /\ OneCandidatePerStatement
  <2>1. log = <<>> /\ rows = {}
        BY DEF Init
  <2>2. log \in Seq(Entries) /\ Len(log) = 0
        BY <2>1
  <2> QED BY <2>1, <2>2 DEF Logs, OneCandidatePerStatement
<1> QED BY <1>1, <1>2, <1>3, Parts

-----------------------------------------------------------------------------
(* Passes, versions and judgements leave what reviewers have open and what   *)
(* they decided; a deployment ends the transactions that are open.           *)

LEMMA Elsewhere ==
    ASSUME IInv, Plain', OneCandidatePerStatement', rows \subseteq rows', UNCHANGED deciding,
           UNCHANGED deployed
    PROVE  IInv'
<1>1. UNCHANGED <<desk, begun, log>>
      BY DEF deciding
<1>2. desk' \in [Reviewers -> Entries]
      BY <1>1, Parts DEF Desks
<1> QED BY <1>1, <1>2, SameLog, Rebuild

LEMMA DeployStep ==
    ASSUME IInv, Deploy
    PROVE  IInv'
<1>1. /\ deployed.rule + deployed.document < 2 + MaxDeploys
      /\ \/ deployed' = [deployed EXCEPT !.rule = @ + 1]
         \/ deployed' = [deployed EXCEPT !.document = @ + 1]
      /\ desk' = [r \in Reviewers |-> IF desk[r].phase = "open" THEN NoEntry ELSE desk[r]]
      /\ UNCHANGED <<parsed, refs, rows, passes, begun, log>>
      /\ UNCHANGED <<eligible, accepted, events>>
      BY DEF Deploy, judging
<1>2. Plain /\ Desks /\ OneCandidatePerStatement
      BY Parts
<1>3. deployed' \in [rule : Versions, document : Versions]
  <2>1. deployed \in [rule : Versions, document : Versions]
        BY <1>2 DEF Plain
  <2>2. /\ deployed.rule \in 1..MaxDeploys + 1 /\ deployed.document \in 1..MaxDeploys + 1
        BY <2>1 DEF Versions
  <2>3. deployed.rule + 1 \in Versions /\ deployed.document + 1 \in Versions
        BY <1>1, <2>2, ClaimsAssumption DEF Versions
  <2> QED BY <1>1, <2>1, <2>3
<1>4. Plain'
      BY <1>1, <1>2, <1>3 DEF Plain
<1>5. OneCandidatePerStatement'
      BY <1>1, <1>2 DEF OneCandidatePerStatement
<1>6. desk' \in [Reviewers -> Entries]
      BY <1>1, <1>2, NoEntryFits DEF Desks
<1>7. \A r \in Reviewers :
         desk'[r] = NoEntry \/ (desk'[r] = desk[r] /\ desk[r].phase # "open")
      BY <1>1
<1> QED BY <1>1, <1>4, <1>5, <1>6, <1>7, SameLog, Rebuild

LEMMA TargetsFit ==
    ASSUME Plain
    PROVE  Targets \in SUBSET [source : Sources, claim : Refs]
<1> SUFFICES ASSUME NEW e \in parsed
             PROVE  e.source \in Sources /\ Min(refs[e.source]) \in Refs
    BY DEF Targets
<1>1. e.source \in Sources
      BY DEF Plain
<1>2. refs[e.source] \in SUBSET Refs /\ refs[e.source] # {}
      BY <1>1 DEF Plain
<1>3. refs[e.source] \in SUBSET Nat
      BY <1>2, ClaimsAssumption
<1> QED BY <1>1, <1>2, <1>3, MinFacts

PassRows == [rule : Versions \cup {0}, document : Versions \cup {0},
             todo : SUBSET [source : Sources, claim : Refs]]

(* A pass that changes: to nothing, or to what has the columns.              *)
LEMMA PassChange ==
    ASSUME Plain, NEW p \in Passes, NEW x \in PassRows,
           passes' = [passes EXCEPT ![p] = x],
           x.todo # {} => x.rule \in Versions /\ x.document \in Versions
    PROVE  /\ passes' \in [Passes -> PassRows]
           /\ \A q \in Passes : passes'[q].todo # {} =>
                 passes'[q].rule \in Versions /\ passes'[q].document \in Versions
<1>1. passes \in [Passes -> PassRows]
      BY DEF Plain, PassRows
<1>2. \A q \in Passes : passes[q].todo # {} =>
         passes[q].rule \in Versions /\ passes[q].document \in Versions
      BY DEF Plain
<1> QED BY <1>1, <1>2

LEMMA IdleFits == Idle \in PassRows /\ Idle.todo = {}
BY DEF Idle, PassRows

LEMMA DoneFits ==
    ASSUME Plain, NEW p \in Passes, NEW t \in passes[p].todo, Done(p, t)
    PROVE  /\ passes' \in [Passes -> PassRows]
           /\ \A q \in Passes : passes'[q].todo # {} =>
                 passes'[q].rule \in Versions /\ passes'[q].document \in Versions
<1> DEFINE left == passes[p].todo \ {t}
           x == IF left = {} THEN Idle ELSE [passes[p] EXCEPT !.todo = left]
<1>1. /\ passes \in [Passes -> PassRows]
      /\ passes[p].todo # {} => passes[p].rule \in Versions /\ passes[p].document \in Versions
      BY DEF Plain, PassRows
<1>2. passes[p] \in PassRows /\ passes[p].rule \in Versions /\ passes[p].document \in Versions
      BY <1>1
<1>3. x \in PassRows /\ (x.todo # {} => x.rule \in Versions /\ x.document \in Versions)
  <2>1. CASE left = {}
        BY <2>1, IdleFits
  <2>2. CASE left # {}
    <3>1. left \in SUBSET [source : Sources, claim : Refs]
          BY <1>2 DEF PassRows
    <3> QED BY <2>2, <3>1, <1>2 DEF PassRows
  <2> QED BY <2>1, <2>2
<1>4. passes' = [passes EXCEPT ![p] = x]
      BY <1>1 DEF Done
<1> HIDE DEF x
<1> QED BY <1>3, <1>4, PassChange

(* What a document is read into: one candidate of each statement, and only   *)
(* where nothing has its fingerprint.                                        *)
LEMMA ReadStep ==
    ASSUME IInv, NEW p \in Passes, NEW t \in passes[p].todo, ReadDocument(p, t)
    PROVE  IInv'
<1> DEFINE new == {c \in ClaimsFor(p, t) : \A r \in rows : Fingerprint(r) # Fingerprint(c)}
<1>1. /\ rows' = rows \cup new /\ Done(p, t)
      /\ UNCHANGED <<deployed, parsed, refs, eligible, accepted, events, deciding>>
      BY DEF ReadDocument, judging
<1>2. Plain /\ OneCandidatePerStatement
      BY Parts
<1>3. /\ t \in [source : Sources, claim : Refs]
      /\ passes[p].rule \in Versions /\ passes[p].document \in Versions
      BY <1>2 DEF Plain
<1>4. ClaimsFor(p, t) \subseteq Candidates
      BY <1>3 DEF ClaimsFor, Candidates
<1>5. Plain'
  <2>1. rows' \subseteq Candidates /\ accepted' \subseteq rows'
        BY <1>1, <1>2, <1>4 DEF Plain
  <2>2. /\ passes' \in [Passes -> PassRows]
        /\ \A q \in Passes : passes'[q].todo # {} =>
              passes'[q].rule \in Versions /\ passes'[q].document \in Versions
        BY <1>1, <1>2, DoneFits
  <2> QED BY <1>1, <1>2, <2>1, <2>2 DEF Plain, PassRows, deciding
<1>6. OneCandidatePerStatement'
  <2> SUFFICES ASSUME NEW r \in rows', NEW s \in rows',
                      r.at = s.at, r.rule = s.rule, r.document = s.document
               PROVE  r = s
      BY DEF OneCandidatePerStatement
  <2>1. Fingerprint(r) = Fingerprint(s)
        BY DEF Fingerprint
  <2>2. CASE r \in rows /\ s \in rows
        BY <2>2, <1>2 DEF OneCandidatePerStatement
  <2>3. CASE r \in new /\ s \in new
        BY <2>3 DEF ClaimsFor
  <2>4. CASE (r \in rows /\ s \in new) \/ (s \in rows /\ r \in new)
        BY <2>1, <2>4
  <2> QED BY <1>1, <2>2, <2>3, <2>4
<1> HIDE DEF new
<1>7. rows \subseteq rows' /\ UNCHANGED deciding /\ UNCHANGED deployed
      BY <1>1
<1> QED BY <1>5, <1>6, <1>7, Elsewhere

(* The other steps of the passes.                                            *)
LEMMA PassSteps ==
    ASSUME IInv,
           \/ \E s \in Sources : Parse(s) \/ \E ref \in Refs : Collect(s, ref)
           \/ \E p \in Passes : \/ StartPass(p) \/ KillPass(p)
                                \/ \E t \in passes[p].todo : SkipDocument(p, t)
    PROVE  IInv'
<1>1. Plain /\ OneCandidatePerStatement
      BY Parts
<1>2. ASSUME NEW s \in Sources, Parse(s) PROVE IInv'
  <2>1. /\ parsed' = parsed \cup {[source |-> s, document |-> deployed.document]}
        /\ UNCHANGED <<deployed, refs, rows, passes, eligible, accepted, events, deciding>>
        BY <1>2 DEF Parse, judging
  <2>2. Plain' /\ OneCandidatePerStatement'
        BY <1>1, <2>1 DEF Plain, OneCandidatePerStatement, deciding
  <2> QED BY <2>1, <2>2, Elsewhere
<1>3. ASSUME NEW s \in Sources, NEW ref \in Refs, Collect(s, ref) PROVE IInv'
  <2>1. /\ refs' = [refs EXCEPT ![s] = @ \cup {ref}]
        /\ UNCHANGED <<deployed, parsed, rows, passes, eligible, accepted, events, deciding>>
        BY <1>3 DEF Collect, judging
  <2>2. refs' \in [Sources -> (SUBSET Refs) \ {{}}]
    <3>1. refs[s] \cup {ref} \in (SUBSET Refs) \ {{}}
          BY <1>1 DEF Plain
    <3> QED BY <1>1, <2>1, <3>1 DEF Plain
  <2>3. Plain' /\ OneCandidatePerStatement'
        BY <1>1, <2>1, <2>2 DEF Plain, OneCandidatePerStatement, deciding
  <2> QED BY <2>1, <2>3, Elsewhere
<1>4. ASSUME NEW p \in Passes, StartPass(p) PROVE IInv'
  <2> DEFINE x == [rule |-> deployed.rule, document |-> deployed.document, todo |-> Targets]
  <2>1. /\ passes' = [passes EXCEPT ![p] = x]
        /\ UNCHANGED <<deployed, parsed, refs, rows, eligible, accepted, events, deciding>>
        BY <1>4 DEF StartPass, judging
  <2>2. Targets \in SUBSET [source : Sources, claim : Refs]
        BY <1>1, TargetsFit
  <2>3. x \in PassRows /\ x.rule \in Versions /\ x.document \in Versions
        BY <1>1, <2>2 DEF Plain, PassRows
  <2> HIDE DEF x
  <2>4. /\ passes' \in [Passes -> PassRows]
        /\ \A q \in Passes : passes'[q].todo # {} =>
              passes'[q].rule \in Versions /\ passes'[q].document \in Versions
        BY <1>1, <2>1, <2>3, PassChange
  <2>5. Plain' /\ OneCandidatePerStatement'
        BY <1>1, <2>1, <2>4 DEF Plain, PassRows, OneCandidatePerStatement, deciding
  <2> QED BY <2>1, <2>5, Elsewhere
<1>5. ASSUME NEW p \in Passes, KillPass(p) PROVE IInv'
  <2>1. /\ passes' = [passes EXCEPT ![p] = Idle]
        /\ UNCHANGED <<deployed, parsed, refs, rows, eligible, accepted, events, deciding>>
        BY <1>5 DEF KillPass, judging
  <2>2. /\ passes' \in [Passes -> PassRows]
        /\ \A q \in Passes : passes'[q].todo # {} =>
              passes'[q].rule \in Versions /\ passes'[q].document \in Versions
        BY <1>1, <2>1, IdleFits, PassChange
  <2>3. Plain' /\ OneCandidatePerStatement'
        BY <1>1, <2>1, <2>2 DEF Plain, PassRows, OneCandidatePerStatement, deciding
  <2> QED BY <2>1, <2>3, Elsewhere
<1>6. ASSUME NEW p \in Passes, NEW t \in passes[p].todo, SkipDocument(p, t) PROVE IInv'
  <2>1. /\ Done(p, t)
        /\ UNCHANGED <<deployed, parsed, refs, rows, eligible, accepted, events, deciding>>
        BY <1>6 DEF SkipDocument, judging
  <2>2. /\ passes' \in [Passes -> PassRows]
        /\ \A q \in Passes : passes'[q].todo # {} =>
              passes'[q].rule \in Versions /\ passes'[q].document \in Versions
        BY <1>1, <2>1, DoneFits
  <2>3. Plain' /\ OneCandidatePerStatement'
        BY <1>1, <2>1, <2>2 DEF Plain, PassRows, OneCandidatePerStatement, deciding
  <2> QED BY <2>1, <2>3, Elsewhere
<1> QED BY <1>2, <1>3, <1>4, <1>5, <1>6

LEMMA JudgingSteps ==
    ASSUME IInv,
           \/ \E c \in rows : RecordDecision(c)
           \/ \E s \in Sources : ChangeEligibility(s)
    PROVE  IInv'
<1>1. Plain /\ OneCandidatePerStatement
      BY Parts
<1>2. ASSUME NEW c \in rows, RecordDecision(c) PROVE IInv'
  <2>1. /\ accepted' \in {accepted \cup {c}, accepted \ {c}} /\ Event
        /\ UNCHANGED <<deployed, parsed, refs, rows, passes, eligible, deciding>>
        BY <1>2 DEF RecordDecision, reading
  <2>2. Plain' /\ OneCandidatePerStatement'
        BY <1>1, <2>1, ClaimsAssumption DEF Plain, OneCandidatePerStatement, Event, deciding
  <2> QED BY <2>1, <2>2, Elsewhere
<1>3. ASSUME NEW s \in Sources, ChangeEligibility(s) PROVE IInv'
  <2>1. /\ eligible' \in {eligible \cup {s}, eligible \ {s}} /\ Event
        /\ UNCHANGED <<deployed, parsed, refs, rows, passes, accepted, deciding>>
        BY <1>3 DEF ChangeEligibility, reading
  <2>2. Plain' /\ OneCandidatePerStatement'
        BY <1>1, <2>1, ClaimsAssumption DEF Plain, OneCandidatePerStatement, Event, deciding
  <2> QED BY <2>1, <2>2, Elsewhere
<1> QED BY <1>2, <1>3

-----------------------------------------------------------------------------
(* Previews and decisions.                                                   *)

LEMMA RequestFacts ==
    ASSUME NEW q \in Requests
    PROVE  /\ q.kind \in {"scope", "conflict"}
           /\ q.kind = "scope" => q.state \in ScopeStates
           /\ q.kind = "conflict" => q.action \in ConflictActions
BY ClaimsAssumption DEF ScopeRequests, ConflictRequests

LEMMA InForceTypes ==
    ASSUME Logs, NEW x, NEW n \in Nat, n <= Len(log)
    PROVE  ActionAfter(x, n) \in ConflictActions \cup {"none"}
           /\ ScopeAfter(x, n) \in ScopeStates
<1>1. log \in Seq(Entries) /\ Len(log) \in Nat
      BY DEF Logs
<1>2. \A i \in 1..n : log[i].request \in Requests
      BY <1>1 DEF Logs, LogFits, Fits
<1>3. ActionAfter(x, n) \in ConflictActions \cup {"none"}
  <2>1. CASE InForce("conflict", x, n) = NoEntry
        BY <2>1 DEF ActionAfter
  <2>2. CASE InForce("conflict", x, n) # NoEntry
    <3>1. PICK i \in 1..n : /\ InForce("conflict", x, n) = log[i]
                            /\ log[i].request.kind = "conflict"
          BY <1>1, <2>2, InForceFacts
    <3>2. log[i].request.action \in ConflictActions
          BY <1>2, <3>1, RequestFacts
    <3> QED BY <2>2, <3>1, <3>2 DEF ActionAfter
  <2> QED BY <2>1, <2>2
<1>4. ScopeAfter(x, n) \in ScopeStates
  <2>1. CASE InForce("scope", x, n) = NoEntry
        BY <2>1 DEF ScopeAfter, ScopeStates
  <2>2. CASE InForce("scope", x, n) # NoEntry
    <3>1. PICK i \in 1..n : /\ InForce("scope", x, n) = log[i]
                            /\ log[i].request.kind = "scope"
          BY <1>1, <2>2, InForceFacts
    <3>2. log[i].request.state \in ScopeStates
          BY <1>2, <3>1, RequestFacts
    <3> QED BY <2>2, <3>1, <3>2 DEF ScopeAfter
  <2> QED BY <2>1, <2>2
<1> QED BY <1>3, <1>4

LEMMA ShownTypes ==
    ASSUME IInv, NEW x
    PROVE  ScopeFacts(x) \in ShownScopes /\ ConflictFacts(x) \in ShownConflicts
<1>1. Logs /\ Plain
      BY Parts
<1>2. Len(log) \in Nat
      BY <1>1 DEF Logs
<1>3. ScopeOf(x) \in ScopeStates /\ ActionOn(x) \in ConflictActions \cup {"none"}
      BY <1>1, <1>2, InForceTypes DEF ScopeOf, ActionOn
<1>4. \A k : Verdict(k) \in Verdicts
      BY DEF Verdict, Verdicts
<1>5. Members(x) \in SUBSET Candidates
      BY <1>1 DEF Members, Queue, Plain
<1> QED BY <1>3, <1>4, <1>5 DEF ScopeFacts, ConflictFacts, ShownScopes, ShownConflicts

LEMMA Undisturbed ==
    ASSUME IInv, UNCHANGED reading, UNCHANGED judging, begun' \in 0..MaxDecisions
    PROVE  Plain' /\ OneCandidatePerStatement' /\ rows' = rows /\ deployed' = deployed
<1>1. UNCHANGED <<deployed, parsed, refs, rows, passes, eligible, accepted, events>>
      BY DEF reading, judging
<1> QED BY <1>1, Parts DEF Plain, OneCandidatePerStatement

LEMMA PreviewStep ==
    ASSUME IInv, NEW r \in Reviewers, Preview(r)
    PROVE  IInv'
<1>1. PICK q \in Requests :
         \E x \in IF q.kind = "scope" THEN Queue ELSE {KeyOf(c) : c \in Queue} :
            \E chosen \in IF q.kind = "scope" THEN {None} ELSE Queue \cup {None} :
               LET d == [NoEntry EXCEPT !.request = q, !.on = x, !.chosen = chosen]
               IN  /\ Valid(d)
                   /\ desk' = [desk EXCEPT ![r] =
                         [d EXCEPT !.phase = "previewed",
                                   !.shown = IF q.kind = "scope" THEN ScopeFacts(x)
                                             ELSE ConflictFacts(x)]]
      BY DEF Preview
<1>2. PICK x \in IF q.kind = "scope" THEN Queue ELSE {KeyOf(c) : c \in Queue} :
         \E chosen \in IF q.kind = "scope" THEN {None} ELSE Queue \cup {None} :
            LET d == [NoEntry EXCEPT !.request = q, !.on = x, !.chosen = chosen]
            IN  /\ Valid(d)
                /\ desk' = [desk EXCEPT ![r] =
                      [d EXCEPT !.phase = "previewed",
                                !.shown = IF q.kind = "scope" THEN ScopeFacts(x)
                                          ELSE ConflictFacts(x)]]
      BY <1>1
<1>3. PICK chosen \in IF q.kind = "scope" THEN {None} ELSE Queue \cup {None} :
         LET d == [NoEntry EXCEPT !.request = q, !.on = x, !.chosen = chosen]
         IN  /\ Valid(d)
             /\ desk' = [desk EXCEPT ![r] =
                   [d EXCEPT !.phase = "previewed",
                             !.shown = IF q.kind = "scope" THEN ScopeFacts(x)
                                       ELSE ConflictFacts(x)]]
      BY <1>2
<1> DEFINE d == [NoEntry EXCEPT !.request = q, !.on = x, !.chosen = chosen]
           shown == IF q.kind = "scope" THEN ScopeFacts(x) ELSE ConflictFacts(x)
           e == [d EXCEPT !.phase = "previewed", !.shown = shown]
<1>4. Valid(d) /\ desk' = [desk EXCEPT ![r] = e] /\ UNCHANGED <<reading, judging, begun, log>>
      BY <1>3 DEF Preview
<1>5. Plain /\ Desks
      BY Parts
<1>6. rows' = rows /\ deployed' = deployed /\ Plain' /\ OneCandidatePerStatement'
      BY <1>4, <1>5, Undisturbed DEF Plain
<1>7. Queue \in SUBSET Candidates /\ Queue \in SUBSET rows
      BY <1>5 DEF Queue, Plain
<1>8. x \in Keys \cup {None} /\ chosen \in Candidates \cup {None}
  <2>1. \A c \in Queue : c \in Keys /\ KeyOf(c) \in Keys
        BY <1>7 DEF KeyOf, Keys, Candidates
  <2>2. x \in Keys
        BY <2>1
  <2>3. chosen \in Queue \cup {None}
        OBVIOUS
  <2> QED BY <1>7, <2>2, <2>3
<1>9. /\ q.kind = "scope" => shown \in ShownScopes
      /\ q.kind # "scope" => shown \in ShownConflicts /\ shown = ConflictFacts(x)
      BY ShownTypes
<1>10. d.request = q /\ d.on = x /\ d.chosen = chosen
       BY DEF NoEntry
<1>11. /\ q.kind = "scope" => x \in rows
       /\ q.kind # "scope" =>
             IF q.action = "SELECTED_SUPPORTED_CLAIM" THEN chosen \in Members(x) ELSE chosen = None
  <2> HIDE DEF d
  <2> QED BY <1>4, <1>7, <1>10 DEF Valid, ConflictValid
<1>12. d \in Entries
       BY <1>8, NoEntryFits DEF Entries
<1> HIDE DEF shown, d
<1>13. e \in Entries /\ e.phase = "previewed" /\ e.shown = shown
  <2>1. shown \in ShownScopes \cup ShownConflicts \cup {None}
        BY <1>9
  <2> QED BY <1>12, <2>1 DEF Entries
<1>14. e.request = q /\ e.on = x /\ e.chosen = chosen
       BY <1>10, <1>12 DEF Entries
<1> HIDE DEF e
<1>15. /\ desk' \in [Reviewers -> Entries] /\ desk'[r] = e
       /\ \A u \in Reviewers : u # r => desk'[u] = desk[u]
       BY <1>4, <1>5, <1>13 DEF Desks
<1>16. q.kind # "scope" => shown.members = Members(x)
       BY <1>9 DEF ConflictFacts
<1>17. DeskFits(r)' /\ Opened(r)'
       BY <1>6, <1>9, <1>11, <1>13, <1>14, <1>15, <1>16 DEF DeskFits, Fits, Opened
<1>18. \A u \in Reviewers :
          \/ desk'[u] = NoEntry
          \/ desk'[u] = desk[u] /\ (desk[u].phase = "open" => deployed' = deployed)
          \/ DeskFits(u)' /\ Opened(u)'
       BY <1>6, <1>15, <1>17
<1>19. UNCHANGED log
       BY <1>4
<1> QED BY <1>6, <1>15, <1>18, <1>19, SameLog, Rebuild

LEMMA BeginStep ==
    ASSUME IInv, NEW r \in Reviewers, BeginApply(r)
    PROVE  IInv'
<1> DEFINE e == [desk[r] EXCEPT !.phase = "open", !.began = begun + 1, !.after = Len(log)]
           fits == Valid(desk[r]) /\ FactsNow(desk[r]) = desk[r].shown
<1>1. /\ desk[r].phase = "previewed" /\ begun < MaxDecisions
      /\ UNCHANGED <<reading, judging, log>>
      /\ fits => begun' = begun + 1 /\ desk' = [desk EXCEPT ![r] = e]
      /\ ~fits => desk' = [desk EXCEPT ![r] = NoEntry] /\ UNCHANGED begun
      BY DEF BeginApply
<1>2. Plain /\ Desks /\ Logs
      BY Parts
<1>3. begun' \in 0..MaxDecisions
  <2>1. begun \in 0..MaxDecisions
        BY <1>2 DEF Plain
  <2> QED BY <1>1, <2>1, ClaimsAssumption
<1>4. rows' = rows /\ deployed' = deployed /\ Plain' /\ OneCandidatePerStatement'
      BY <1>1, <1>3, Undisturbed
<1>5. desk[r] \in Entries /\ Fits(desk[r]) /\ Len(log) \in Nat
      BY <1>1, <1>2 DEF Desks, DeskFits, Logs
<1>6. CASE ~fits
  <2>1. desk' \in [Reviewers -> Entries]
        BY <1>1, <1>2, <1>6, NoEntryFits DEF Desks
  <2>2. \A u \in Reviewers : desk'[u] = NoEntry \/ desk'[u] = desk[u]
        BY <1>1, <1>2, <1>6 DEF Desks
  <2>3. UNCHANGED log
        BY <1>1
  <2> QED BY <1>4, <2>1, <2>2, <2>3, SameLog, Rebuild
<1>7. CASE fits
  <2>1. begun + 1 \in 0..MaxDecisions
        BY <1>1, <1>3, <1>7
  <2>2. /\ e \in Entries /\ e.phase = "open" /\ e.after = Len(log)
        /\ e.request = desk[r].request /\ e.on = desk[r].on
        /\ e.chosen = desk[r].chosen /\ e.shown = desk[r].shown
        BY <1>5, <2>1 DEF Entries
  <2> HIDE DEF e
  <2>3. /\ desk' \in [Reviewers -> Entries] /\ desk'[r] = e
        /\ \A u \in Reviewers : u # r => desk'[u] = desk[u]
        BY <1>1, <1>2, <1>7, <2>2 DEF Desks
  <2>4. UNCHANGED log
        BY <1>1
  <2>5. DeskFits(r)'
        BY <1>4, <1>5, <2>2, <2>3 DEF DeskFits, Fits
  <2>6. Opened(r)'
    <3> SUFFICES ASSUME NEW x \in Keys \cup {None}, NEW n \in Nat, e.on = x, e.after = n
                 PROVE  /\ n <= Len(log)
                        /\ IF e.request.kind = "scope"
                             THEN /\ e.shown.before = ScopeAfter(x, n)'
                                  /\ x.rule = deployed.rule /\ x.document = deployed.document
                             ELSE e.shown.before = ActionAfter(x, n)'
        BY <1>4, <2>3, <2>4 DEF Opened
    <3>1. n = Len(log)
          BY <2>2
    <3>2. ScopeAfter(x, n)' = ScopeAfter(x, n) /\ ActionAfter(x, n)' = ActionAfter(x, n)
          BY <1>2, <1>5, <2>4, <3>1, ScopeSame DEF Logs
    <3>3. CASE e.request.kind = "scope"
      <4>1. ScopeFacts(x) = e.shown /\ x \in Queue
            BY <1>7, <2>2, <3>3 DEF FactsNow, Valid, ScopeValid
      <4>2. e.shown.before = ScopeAfter(x, n)
            BY <4>1, <3>1 DEF ScopeFacts, ScopeOf
      <4> QED BY <3>1, <3>2, <3>3, <4>1, <4>2 DEF Queue
    <3>4. CASE e.request.kind # "scope"
      <4>1. ConflictFacts(x) = e.shown
            BY <1>7, <2>2, <3>4 DEF FactsNow
      <4>2. e.shown.before = ActionAfter(x, n)
            BY <4>1, <3>1 DEF ConflictFacts, ActionOn
      <4> QED BY <3>1, <3>2, <3>4, <4>2
    <3> QED BY <3>3, <3>4
  <2>7. \A u \in Reviewers :
           \/ desk'[u] = NoEntry
           \/ desk'[u] = desk[u] /\ (desk[u].phase = "open" => deployed' = deployed)
           \/ DeskFits(u)' /\ Opened(u)'
        BY <1>4, <2>3, <2>5, <2>6
  <2> QED BY <1>4, <2>3, <2>4, <2>7, SameLog, Rebuild
<1> QED BY <1>6, <1>7

LEMMA LeaveStep ==
    ASSUME IInv, NEW r \in Reviewers, Leave(r)
    PROVE  IInv'
<1>1. /\ desk' = [desk EXCEPT ![r] = NoEntry] /\ UNCHANGED <<reading, judging, begun, log>>
      BY DEF Leave
<1>2. Plain /\ Desks
      BY Parts
<1>3. rows' = rows /\ deployed' = deployed /\ Plain' /\ OneCandidatePerStatement'
      BY <1>1, <1>2, Undisturbed DEF Plain
<1>4. /\ desk' \in [Reviewers -> Entries]
      /\ \A u \in Reviewers : desk'[u] = NoEntry \/ desk'[u] = desk[u]
      BY <1>1, <1>2, NoEntryFits DEF Desks
<1>5. UNCHANGED log
      BY <1>1
<1> QED BY <1>3, <1>4, <1>5, SameLog, Rebuild

LEMMA CommitStep ==
    ASSUME IInv, NEW r \in Reviewers, CommitApply(r)
    PROVE  IInv'
<1>1. /\ desk[r].phase = "open" /\ log' = Append(log, desk[r])
      /\ desk' = [desk EXCEPT ![r] = NoEntry] /\ UNCHANGED <<reading, judging, begun>>
      BY DEF CommitApply
<1>2. Plain /\ Desks /\ Logs
      BY Parts
<1>3. rows' = rows /\ deployed' = deployed /\ Plain' /\ OneCandidatePerStatement'
      BY <1>1, <1>2, Undisturbed DEF Plain
<1>4. /\ desk' \in [Reviewers -> Entries]
      /\ \A u \in Reviewers : desk'[u] = NoEntry \/ desk'[u] = desk[u]
      BY <1>1, <1>2, NoEntryFits DEF Desks
<1>5. desk[r] \in Entries /\ Fits(desk[r])
      BY <1>1, <1>2 DEF Desks, DeskFits
<1>6. log \in Seq(Entries) /\ Len(log) \in Nat
      BY <1>2 DEF Logs
<1>7. /\ log' \in Seq(Entries) /\ Len(log') = Len(log) + 1
      /\ \A i \in 1..Len(log) : log'[i] = log[i]
      /\ log'[Len(log) + 1] = desk[r]
      BY <1>1, <1>5, <1>6
<1>8. \A i \in (Len(log) + 1)..Len(log') : LogFits(i)'
  <2>1. \A i \in (Len(log) + 1)..Len(log') : i = Len(log) + 1
        BY <1>6, <1>7
  <2> QED BY <1>3, <1>5, <1>7, <2>1 DEF LogFits, Fits
<1>9. Len(log) <= Len(log')
      BY <1>6, <1>7
<1> QED BY <1>3, <1>4, <1>7, <1>8, <1>9, Rebuild

LEMMA StepInv == IInv /\ [Next]_vars => IInv'
<1> SUFFICES ASSUME IInv, [Next]_vars PROVE IInv'
    OBVIOUS
<1>1. CASE UNCHANGED vars
  <2>1. UNCHANGED <<reading, judging, begun, log, desk>> /\ UNCHANGED deciding
        BY <1>1 DEF vars, deciding
  <2>2. Plain
        BY Parts
  <2>3. Plain' /\ OneCandidatePerStatement' /\ rows' = rows /\ deployed' = deployed
        BY <2>1, <2>2, Undisturbed DEF Plain
  <2> QED BY <2>1, <2>3, Elsewhere
<1>2. CASE Next
  <2>1. CASE Deploy
        BY <2>1, DeployStep
  <2>2. CASE \/ \E s \in Sources : Parse(s) \/ \E ref \in Refs : Collect(s, ref)
             \/ \E p \in Passes : \/ StartPass(p) \/ KillPass(p)
                                  \/ \E t \in passes[p].todo : SkipDocument(p, t)
        BY <2>2, PassSteps
  <2>3. ASSUME NEW p \in Passes, NEW t \in passes[p].todo, ReadDocument(p, t) PROVE IInv'
        BY <2>3, ReadStep
  <2>4. CASE \/ \E c \in rows : RecordDecision(c)
             \/ \E s \in Sources : ChangeEligibility(s)
        BY <2>4, JudgingSteps
  <2>5. ASSUME NEW r \in Reviewers, Preview(r) \/ Leave(r) \/ BeginApply(r) \/ CommitApply(r)
        PROVE  IInv'
        BY <2>5, PreviewStep, LeaveStep, BeginStep, CommitStep
  <2> QED BY <1>2, <2>1, <2>2, <2>3, <2>4, <2>5 DEF Next
<1> QED BY <1>1, <1>2

LEMMA Invariant == Spec => []IInv
BY InitInv, StepInv, PTL DEF Spec

-----------------------------------------------------------------------------
(* The rows have the columns of their tables, and every resolution satisfies *)
(* the CHECKs of revision 0037.                                              *)
THEOREM TypeCorrect == Spec => []TypeOK
<1>1. IInv => TypeOK
      BY DEF IInv
<1> QED BY <1>1, Invariant, PTL

(* However many passes read a document at once, and whatever is deployed or  *)
(* collected between them, a statement is one candidate of a version.        *)
THEOREM StatementsAreClaimedOnce == Spec => []OneCandidatePerStatement
<1>1. IInv => OneCandidatePerStatement
      BY DEF IInv
<1> QED BY <1>1, Invariant, PTL

LEMMA RequestKinds == \A q \in Requests : q.kind \in {"scope", "conflict"}
BY ClaimsAssumption DEF ScopeRequests, ConflictRequests

(* What no entry after the first n is about stands as these left it.         *)
LEMMA StandsStill ==
    ASSUME log \in Seq(Entries), NEW n \in Nat, n <= Len(log), NEW kind, NEW x,
           \A j \in (n + 1)..Len(log) : ~(log[j].request.kind = kind /\ log[j].on = x)
    PROVE  InForce(kind, x, n) = InForce(kind, x, Len(log))
<1> DEFINE m == Len(log)
           early == {i \in 1..n : log[i].request.kind = kind /\ log[i].on = x}
           all   == {i \in 1..m : log[i].request.kind = kind /\ log[i].on = x}
           latest(of) == {i \in of : \A j \in of : log[j].began <= log[i].began}
           last(of) == IF of = {} THEN NoEntry ELSE log[CHOOSE i \in latest(of) : TRUE]
<1>1. m \in Nat
      OBVIOUS
<1>2. ASSUME NEW i \in all PROVE i \in early
  <2>1. i \in 1..m /\ ~(i \in (n + 1)..m)
        BY <1>2
  <2>2. i \in 1..n
        BY <1>1, <2>1
  <2> QED BY <1>2, <2>2
<1>3. ASSUME NEW i \in early PROVE i \in all
  <2>1. i \in 1..n
        BY <1>3
  <2>2. i \in 1..m
        BY <1>1, <2>1
  <2> QED BY <1>3, <2>2
<1>4. early = all
      BY <1>2, <1>3
<1>5. InForce(kind, x, n) = last(early)
      BY DEF InForce
<1>6. InForce(kind, x, m) = last(all)
      BY DEF InForce
<1> HIDE DEF early, all, last
<1> QED BY <1>4, <1>5, <1>6

(* A decision meets in force what its reviewer was shown, unless another     *)
(* committed within its transaction, and decides no scope for a candidate    *)
(* that is history, however many reviewers decide at once.                   *)
THEOREM DecisionsMeetWhatWasShown == Spec => OnlyOverlapsAreBlind
<1> DEFINE Seen(i) == LET entry == log'[i] IN
              /\ entry.shown.before # Decided(entry, Len(log)) => Overlapping(entry) # {}
              /\ entry.request.kind = "scope" =>
                    /\ entry.on.rule = deployed.rule
                    /\ entry.on.document = deployed.document
<1>1. IInv /\ [Next]_vars => [\A i \in (Len(log) + 1)..Len(log') : Seen(i)]_vars
  <2> SUFFICES ASSUME IInv, Next, NEW i \in (Len(log) + 1)..Len(log') PROVE Seen(i)
      OBVIOUS
  <2>1. Logs /\ Desks /\ Open
        BY Parts
  <2>2. log \in Seq(Entries) /\ Len(log) \in Nat
        BY <2>1 DEF Logs
  <2>3. ~ UNCHANGED log
        BY <2>2
  <2>4. PICK r \in Reviewers : CommitApply(r)
    <3>1. \/ \E r \in Reviewers : CommitApply(r)
          \/ UNCHANGED log
      <4>1. CASE Deploy
            BY <4>1 DEF Deploy
      <4>2. ASSUME NEW s \in Sources,
                   Parse(s) \/ ChangeEligibility(s) \/ \E ref \in Refs : Collect(s, ref)
            PROVE  UNCHANGED log
            BY <4>2 DEF Parse, ChangeEligibility, Collect, deciding
      <4>3. ASSUME NEW p \in Passes,
                   \/ StartPass(p) \/ KillPass(p)
                   \/ \E t \in passes[p].todo : ReadDocument(p, t) \/ SkipDocument(p, t)
            PROVE  UNCHANGED log
            BY <4>3 DEF StartPass, KillPass, ReadDocument, SkipDocument, deciding
      <4>4. ASSUME NEW c \in rows, RecordDecision(c) PROVE UNCHANGED log
            BY <4>4 DEF RecordDecision, deciding
      <4>5. ASSUME NEW r \in Reviewers, Preview(r) \/ Leave(r) \/ BeginApply(r)
            PROVE  UNCHANGED log
            BY <4>5 DEF Preview, Leave, BeginApply
      <4> QED BY <4>1, <4>2, <4>3, <4>4, <4>5 DEF Next
    <3> QED BY <2>3, <3>1
  <2>5. /\ desk[r].phase = "open" /\ log' = Append(log, desk[r])
        BY <2>4 DEF CommitApply
  <2>6. desk[r] \in Entries /\ Opened(r)
        BY <2>1 DEF Desks, Open
  <2>7. i = Len(log) + 1 /\ log'[i] = desk[r]
        BY <2>2, <2>5, <2>6
  <2>8. desk[r].on \in Keys \cup {None} /\ desk[r].after \in Nat
        BY <2>6 DEF Entries
  <2>9. /\ desk[r].after <= Len(log)
        /\ desk[r].shown.before = Decided(desk[r], desk[r].after)
        /\ desk[r].request.kind = "scope" =>
              /\ desk[r].on.rule = deployed.rule
              /\ desk[r].on.document = deployed.document
        BY <2>5, <2>6, <2>8 DEF Opened, Decided
  <2>10. ASSUME Overlapping(desk[r]) = {}
         PROVE  Decided(desk[r], desk[r].after) = Decided(desk[r], Len(log))
    <3>1. \A j \in (desk[r].after + 1)..Len(log) :
             ~(log[j].request.kind = desk[r].request.kind /\ log[j].on = desk[r].on)
          BY <2>10 DEF Overlapping
    <3>2. InForce(desk[r].request.kind, desk[r].on, desk[r].after)
             = InForce(desk[r].request.kind, desk[r].on, Len(log))
          BY <2>2, <2>8, <2>9, <3>1, StandsStill
    <3>3. CASE desk[r].request.kind = "scope"
          BY <3>2, <3>3 DEF Decided, ScopeAfter
    <3>4. CASE desk[r].request.kind # "scope"
      <4>1. desk[r].request.kind = "conflict"
            BY <2>5, <3>4, RequestKinds DEF IInv, TypeOK, Fits
      <4> QED BY <3>2, <4>1 DEF Decided, ActionAfter
    <3> QED BY <3>3, <3>4
  <2> QED BY <2>7, <2>9, <2>10
<1> QED BY <1>1, Invariant, PTL DEF Spec, OnlyOverlapsAreBlind

(* Induction over the numbers up to a bound, ...                             *)
LEMMA UpInduction ==
    ASSUME NEW n \in Nat, NEW G,
           \A i \in 0..n : (\A j \in 0..i - 1 : j \in G) => i \in G
    PROVE  \A i \in 0..n : i \in G
<1> DEFINE bad == {i \in 0..n : i \notin G}
<1>1. SUFFICES ASSUME bad # {} PROVE FALSE
      OBVIOUS
<1>2. bad \in SUBSET Nat
      OBVIOUS
<1>3. PICK i \in bad : \A j \in bad : i <= j
  <2> HIDE DEF bad
  <2> QED BY <1>1, <1>2, FirstExists
<1>4. \A j \in 0..i - 1 : j \in G
      BY <1>3
<1> QED BY <1>3, <1>4

(* ... and from the bound down.                                              *)
LEMMA DownInduction ==
    ASSUME NEW n \in Nat, NEW G,
           \A i \in 0..n : (\A j \in i + 1..n : j \in G) => i \in G
    PROVE  \A i \in 0..n : i \in G
<1> DEFINE H == {m \in 0..n : n - m \in G}
<1>1. ASSUME NEW m \in 0..n, \A j \in 0..m - 1 : j \in H PROVE m \in H
  <2>1. n - m \in 0..n
        OBVIOUS
  <2>2. ASSUME NEW j \in (n - m) + 1..n PROVE j \in G
    <3>1. n - j \in 0..m - 1
          OBVIOUS
    <3>2. n - (n - j) = j /\ n - j \in H
          BY <1>1, <3>1
    <3> QED BY <3>2
  <2>3. n - m \in G
        BY <2>1, <2>2
  <2> QED BY <2>3
<1>2. \A m \in 0..n : m \in H
  <2> HIDE DEF H
  <2> QED BY <1>1, UpInduction
<1>3. ASSUME NEW i \in 0..n PROVE i \in G
  <2>1. n - i \in 0..n /\ n - (n - i) = i
        OBVIOUS
  <2>2. n - i \in H
        BY <1>2, <2>1
  <2> QED BY <2>1, <2>2
<1> QED BY <1>3

(* A concatenation is built up one sequence after the other.                 *)
LEMMA Flattening ==
    ASSUME NEW X, NEW n \in Nat, NEW seqs \in [1..n -> Seq(X)]
    PROVE  \E f : /\ f[0] = <<>>
                  /\ \A i \in 1..n : f[i] = f[i - 1] \o seqs[i]
                  /\ FlattenSeq(seqs) = f[n]
<1>0. Len(seqs) = n
      OBVIOUS
<1>1. CASE n = 0
  <2>1. seqs = <<>>
        BY <1>1
  <2>2. FlattenSeq(seqs) = <<>>
        BY <1>0, <1>1, <2>1 DEF FlattenSeq
  <2> DEFINE f == [i \in 0..0 |-> <<>>]
  <2>3. f[0] = <<>> /\ FlattenSeq(seqs) = f[n]
        BY <1>1, <2>2
  <2>4. \A i \in 1..n : f[i] = f[i - 1] \o seqs[i]
        BY <1>1
  <2> HIDE DEF f
  <2> QED BY <2>3, <2>4
<1>2. CASE n # 0
  <2> DEFINE Step(g, i) == IF i = 1 THEN seqs[i] ELSE g[i - 1] \o seqs[i]
             G == {k \in 0..n : \E g : g = [i \in 1..k |-> Step(g, i)]}
  <2>1. ASSUME NEW k \in 0..n, \A j \in 0..k - 1 : j \in G PROVE k \in G
    <3>1. CASE k = 0
      <4>1. <<>> = [i \in 1..k |-> Step(<<>>, i)]
            BY <3>1
      <4> QED BY <4>1
    <3>2. CASE k # 0
      <4>1. k - 1 \in G
        <5> HIDE DEF G
        <5> QED BY <2>1, <3>2
      <4>2. PICK g : g = [i \in 1..k - 1 |-> Step(g, i)]
            BY <4>1
      <4> DEFINE h == [i \in 1..k |-> IF i = k THEN Step(g, k) ELSE g[i]]
      <4>3. ASSUME NEW i \in 1..k PROVE h[i] = Step(h, i)
        <5>1. i # 1 => i - 1 \in 1..k /\ i - 1 # k
              OBVIOUS
        <5>2. i # 1 => h[i - 1] = g[i - 1]
              BY <5>1
        <5>3. CASE i = k
              BY <5>2, <5>3
        <5>4. CASE i # k
          <6>1. i \in 1..k - 1
                BY <5>4
          <6>2. h[i] = g[i] /\ g[i] = Step(g, i)
                BY <4>2, <5>4, <6>1
          <6> QED BY <5>2, <6>2
        <5> QED BY <5>3, <5>4
      <4>4. h = [i \in 1..k |-> Step(h, i)]
            BY <4>3
      <4> QED BY <4>4
    <3> QED BY <3>1, <3>2
  <2>2. n \in G
    <3>1. \A i \in 0..n : i \in G
      <4> HIDE DEF G
      <4> QED BY <2>1, UpInduction
    <3> HIDE DEF G
    <3> QED BY <3>1
  <2> DEFINE whole == CHOOSE g : g = [i \in 1..n |-> Step(g, i)]
  <2>3. whole = [i \in 1..n |-> Step(whole, i)]
        BY <2>2
  <2>4. FlattenSeq(seqs) = whole[n]
        BY <1>0, <1>2 DEF FlattenSeq
  <2> HIDE DEF whole
  <2> DEFINE f == [i \in 0..n |-> IF i = 0 THEN <<>> ELSE whole[i]]
  <2>5. ASSUME NEW i \in 1..n PROVE f[i] = f[i - 1] \o seqs[i]
    <3>1. f[i] = Step(whole, i)
      <4>1. i \in 0..n /\ i # 0
            OBVIOUS
      <4>2. f[i] = whole[i]
            BY <4>1
      <4>3. whole[i] = Step(whole, i)
            BY <2>3
      <4> QED BY <4>2, <4>3
    <3>2. CASE i = 1
      <4>1. <<>> \o seqs[i] = seqs[i]
            BY ConcatEmptySeq
      <4> QED BY <3>1, <3>2, <4>1
    <3>3. CASE i # 1
      <4>1. i - 1 \in 0..n /\ i - 1 # 0
            BY <3>3
      <4> QED BY <3>1, <3>3, <4>1
    <3> QED BY <3>2, <3>3
  <2>6. f[0] = <<>> /\ FlattenSeq(seqs) = f[n]
        BY <1>2, <2>4
  <2> HIDE DEF f
  <2> QED BY <2>5, <2>6
<1> QED BY <1>1, <1>2

(* What holds of a concatenation as it is built up holds of all of it.       *)
LEMMA FlattenInduction ==
    ASSUME NEW X, NEW n \in Nat, NEW seqs \in [1..n -> Seq(X)],
           NEW Good, <<>> \in Good[0],
           \A i \in 1..n : \A s \in Good[i - 1] : s \o seqs[i] \in Good[i]
    PROVE  FlattenSeq(seqs) \in Good[n]
<1>1. PICK f : /\ f[0] = <<>>
               /\ \A i \in 1..n : f[i] = f[i - 1] \o seqs[i]
               /\ FlattenSeq(seqs) = f[n]
      BY Flattening
<1> DEFINE G == {i \in 0..n : f[i] \in Good[i]}
<1>2. ASSUME NEW i \in 0..n, \A j \in 0..i - 1 : j \in G PROVE i \in G
  <2>1. CASE i = 0
        BY <1>1, <2>1
  <2>2. CASE i # 0
    <3>1. i \in 1..n /\ i - 1 \in G
          BY <1>2, <2>2
    <3>2. f[i - 1] \in Good[i - 1] /\ f[i] = f[i - 1] \o seqs[i]
          BY <1>1, <3>1
    <3> QED BY <3>1, <3>2
  <2> QED BY <2>1, <2>2
<1>3. \A i \in 0..n : i \in G
  <2> HIDE DEF G
  <2> QED BY <1>2, UpInduction
<1> QED BY <1>1, <1>3

(* What concatenating two sequences keeps, concatenating many does.          *)
LEMMA FlattenClosed ==
    ASSUME NEW X, NEW n \in Nat, NEW Good \in SUBSET Seq(X), NEW seqs \in [1..n -> Good],
           <<>> \in Good, \A s, t \in Good : s \o t \in Good
    PROVE  FlattenSeq(seqs) \in Good
<1> DEFINE all == [i \in 0..n |-> Good]
<1>1. seqs \in [1..n -> Seq(X)]
      OBVIOUS
<1>2. <<>> \in all[0] /\ all[n] = Good
      OBVIOUS
<1>3. \A i \in 1..n : \A s \in all[i - 1] : s \o seqs[i] \in all[i]
      OBVIOUS
<1> HIDE DEF all
<1>4. FlattenSeq(seqs) \in all[n]
      BY <1>1, <1>2, <1>3, FlattenInduction
<1> QED BY <1>2, <1>4

(* A finite set of numbers in order: each of it, ascending.                  *)
LEMMA InOrderFacts ==
    ASSUME NEW S \in SUBSET Nat, IsFiniteSet(S)
    PROVE  /\ Cardinality(S) \in Nat
           /\ InOrder(S) \in [1..Cardinality(S) -> S]
           /\ \A m, n \in 1..Cardinality(S) : m < n => InOrder(S)[m] < InOrder(S)[n]
           /\ \A x \in S : \E n \in 1..Cardinality(S) : InOrder(S)[n] = x
<1> DEFINE below(x) == {y \in S : y < x}
           rank == [x \in S |-> Cardinality(below(x))]
           size == Cardinality(S)
<1>1. size \in Nat
      BY FS_CardinalityType
<1>2. ASSUME NEW x \in S
      PROVE  /\ IsFiniteSet(below(x)) /\ Cardinality(below(x)) \in 0..size - 1
             /\ \A z \in S : x < z => Cardinality(below(x)) < Cardinality(below(z))
  <2>1. ASSUME NEW z \in S PROVE IsFiniteSet(below(z)) /\ Cardinality(below(z)) \in Nat
    <3>1. below(z) \in SUBSET S
          OBVIOUS
    <3> HIDE DEF below
    <3> QED BY <3>1, FS_Subset, FS_CardinalityType
  <2>2. x \notin below(x)
        OBVIOUS
  <2>3. IsFiniteSet(below(x) \cup {x}) /\ Cardinality(below(x) \cup {x}) = Cardinality(below(x)) + 1
    <3> HIDE DEF below
    <3> QED BY <2>1, <2>2, FS_AddElement
  <2>4. below(x) \cup {x} \in SUBSET S
        OBVIOUS
  <2>5. Cardinality(below(x) \cup {x}) <= size
    <3> HIDE DEF below
    <3> QED BY <2>4, FS_Subset
  <2>6. ASSUME NEW z \in S, x < z PROVE Cardinality(below(x)) < Cardinality(below(z))
    <3>1. below(x) \cup {x} \in SUBSET below(z)
      <4>1. ASSUME NEW y \in below(x) \cup {x} PROVE y \in S /\ y < z
        <5>1. x \in Nat /\ z \in Nat /\ y \in Nat
              OBVIOUS
        <5> QED BY <2>6, <5>1
      <4> QED BY <4>1
    <3>2. Cardinality(below(x) \cup {x}) <= Cardinality(below(z))
      <4> HIDE DEF below
      <4> QED BY <2>1, <3>1, FS_Subset
    <3> HIDE DEF below
    <3> QED BY <2>1, <2>3, <3>2
  <2> HIDE DEF below
  <2> QED BY <1>1, <2>1, <2>3, <2>5, <2>6
<1>3. rank \in [S -> 0..size - 1]
  <2> HIDE DEF below
  <2> QED BY <1>2
<1>4. \A x, z \in S : x # z => rank[x] # rank[z]
  <2> HIDE DEF below
  <2>1. ASSUME NEW x \in S, NEW z \in S, x # z PROVE rank[x] # rank[z]
    <3>1. x < z \/ z < x
          BY <2>1
    <3>2. rank[x] = Cardinality(below(x)) /\ rank[z] = Cardinality(below(z))
          OBVIOUS
    <3>3. Cardinality(below(x)) \in Nat /\ Cardinality(below(z)) \in Nat
          BY <1>2
    <3> QED BY <1>2, <3>1, <3>2, <3>3
  <2> QED BY <2>1
<1>5. \A r \in 0..size - 1 : \E x \in S : rank[x] = r
  <2>1. IsFiniteSet(0..size - 1) /\ Cardinality(0..size - 1) = size
    <3> HIDE DEF rank, below, size
    <3>1. 0 \in Int /\ size - 1 \in Int
          BY <1>1
    <3> QED BY <1>1, <3>1, FS_Interval
  <2>2. rank \in Injection(S, 0..size - 1)
    <3> HIDE DEF rank
    <3> QED BY <1>3, <1>4 DEF Injection, IsInjective
  <2>3. rank \in Surjection(S, 0..size - 1)
    <3> HIDE DEF rank
    <3> QED BY <2>1, <2>2, FS_Injection
  <2> HIDE DEF rank
  <2> QED BY <2>3 DEF Surjection
<1>6. ASSUME NEW n \in 1..size
      PROVE  InOrder(S)[n] \in S /\ rank[InOrder(S)[n]] = n - 1
  <2>1. n - 1 \in 0..size - 1
        BY <1>1
  <2>2. \E x \in S : Cardinality({y \in S : y < x}) = n - 1
        BY <1>5, <2>1
  <2>3. InOrder(S)[n] = CHOOSE x \in S : Cardinality({y \in S : y < x}) = n - 1
        BY DEF InOrder
  <2>4. InOrder(S)[n] \in S /\ Cardinality({y \in S : y < InOrder(S)[n]}) = n - 1
        BY <2>2, <2>3
  <2> QED BY <2>4
<1>7. InOrder(S) = [n \in 1..size |-> InOrder(S)[n]]
      BY DEF InOrder
<1>8. \A m, n \in 1..size : m < n => InOrder(S)[m] < InOrder(S)[n]
  <2> SUFFICES ASSUME NEW m \in 1..size, NEW n \in 1..size, m < n
               PROVE  InOrder(S)[m] < InOrder(S)[n]
      OBVIOUS
  <2> DEFINE x == InOrder(S)[m]
             z == InOrder(S)[n]
  <2>1. x \in S /\ z \in S /\ rank[x] = m - 1 /\ rank[z] = n - 1
        BY <1>6
  <2> HIDE DEF x, z
  <2>2. rank[x] = Cardinality(below(x)) /\ rank[z] = Cardinality(below(z))
        BY <2>1
  <2> HIDE DEF rank, below
  <2>3. z < x => Cardinality(below(z)) < Cardinality(below(x))
        BY <1>2, <2>1
  <2>4. x # z
        BY <2>1
  <2>5. ~ (z < x)
        BY <2>1, <2>2, <2>3
  <2>6. x < z
        BY <2>1, <2>4, <2>5
  <2> QED BY <2>6 DEF x, z
<1>9. ASSUME NEW x \in S PROVE \E n \in 1..size : InOrder(S)[n] = x
  <2>1. rank[x] \in 0..size - 1
        BY <1>3
  <2> HIDE DEF rank, size
  <2>2. rank[x] + 1 \in 1..size
        BY <1>1, <2>1
  <2>3. InOrder(S)[rank[x] + 1] \in S /\ rank[InOrder(S)[rank[x] + 1]] = rank[x]
        BY <1>6, <2>1, <2>2
  <2>4. InOrder(S)[rank[x] + 1] = x
        BY <1>4, <2>3
  <2> QED BY <2>2, <2>4
<1>10. InOrder(S) \in [1..size -> S]
  <2> HIDE DEF rank, size
  <2> QED BY <1>6, <1>7
<1> HIDE DEF rank
<1> QED BY <1>1, <1>8, <1>9, <1>10

-----------------------------------------------------------------------------
(* Pages and their trees *)

Tags == BlockTags \cup ContainerTags \cup ItemTags \cup DroppedTags
            \cup {"div", "span", "a", "tr", "td", "th", "thead", "caption", "dropped"}
Elements == [tag : Tags, depth : Nat, text : BOOLEAN]

ChildSet(pg, i) ==
    {j \in IF i = 0 THEN DOMAIN pg ELSE Below(pg, i) :
        pg[j].depth = (IF i = 0 THEN 0 ELSE pg[i].depth) + 1}

(* The children of an element are after it, in order, and none is left out.  *)
LEMMA ChildrenFacts ==
    ASSUME NEW pg \in Seq(Elements), NEW i \in 0..Len(pg)
    PROVE  /\ Children(pg, i) = InOrder(ChildSet(pg, i))
           /\ ChildSet(pg, i) \in SUBSET (i + 1..Len(pg))
           /\ Cardinality(ChildSet(pg, i)) \in Nat
           /\ Children(pg, i) \in [1..Cardinality(ChildSet(pg, i)) -> ChildSet(pg, i)]
           /\ \A n \in DOMAIN Children(pg, i) : Children(pg, i)[n] \in i + 1..Len(pg)
           /\ \A m, n \in DOMAIN Children(pg, i) : m < n => Children(pg, i)[m] < Children(pg, i)[n]
           /\ \A k \in ChildSet(pg, i) : \E n \in DOMAIN Children(pg, i) : Children(pg, i)[n] = k
<1>1. Children(pg, i) = InOrder(ChildSet(pg, i))
      BY DEF Children, ChildSet
<1>2. ChildSet(pg, i) \in SUBSET (i + 1..Len(pg))
      BY DEF ChildSet, Below
<1> DEFINE S == ChildSet(pg, i)
<1>3. S \in SUBSET Nat /\ IsFiniteSet(S)
  <2>1. IsFiniteSet(i + 1..Len(pg))
        BY FS_Interval
  <2> HIDE DEF S
  <2> QED BY <1>2, <2>1, FS_Subset DEF S
<1> HIDE DEF S
<1>4. /\ Cardinality(S) \in Nat
      /\ InOrder(S) \in [1..Cardinality(S) -> S]
      /\ \A m, n \in 1..Cardinality(S) : m < n => InOrder(S)[m] < InOrder(S)[n]
      /\ \A x \in S : \E n \in 1..Cardinality(S) : InOrder(S)[n] = x
      BY <1>3, InOrderFacts
<1>5. DOMAIN InOrder(S) = 1..Cardinality(S)
      BY <1>4
<1> QED BY <1>1, <1>2, <1>4, <1>5 DEF S

-----------------------------------------------------------------------------
(* Text *)

Pairs == Nat \X Nat

LEMMA OwnWordType ==
    ASSUME NEW pg \in Seq(Elements), NEW i \in 1..Len(pg), NEW k \in Nat
    PROVE  OwnWord(pg, i, k) \in Seq(Pairs)
<1>1. Word(i, k) \in Pairs
      BY DEF Word, Pairs
<1>2. <<Word(i, k)>> \in Seq(Pairs) /\ <<>> \in Seq(Pairs)
      BY <1>1
<1> QED BY <1>2 DEF OwnWord

(* The text of an element looks only at the texts of those after it, ...     *)
LEMMA TextCongruence ==
    ASSUME NEW pg \in Seq(Elements), NEW i \in 1..Len(pg), NEW f, NEW g,
           \A j \in i + 1..Len(pg) : f[j] = g[j]
    PROVE  TextFrom(f, pg, i) = TextFrom(g, pg, i)
<1>1. ASSUME NEW n \in DOMAIN Children(pg, i) PROVE f[Children(pg, i)[n]] = g[Children(pg, i)[n]]
  <2>1. Children(pg, i)[n] \in i + 1..Len(pg)
    <3>1. i \in 0..Len(pg)
          OBVIOUS
    <3> QED BY <3>1, ChildrenFacts
  <2> QED BY <2>1
<1>2. [n \in DOMAIN Children(pg, i) |-> f[Children(pg, i)[n]] \o OwnWord(pg, i, Children(pg, i)[n])]
    = [n \in DOMAIN Children(pg, i) |-> g[Children(pg, i)[n]] \o OwnWord(pg, i, Children(pg, i)[n])]
      BY <1>1
<1> QED BY <1>2 DEF TextFrom

(* The text of an element is made of those of its children.                  *)
LEMMA TextExists ==
    ASSUME NEW pg \in Seq(Elements)
    PROVE  \E t : t = [j \in DOMAIN pg |-> TextFrom(t, pg, j)]
<1> DEFINE n == Len(pg)
           G == {k \in 0..n + 1 : \E g : g = [j \in k..n |-> TextFrom(g, pg, j)]}
<1>0. n \in Nat /\ DOMAIN pg = 1..n
      OBVIOUS
<1>1. ASSUME NEW k \in 1..n, k + 1 \in G PROVE k \in G
  <2>1. PICK g : g = [j \in k + 1..n |-> TextFrom(g, pg, j)]
        BY <1>1
  <2> DEFINE h == [j \in k..n |-> IF j = k THEN TextFrom(g, pg, k) ELSE g[j]]
  <2>2. \A j \in k + 1..n : h[j] = g[j]
        OBVIOUS
  <2>3. ASSUME NEW j \in k..n PROVE h[j] = TextFrom(h, pg, j)
    <3>1. \A m \in j + 1..Len(pg) : h[m] = g[m]
          BY <2>2
    <3>2. j \in 1..Len(pg)
          OBVIOUS
    <3>3. TextFrom(h, pg, j) = TextFrom(g, pg, j)
      <4> HIDE DEF h
      <4> QED BY <3>1, <3>2, TextCongruence
    <3>4. CASE j = k
          BY <3>3, <3>4
    <3>5. CASE j # k
      <4>1. j \in k + 1..n
            BY <3>5
      <4>2. h[j] = g[j] /\ g[j] = TextFrom(g, pg, j)
            BY <2>1, <3>5, <4>1
      <4> QED BY <3>3, <4>2
    <3> QED BY <3>4, <3>5
  <2>4. h = [j \in k..n |-> TextFrom(h, pg, j)]
        BY <2>3
  <2> HIDE DEF h
  <2>5. k \in 0..n + 1
        BY <1>0
  <2> QED BY <2>4, <2>5
<1>2. n + 1 \in G
  <2> DEFINE e == [j \in n + 1..n |-> <<>>]
  <2>1. e = [j \in n + 1..n |-> TextFrom(e, pg, j)]
        BY <1>0
  <2> HIDE DEF e
  <2>2. n + 1 \in 0..n + 1
        BY <1>0
  <2> QED BY <2>1, <2>2
<1>3. \A i \in 0..n : i \in {k \in 0..n : k = 0 \/ k \in G}
  <2> DEFINE H == {k \in 0..n : k = 0 \/ k \in G}
  <2>1. ASSUME NEW i \in 0..n, \A j \in i + 1..n : j \in H PROVE i \in H
    <3> HIDE DEF G
    <3>1. CASE i = 0
          BY <3>1
    <3>2. CASE i = n /\ i # 0
          BY <1>0, <1>1, <1>2, <3>2
    <3>3. CASE i # n /\ i # 0
      <4>1. i + 1 \in i + 1..n /\ i \in 1..n
        <5> HIDE DEF n, H
        <5> QED BY <1>0, <3>3
      <4>2. i + 1 \in G
            BY <2>1, <4>1, <1>0
      <4> QED BY <1>1, <4>1, <4>2
    <3> QED BY <3>1, <3>2, <3>3
  <2> HIDE DEF H, G
  <2>2. \A i \in 0..n : i \in H
        BY <1>0, <2>1, DownInduction
  <2> QED BY <2>2 DEF H
<1>4. 1 \in G
  <2> HIDE DEF G
  <2>1. CASE n = 0
        BY <1>2, <2>1
  <2>2. CASE n # 0
    <3>1. 1 \in 0..n
          BY <1>0, <2>2
    <3> QED BY <1>3, <3>1
  <2> QED BY <2>1, <2>2
<1> QED BY <1>0, <1>4

(* ... so that it can be taken for the equation that defines it.             *)
LEMMA TextSteps ==
    ASSUME NEW pg \in Seq(Elements), NEW i \in 1..Len(pg)
    PROVE  TextOf(pg, i) =
             IF pg[i].tag = "dropped" THEN <<Space>>
             ELSE OwnWord(pg, i, i) \o
                  FlattenSeq([n \in DOMAIN Children(pg, i) |->
                     TextOf(pg, Children(pg, i)[n]) \o OwnWord(pg, i, Children(pg, i)[n])])
<1> DEFINE t == CHOOSE g : g = [j \in DOMAIN pg |-> TextFrom(g, pg, j)]
<1>1. t = [j \in DOMAIN pg |-> TextFrom(t, pg, j)]
      BY TextExists
<1>2. \A j : TextOf(pg, j) = t[j]
      BY DEF TextOf
<1> HIDE DEF t
<1>3. TextOf(pg, i) = TextFrom(t, pg, i)
  <2>1. i \in DOMAIN pg
        OBVIOUS
  <2> QED BY <1>1, <1>2, <2>1
<1>4. [n \in DOMAIN Children(pg, i) |-> t[Children(pg, i)[n]] \o OwnWord(pg, i, Children(pg, i)[n])]
    = [n \in DOMAIN Children(pg, i) |->
          TextOf(pg, Children(pg, i)[n]) \o OwnWord(pg, i, Children(pg, i)[n])]
      BY <1>2
<1> QED BY <1>3, <1>4 DEF TextFrom

(* Picking from a sequence keeps its order, and all that was picked.         *)
LEMMA PickedFacts ==
    ASSUME NEW X, NEW s \in Seq(X), NEW P \in SUBSET DOMAIN s
    PROVE  /\ Cardinality(P) \in Nat
           /\ InOrder(P) \in [1..Cardinality(P) -> P]
           /\ \A m, n \in 1..Cardinality(P) : m < n => InOrder(P)[m] < InOrder(P)[n]
           /\ \A x \in P : \E n \in 1..Cardinality(P) : InOrder(P)[n] = x
           /\ Picked(s, P) \in Seq(X) /\ Len(Picked(s, P)) = Cardinality(P)
           /\ \A n \in 1..Cardinality(P) : Picked(s, P)[n] = s[InOrder(P)[n]]
<1>1. P \in SUBSET Nat /\ IsFiniteSet(P)
  <2>1. IsFiniteSet(1..Len(s)) /\ DOMAIN s = 1..Len(s)
        BY FS_Interval
  <2>2. P \in SUBSET (1..Len(s))
        BY <2>1
  <2> QED BY <2>1, <2>2, FS_Subset
<1>2. /\ Cardinality(P) \in Nat
      /\ InOrder(P) \in [1..Cardinality(P) -> P]
      /\ \A m, n \in 1..Cardinality(P) : m < n => InOrder(P)[m] < InOrder(P)[n]
      /\ \A x \in P : \E n \in 1..Cardinality(P) : InOrder(P)[n] = x
      BY <1>1, InOrderFacts
<1>3. \A n \in 1..Cardinality(P) : Picked(s, P)[n] = s[InOrder(P)[n]]
      BY DEF Picked
<1>4. \A n \in 1..Cardinality(P) : Picked(s, P)[n] \in X
  <2>1. ASSUME NEW n \in 1..Cardinality(P) PROVE s[InOrder(P)[n]] \in X
    <3>1. InOrder(P)[n] \in P
          BY <1>2
    <3>2. InOrder(P)[n] \in 1..Len(s)
          BY <3>1
    <3> QED BY <3>2
  <2> QED BY <1>3, <2>1
<1>5. Picked(s, P) \in [1..Cardinality(P) -> X]
  <2>1. Picked(s, P) = [n \in 1..Cardinality(P) |-> Picked(s, P)[n]]
        BY DEF Picked
  <2> QED BY <1>4, <2>1
<1>6. Picked(s, P) \in Seq(X) /\ Len(Picked(s, P)) = Cardinality(P)
      BY <1>2, <1>5
<1> QED BY <1>2, <1>3, <1>6

(* Texts are sequences of words.                                             *)
LEMMA TextType ==
    ASSUME NEW pg \in Seq(Elements)
    PROVE  \A i \in 1..Len(pg) : TextOf(pg, i) \in Seq(Pairs)
<1> DEFINE n == Len(pg)
           G == {i \in 0..n : i = 0 \/ TextOf(pg, i) \in Seq(Pairs)}
<1>1. ASSUME NEW i \in 1..n, \A j \in i + 1..n : TextOf(pg, j) \in Seq(Pairs)
      PROVE  TextOf(pg, i) \in Seq(Pairs)
  <2>1. CASE pg[i].tag = "dropped"
    <3>1. TextOf(pg, i) = <<Space>>
          BY <2>1, TextSteps
    <3>2. Space \in Pairs
          BY DEF Space, Pairs
    <3> QED BY <3>1, <3>2
  <2>2. CASE pg[i].tag # "dropped"
    <3> DEFINE c == Cardinality(ChildSet(pg, i))
               parts == [m \in DOMAIN Children(pg, i) |->
                           TextOf(pg, Children(pg, i)[m]) \o OwnWord(pg, i, Children(pg, i)[m])]
    <3>1. /\ c \in Nat /\ DOMAIN Children(pg, i) = 1..c
          /\ \A m \in 1..c : Children(pg, i)[m] \in i + 1..n
      <4>1. i \in 0..Len(pg)
            OBVIOUS
      <4> QED BY <4>1, ChildrenFacts
    <3>2. ASSUME NEW m \in 1..c PROVE parts[m] \in Seq(Pairs)
      <4>1. Children(pg, i)[m] \in i + 1..n /\ Children(pg, i)[m] \in Nat
            BY <3>1
      <4>2. TextOf(pg, Children(pg, i)[m]) \in Seq(Pairs)
            BY <1>1, <4>1
      <4>3. OwnWord(pg, i, Children(pg, i)[m]) \in Seq(Pairs)
            BY <4>1, OwnWordType
      <4>4. TextOf(pg, Children(pg, i)[m]) \o OwnWord(pg, i, Children(pg, i)[m]) \in Seq(Pairs)
            BY <4>2, <4>3
      <4> QED BY <3>1, <4>4
    <3>3. parts \in [1..c -> Seq(Pairs)]
          BY <3>1, <3>2
    <3>4. TextOf(pg, i) = OwnWord(pg, i, i) \o FlattenSeq(parts)
          BY <2>2, TextSteps
    <3>5. FlattenSeq(parts) \in Seq(Pairs)
      <4> HIDE DEF parts, c
      <4>1. <<>> \in Seq(Pairs) /\ \A s, t \in Seq(Pairs) : s \o t \in Seq(Pairs)
            OBVIOUS
      <4> QED BY <3>1, <3>3, <4>1, FlattenClosed
    <3>6. OwnWord(pg, i, i) \in Seq(Pairs)
          BY OwnWordType
    <3> HIDE DEF parts
    <3> QED BY <3>4, <3>5, <3>6
  <2> QED BY <2>1, <2>2
<1>2. ASSUME NEW i \in 0..n, \A j \in i + 1..n : j \in G PROVE i \in G
      BY <1>1, <1>2
<1>3. n \in Nat
      OBVIOUS
<1>4. \A i \in 0..n : i \in G
  <2> HIDE DEF G, n
  <2> QED BY <1>2, <1>3, DownInduction
<1> QED BY <1>4

-----------------------------------------------------------------------------
(* Blocks *)

Cells  == [text : Seq(Pairs), header : BOOLEAN]
Tables == [caption : Seq(Pairs), headers : Seq(Seq(Cells)), rows : Seq(Seq(Cells))]
Kinds  == {"heading", "paragraph", "preformatted", "quote", "list", "table"}
Places == Containers \cup {"noscript"}
Blocks == [kind : Kinds, node : Nat, text : Seq(Pairs), items : Seq(Seq(Pairs)), level : 0..3,
           container : Places, chrome : BOOLEAN, table : Tables]

LEMMA OfTagsType ==
    ASSUME NEW pg \in Seq(Elements), NEW nodes \in Seq(1..Len(pg)), NEW tags
    PROVE  OfTags(pg, nodes, tags) \in Seq(1..Len(pg))
<1>1. {n \in DOMAIN nodes : pg[nodes[n]].tag \in tags} \in SUBSET DOMAIN nodes
      OBVIOUS
<1> QED BY <1>1, PickedFacts DEF OfTags

LEMMA ChildrenType ==
    ASSUME NEW pg \in Seq(Elements), NEW i \in 0..Len(pg)
    PROVE  Children(pg, i) \in Seq(1..Len(pg))
<1> DEFINE c == Cardinality(ChildSet(pg, i))
<1>1. c \in Nat /\ Children(pg, i) \in [1..c -> ChildSet(pg, i)]
      BY ChildrenFacts
<1>2. ChildSet(pg, i) \in SUBSET (1..Len(pg))
  <2>1. ChildSet(pg, i) \in SUBSET (i + 1..Len(pg))
        BY ChildrenFacts
  <2> QED BY <2>1
<1> HIDE DEF c
<1>3. Children(pg, i) \in [1..c -> 1..Len(pg)]
      BY <1>1, <1>2
<1> QED BY <1>1, <1>3

LEMMA ItemsOfType ==
    ASSUME NEW pg \in Seq(Elements), NEW nodes \in Seq(1..Len(pg))
    PROVE  ItemsOf(pg, nodes) \in Seq(Seq(Pairs))
<1> DEFINE texts == [n \in DOMAIN nodes |-> TextOf(pg, nodes[n])]
           P == {n \in DOMAIN nodes : ~Blank(TextOf(pg, nodes[n]))}
<1>1. texts \in [1..Len(nodes) -> Seq(Pairs)]
      BY TextType
<1>2. texts \in Seq(Seq(Pairs)) /\ DOMAIN texts = DOMAIN nodes
      BY <1>1
<1>3. P \in SUBSET DOMAIN texts
      BY <1>2
<1> HIDE DEF texts, P
<1>4. Picked(texts, P) \in Seq(Seq(Pairs))
      BY <1>2, <1>3, PickedFacts
<1> QED BY <1>4 DEF ItemsOf, texts, P

LEMMA ListItemsType ==
    ASSUME NEW pg \in Seq(Elements), NEW i \in 1..Len(pg)
    PROVE  ListItems(pg, i) \in Seq(1..Len(pg))
<1>1. i \in 0..Len(pg)
      OBVIOUS
<1>2. Children(pg, i) \in Seq(1..Len(pg))
      BY <1>1, ChildrenType
<1>3. \A tags : OfTags(pg, Children(pg, i), tags) \in Seq(1..Len(pg))
      BY <1>2, OfTagsType
<1>4. OfTags(pg, Children(pg, i), {"dt"}) \o OfTags(pg, Children(pg, i), {"dd"}) \in Seq(1..Len(pg))
      BY <1>3
<1> QED BY <1>3, <1>4 DEF ListItems

LEMMA RowCellsType ==
    ASSUME NEW pg \in Seq(Elements), NEW i \in 1..Len(pg)
    PROVE  RowCells(pg, i) \in Seq(Cells)
<1> DEFINE cells == OfTags(pg, Children(pg, i), {"td", "th"})
<1>1. cells \in Seq(1..Len(pg))
  <2>1. i \in 0..Len(pg)
        OBVIOUS
  <2> QED BY <2>1, ChildrenType, OfTagsType
<1> HIDE DEF cells
<1>2. ASSUME NEW n \in 1..Len(cells)
      PROVE  [text |-> TextOf(pg, cells[n]), header |-> pg[cells[n]].tag = "th"] \in Cells
  <2>1. cells[n] \in 1..Len(pg)
        BY <1>1
  <2>2. TextOf(pg, cells[n]) \in Seq(Pairs)
        BY <2>1, TextType
  <2> QED BY <2>2 DEF Cells
<1>3. [n \in DOMAIN cells |-> [text |-> TextOf(pg, cells[n]), header |-> pg[cells[n]].tag = "th"]]
        \in [1..Len(cells) -> Cells]
      BY <1>1, <1>2
<1>4. Len(cells) \in Nat
      BY <1>1
<1>5. RowCells(pg, i) \in [1..Len(cells) -> Cells]
      BY <1>3 DEF RowCells, cells
<1> QED BY <1>4, <1>5

(* The least of some numbers is one of them.                                 *)
LEMMA TableType ==
    ASSUME NEW pg \in Seq(Elements), NEW i \in 1..Len(pg)
    PROVE  TableOf(pg, i) \in Tables
<1> DEFINE trs == {j \in Below(pg, i) : pg[j].tag = "tr" /\ RowCells(pg, j) # <<>>}
           all == InOrder(trs)
           captions == {j \in Below(pg, i) : pg[j].tag = "caption"}
           inHead(r) == \E j \in Above(pg, r) : pg[j].tag = "thead"
           plain(r)  == ~inHead(r) /\ \E c \in ToSet(RowCells(pg, r)) : ~c.header
           isHeader(n) == inHead(all[n]) \/ (n = 1 /\ ~plain(all[n]))
           cells == [n \in DOMAIN all |-> RowCells(pg, all[n])]
           heads == {n \in DOMAIN all : isHeader(n)}
           rest  == {n \in DOMAIN all : ~isHeader(n)}
<1>1. Below(pg, i) \in SUBSET (i + 1..Len(pg))
      BY DEF Below
<1>2. Cardinality(trs) \in Nat /\ all \in [1..Cardinality(trs) -> trs]
  <2>1. trs \in SUBSET (i + 1..Len(pg))
        BY <1>1
  <2>2. IsFiniteSet(i + 1..Len(pg))
        BY FS_Interval
  <2> HIDE DEF trs
  <2>3. IsFiniteSet(trs)
        BY <2>1, <2>2, FS_Subset
  <2>4. trs \in SUBSET Nat
        BY <2>1
  <2> QED BY <2>3, <2>4, InOrderFacts
<1>3. ASSUME NEW n \in DOMAIN all PROVE RowCells(pg, all[n]) \in Seq(Cells)
  <2>1. all[n] \in 1..Len(pg)
        BY <1>1, <1>2
  <2> QED BY <2>1, RowCellsType
<1>4. cells \in Seq(Seq(Cells)) /\ DOMAIN cells = DOMAIN all
  <2>1. cells \in [1..Cardinality(trs) -> Seq(Cells)]
    <3> HIDE DEF all, trs
    <3> QED BY <1>2, <1>3
  <2> HIDE DEF all, trs
  <2> QED BY <1>2, <2>1
<1>5. Picked(cells, heads) \in Seq(Seq(Cells)) /\ Picked(cells, rest) \in Seq(Seq(Cells))
  <2>1. heads \in SUBSET DOMAIN cells /\ rest \in SUBSET DOMAIN cells
        BY <1>4
  <2> HIDE DEF heads, rest, cells
  <2> QED BY <1>4, <2>1, PickedFacts
<1>6. (IF captions = {} THEN <<>> ELSE TextOf(pg, Min(captions))) \in Seq(Pairs)
  <2>1. CASE captions = {}
        BY <2>1
  <2>2. CASE captions # {}
    <3>1. captions \in SUBSET (i + 1..Len(pg))
          BY <1>1
    <3>2. Min(captions) \in captions
      <4> HIDE DEF captions
      <4>1. captions \in SUBSET Nat
            BY <3>1
      <4> QED BY <2>2, <4>1, MinFacts
    <3>3. Min(captions) \in 1..Len(pg)
      <4>1. Min(captions) \in i + 1..Len(pg)
        <5> HIDE DEF captions
        <5> QED BY <3>1, <3>2
      <4> QED BY <4>1
    <3> HIDE DEF captions
    <3> QED BY <2>2, <3>3, TextType
  <2> QED BY <2>1, <2>2
<1>7. TableOf(pg, i) = [caption |-> IF captions = {} THEN <<>> ELSE TextOf(pg, Min(captions)),
                        headers |-> Picked(cells, heads), rows |-> Picked(cells, rest)]
      BY DEF TableOf
<1> HIDE DEF captions, heads, rest, cells
<1> QED BY <1>5, <1>6, <1>7 DEF Tables


LEMMA BlockDefault ==
    ASSUME NEW kind \in Kinds, NEW i \in Nat, NEW c \in Places, NEW f \in BOOLEAN
    PROVE  Block(kind, i, c, f) \in Blocks
<1>1. NoTable \in Tables
      BY DEF NoTable, Tables
<1>2. <<>> \in Seq(Pairs) /\ <<>> \in Seq(Seq(Pairs)) /\ 0 \in 0..3
      OBVIOUS
<1> QED BY <1>1, <1>2 DEF Block, Blocks

(* What a block says, by the tag of the element it is of.                    *)
Lists == {"ul", "ol", "dl"}

Made(pg, b) ==
    /\ pg[b.node].tag \in HeadingTags <=> b.kind = "heading"
    /\ pg[b.node].tag \in HeadingTags => b.level = Level[pg[b.node].tag]
    /\ pg[b.node].tag \in Lists =>
          /\ b.kind = "list" /\ b.text = <<>> /\ b.table = NoTable
          /\ b.items = ItemsOf(pg, ListItems(pg, b.node))
    /\ pg[b.node].tag = "table" =>
          /\ b.kind = "table" /\ b.items = <<>>
          /\ b.table = TableOf(pg, b.node) /\ b.text = TableOf(pg, b.node).caption
    /\ pg[b.node].tag \in BlockTags \ (Lists \cup {"table"}) =>
          /\ b.kind \notin {"list", "table"} /\ b.items = <<>> /\ b.table = NoTable
          /\ b.text = TextOf(pg, b.node) /\ ~Blank(b.text)
    /\ pg[b.node].tag \notin BlockTags =>
          /\ b.kind = "paragraph" /\ b.items = <<>> /\ b.table = NoTable
          /\ b.text = BareText(pg, b.node) /\ pg[b.node].text

(* An element that has something to say in a block of its own.               *)
Speaks(pg, k) ==
    /\ pg[k].tag \in Lists => ItemsOf(pg, ListItems(pg, k)) # <<>>
    /\ pg[k].tag = "table" => TableOf(pg, k).rows # <<>> \/ TableOf(pg, k).headers # <<>>
    /\ pg[k].tag \in BlockTags \ (Lists \cup {"table"}) => ~Blank(TextOf(pg, k))
    /\ pg[k].tag \notin BlockTags => pg[k].text

(* Where it is said to be.                                                   *)
Placed(b, pg, k, c, f) ==
    /\ b.node = k /\ b.chrome = f
    /\ b.container = IF pg[k].tag = "noscript" THEN "noscript" ELSE c
    /\ Made(pg, b)

(* Each kind of block has the parts of its kind, or there is none to make.   *)
LEMMA TextBlockFacts ==
    ASSUME NEW pg \in Seq(Elements), NEW k \in 1..Len(pg), NEW c \in Places, NEW f \in BOOLEAN,
           pg[k].tag \notin {"ul", "ol", "dl", "table"}
    PROVE  \/ TextBlock(pg, k, c, f) = <<>> /\ Blank(TextOf(pg, k))
           \/ \E b \in Blocks : /\ TextBlock(pg, k, c, f) = <<b>>
                                /\ b.node = k /\ b.chrome = f /\ b.container = c
                                /\ b.kind \notin {"list", "table"}
                                /\ pg[k].tag \in HeadingTags <=> b.kind = "heading"
                                /\ pg[k].tag \in HeadingTags => b.level = Level[pg[k].tag]
                                /\ b.text = TextOf(pg, k) /\ ~Blank(b.text)
                                /\ b.items = <<>> /\ b.table = NoTable
<1> DEFINE tag == pg[k].tag
           kind == CASE tag \in HeadingTags   -> "heading"
                     [] tag = "pre"           -> "preformatted"
                     [] tag = "blockquote"    -> "quote"
                     [] OTHER                 -> "paragraph"
           level == IF tag \in HeadingTags THEN Level[tag] ELSE 0
           b == [Block(kind, k, c, f) EXCEPT !.text = TextOf(pg, k), !.level = level]
<1>1. HeadingTags = {"h1", "h2", "h3"}
      BY DEF HeadingTags, Level
<1>2. /\ kind \in Kinds \ {"list", "table"}
      /\ kind = "heading" <=> tag \in HeadingTags
  <2>1. tag \in HeadingTags => tag # "pre" /\ tag # "blockquote"
        BY <1>1
  <2>2. CASE tag \in HeadingTags
    <3>1. kind = "heading"
          BY <2>1, <2>2
    <3> HIDE DEF kind
    <3> QED BY <2>2, <3>1 DEF Kinds
  <2>3. CASE tag = "pre"
    <3>1. kind = "preformatted"
          BY <2>1, <2>3
    <3> HIDE DEF kind
    <3> QED BY <2>1, <2>3, <3>1 DEF Kinds
  <2>4. CASE tag = "blockquote"
    <3>1. kind = "quote"
          BY <2>1, <2>4
    <3> HIDE DEF kind
    <3> QED BY <2>1, <2>4, <3>1 DEF Kinds
  <2>5. CASE tag \notin HeadingTags /\ tag # "pre" /\ tag # "blockquote"
    <3>1. kind = "paragraph"
          BY <2>5
    <3> HIDE DEF kind
    <3> QED BY <2>5, <3>1 DEF Kinds
  <2> QED BY <2>2, <2>3, <2>4, <2>5
<1>3. level \in 0..3
      BY <1>1 DEF Level
<1>4. TextOf(pg, k) \in Seq(Pairs)
      BY TextType
<1>5. CASE Blank(TextOf(pg, k))
      BY <1>5 DEF TextBlock
<1>6. CASE ~Blank(TextOf(pg, k))
  <2>1. TextBlock(pg, k, c, f) = <<b>>
        BY <1>6 DEF TextBlock
  <2> HIDE DEF kind, level
  <2>2. Block(kind, k, c, f) \in Blocks
        BY <1>2, BlockDefault
  <2>3. b \in Blocks /\ b.text = TextOf(pg, k) /\ b.level = level
        BY <1>3, <1>4, <2>2 DEF Blocks
  <2>4. /\ b.node = k /\ b.chrome = f /\ b.container = c /\ b.kind = kind
        /\ b.items = <<>> /\ b.table = NoTable
        BY <2>2 DEF Blocks, Block
  <2>5. tag \in HeadingTags => level = Level[tag]
        BY DEF level
  <2> HIDE DEF b
  <2> QED BY <1>2, <1>6, <2>1, <2>3, <2>4, <2>5
<1> QED BY <1>5, <1>6

LEMMA ListBlockFacts ==
    ASSUME NEW pg \in Seq(Elements), NEW k \in 1..Len(pg), NEW c \in Places, NEW f \in BOOLEAN
    PROVE  \/ ListBlock(pg, k, c, f) = <<>> /\ ItemsOf(pg, ListItems(pg, k)) = <<>>
           \/ \E b \in Blocks : /\ ListBlock(pg, k, c, f) = <<b>>
                                /\ b.node = k /\ b.chrome = f /\ b.container = c
                                /\ b.kind = "list" /\ b.text = <<>> /\ b.table = NoTable
                                /\ b.items = ItemsOf(pg, ListItems(pg, k)) /\ b.items # <<>>
<1> DEFINE items == ItemsOf(pg, ListItems(pg, k))
           b == [Block("list", k, c, f) EXCEPT !.items = items]
<1>1. items \in Seq(Seq(Pairs))
      BY ListItemsType, ItemsOfType
<1>2. ListBlock(pg, k, c, f) = IF items = <<>> THEN <<>> ELSE <<b>>
      BY DEF ListBlock
<1>3. Block("list", k, c, f) \in Blocks
      BY BlockDefault DEF Kinds
<1> HIDE DEF items
<1>4. b \in Blocks
      BY <1>1, <1>3 DEF Blocks
<1>5. /\ b.node = k /\ b.chrome = f /\ b.container = c /\ b.kind = "list" /\ b.text = <<>>
      /\ b.table = NoTable /\ b.items = items
      BY <1>3 DEF Blocks, Block
<1> HIDE DEF b
<1>6. CASE items = <<>>
      BY <1>2, <1>6 DEF items
<1>7. CASE items # <<>>
  <2>1. \E e \in Blocks : /\ ListBlock(pg, k, c, f) = <<e>>
                          /\ e.node = k /\ e.chrome = f /\ e.container = c
                          /\ e.kind = "list" /\ e.text = <<>> /\ e.table = NoTable
                          /\ e.items = items /\ e.items # <<>>
        BY <1>2, <1>4, <1>5, <1>7
  <2> QED BY <2>1 DEF items
<1> QED BY <1>6, <1>7

LEMMA TableBlockFacts ==
    ASSUME NEW pg \in Seq(Elements), NEW k \in 1..Len(pg), NEW c \in Places, NEW f \in BOOLEAN
    PROVE  \/ /\ TableBlock(TableOf(pg, k), k, c, f) = <<>>
              /\ TableOf(pg, k).rows = <<>> /\ TableOf(pg, k).headers = <<>>
           \/ /\ TableOf(pg, k).rows # <<>> \/ TableOf(pg, k).headers # <<>>
              /\ \E b \in Blocks : /\ TableBlock(TableOf(pg, k), k, c, f) = <<b>>
                                   /\ b.node = k /\ b.chrome = f /\ b.container = c
                                   /\ b.kind = "table" /\ b.table = TableOf(pg, k)
                                   /\ b.items = <<>> /\ b.text = TableOf(pg, k).caption
<1> DEFINE table == TableOf(pg, k)
           b == [Block("table", k, c, f) EXCEPT !.text = table.caption, !.table = table]
<1>1. table \in Tables
      BY TableType
<1>2. TableBlock(table, k, c, f) =
         IF table.rows = <<>> /\ table.headers = <<>> THEN <<>> ELSE <<b>>
      BY DEF TableBlock
<1>3. Block("table", k, c, f) \in Blocks
      BY BlockDefault DEF Kinds
<1> HIDE DEF table
<1>4. table.caption \in Seq(Pairs)
      BY <1>1 DEF Tables
<1>5. b \in Blocks
      BY <1>1, <1>3, <1>4 DEF Blocks
<1>6. /\ b.node = k /\ b.chrome = f /\ b.container = c /\ b.kind = "table" /\ b.table = table
      /\ b.items = <<>> /\ b.text = table.caption
      BY <1>3 DEF Blocks, Block
<1> HIDE DEF b
<1>7. \/ TableBlock(table, k, c, f) = <<>> /\ table.rows = <<>> /\ table.headers = <<>>
      \/ /\ table.rows # <<>> \/ table.headers # <<>>
         /\ \E e \in Blocks : /\ TableBlock(table, k, c, f) = <<e>>
                              /\ e.node = k /\ e.chrome = f /\ e.container = c
                              /\ e.kind = "table" /\ e.table = table
                              /\ e.items = <<>> /\ e.text = table.caption
      BY <1>2, <1>5, <1>6
<1> QED BY <1>7 DEF table

(* A block of an element that makes one says where the element is.           *)
LEMMA BlockFacts ==
    ASSUME NEW pg \in Seq(Elements), NEW k \in 1..Len(pg), NEW c \in Places, NEW f \in BOOLEAN,
           pg[k].tag \in BlockTags
    PROVE  \/ BlockOf(pg, k, c, f) = <<>> /\ ~Speaks(pg, k)
           \/ \E b \in Blocks : BlockOf(pg, k, c, f) = <<b>> /\ Placed(b, pg, k, c, f)
<1>0. HeadingTags = {"h1", "h2", "h3"}
      BY DEF HeadingTags, Level
<1>1. CASE pg[k].tag \in {"ul", "ol", "dl"}
  <2>1. BlockOf(pg, k, c, f) = ListBlock(pg, k, c, f)
        BY <1>1 DEF BlockOf
  <2>2. CASE ListBlock(pg, k, c, f) = <<>> /\ ItemsOf(pg, ListItems(pg, k)) = <<>>
        BY <1>1, <2>1, <2>2 DEF Speaks, Lists
  <2>3. CASE ~ (ListBlock(pg, k, c, f) = <<>> /\ ItemsOf(pg, ListItems(pg, k)) = <<>>)
    <3>1. PICK b \in Blocks : /\ ListBlock(pg, k, c, f) = <<b>>
                              /\ b.node = k /\ b.chrome = f /\ b.container = c
                              /\ b.kind = "list" /\ b.text = <<>> /\ b.table = NoTable
                              /\ b.items = ItemsOf(pg, ListItems(pg, k)) /\ b.items # <<>>
          BY <2>3, ListBlockFacts
    <3>2. Placed(b, pg, k, c, f)
          BY <1>0, <1>1, <3>1 DEF Placed, Made, Lists
    <3> QED BY <2>1, <3>1, <3>2
  <2> QED BY <2>2, <2>3
<1>2. CASE pg[k].tag = "table"
  <2>1. BlockOf(pg, k, c, f) = TableBlock(TableOf(pg, k), k, c, f)
        BY <1>2 DEF BlockOf
  <2> DEFINE none == /\ TableBlock(TableOf(pg, k), k, c, f) = <<>>
                     /\ TableOf(pg, k).rows = <<>> /\ TableOf(pg, k).headers = <<>>
  <2>2. CASE none
        BY <1>2, <2>1, <2>2 DEF Speaks
  <2>3. CASE ~none
    <3>1. PICK b \in Blocks : /\ TableBlock(TableOf(pg, k), k, c, f) = <<b>>
                              /\ b.node = k /\ b.chrome = f /\ b.container = c
                              /\ b.kind = "table" /\ b.table = TableOf(pg, k)
                              /\ b.items = <<>> /\ b.text = TableOf(pg, k).caption
          BY <2>3, TableBlockFacts
    <3>2. Placed(b, pg, k, c, f)
          BY <1>0, <1>2, <3>1 DEF Placed, Made, Lists
    <3> QED BY <2>1, <3>1, <3>2
  <2> QED BY <2>2, <2>3
<1>3. CASE pg[k].tag \notin {"ul", "ol", "dl", "table"}
  <2> DEFINE here == IF pg[k].tag = "noscript" THEN "noscript" ELSE c
  <2>1. BlockOf(pg, k, c, f) = TextBlock(pg, k, here, f) /\ here \in Places
    <3>1. CASE pg[k].tag = "noscript"
          BY <1>3, <3>1 DEF BlockOf, Places
    <3>2. CASE pg[k].tag # "noscript"
          BY <1>3, <3>2 DEF BlockOf, Places
    <3> QED BY <3>1, <3>2
  <2> HIDE DEF here
  <2>2. CASE TextBlock(pg, k, here, f) = <<>> /\ Blank(TextOf(pg, k))
        BY <1>3, <2>1, <2>2 DEF Speaks, Lists
  <2>3. CASE ~ (TextBlock(pg, k, here, f) = <<>> /\ Blank(TextOf(pg, k)))
    <3>1. PICK b \in Blocks : /\ TextBlock(pg, k, here, f) = <<b>>
                              /\ b.node = k /\ b.chrome = f /\ b.container = here
                              /\ b.kind \notin {"list", "table"}
                              /\ pg[k].tag \in HeadingTags <=> b.kind = "heading"
                              /\ pg[k].tag \in HeadingTags => b.level = Level[pg[k].tag]
                              /\ b.text = TextOf(pg, k) /\ ~Blank(b.text)
                              /\ b.items = <<>> /\ b.table = NoTable
          BY <1>3, <2>1, <2>3, TextBlockFacts
    <3>2. Made(pg, b)
          BY <1>0, <1>3, <3>1 DEF Made, Lists
    <3>3. Placed(b, pg, k, c, f)
          BY <3>1, <3>2 DEF Placed, here
    <3> QED BY <2>1, <3>1, <3>3
  <2> QED BY <2>2, <2>3
<1> QED BY <1>1, <1>2, <1>3

LEMMA BareTextType ==
    ASSUME NEW pg \in Seq(Elements), NEW i \in 0..Len(pg)
    PROVE  BareText(pg, i) \in Seq(Pairs)
<1> DEFINE s == Cardinality(ChildSet(pg, i))
           parts == [n \in DOMAIN Children(pg, i) |-> <<Space, Word(i, Children(pg, i)[n])>>]
<1>1. /\ s \in Nat /\ DOMAIN Children(pg, i) = 1..s
      /\ \A m \in 1..s : Children(pg, i)[m] \in i + 1..Len(pg)
      BY ChildrenFacts
<1>2. parts \in [1..s -> Seq(Pairs)]
  <2>1. ASSUME NEW m \in 1..s PROVE <<Space, Word(i, Children(pg, i)[m])>> \in Seq(Pairs)
    <3>1. Children(pg, i)[m] \in Nat
          BY <1>1
    <3>2. Space \in Pairs /\ Word(i, Children(pg, i)[m]) \in Pairs
          BY <3>1 DEF Space, Word, Pairs
    <3> QED BY <3>2
  <2> HIDE DEF s
  <2> QED BY <1>1, <2>1
<1>3. FlattenSeq(parts) \in Seq(Pairs)
  <2> HIDE DEF parts, s
  <2>1. <<>> \in Seq(Pairs) /\ \A x, y \in Seq(Pairs) : x \o y \in Seq(Pairs)
        OBVIOUS
  <2> QED BY <1>1, <1>2, <2>1, FlattenClosed
<1>4. <<Word(i, i)>> \in Seq(Pairs)
  <2>1. Word(i, i) \in Pairs
        BY DEF Word, Pairs
  <2> QED BY <2>1
<1>5. <<Word(i, i)>> \o FlattenSeq(parts) \in Seq(Pairs)
  <2> HIDE DEF parts
  <2> QED BY <1>3, <1>4
<1> QED BY <1>5 DEF BareText

(* The block of the bare text of an element.                                 *)
LEMMA DirectTextFacts ==
    ASSUME NEW pg \in Seq(Elements), NEW i \in 0..Len(pg), NEW c \in Places, NEW f \in BOOLEAN
    PROVE  /\ i = 0 \/ ~pg[i].text => DirectText(pg, i, c, f) = <<>>
           /\ i # 0 /\ pg[i].text =>
                 \E b \in Blocks : /\ DirectText(pg, i, c, f) = <<b>>
                                   /\ b.node = i /\ b.chrome = f /\ b.container = c
                                   /\ b.kind = "paragraph" /\ b.text = BareText(pg, i)
                                   /\ b.items = <<>> /\ b.table = NoTable
<1>1. ASSUME i = 0 \/ ~pg[i].text PROVE DirectText(pg, i, c, f) = <<>>
      BY <1>1 DEF DirectText
<1>2. ASSUME i # 0, pg[i].text
      PROVE  \E b \in Blocks : /\ DirectText(pg, i, c, f) = <<b>>
                               /\ b.node = i /\ b.chrome = f /\ b.container = c
                               /\ b.kind = "paragraph" /\ b.text = BareText(pg, i)
                               /\ b.items = <<>> /\ b.table = NoTable
  <2> DEFINE b == [Block("paragraph", i, c, f) EXCEPT !.text = BareText(pg, i)]
  <2>1. DirectText(pg, i, c, f) = <<b>>
        BY <1>2 DEF DirectText
  <2>2. Block("paragraph", i, c, f) \in Blocks
        BY BlockDefault DEF Kinds
  <2>3. b \in Blocks
        BY <2>2, BareTextType DEF Blocks
  <2>4. /\ b.node = i /\ b.chrome = f /\ b.container = c /\ b.kind = "paragraph"
        /\ b.text = BareText(pg, i) /\ b.items = <<>> /\ b.table = NoTable
        BY <2>2 DEF Blocks, Block
  <2> HIDE DEF b
  <2> QED BY <2>1, <2>3, <2>4
<1> QED BY <1>1, <1>2

-----------------------------------------------------------------------------
(* The walk *)

LEMMA HereType ==
    ASSUME NEW pg \in Seq(Elements), NEW k \in 1..Len(pg), NEW c \in Containers, NEW f \in BOOLEAN
    PROVE  Here(pg, k, c) \in Containers /\ Inside(pg, k, f) \in BOOLEAN
BY DEF Here, Inside, Containers

(* What one child adds to a walk.                                            *)
Emitted(walk, pg, k, c, f) ==
    IF pg[k].tag = "dropped" THEN <<>>
    ELSE IF pg[k].tag \in BlockTags THEN BlockOf(pg, k, Here(pg, k, c), Inside(pg, k, f))
    ELSE walk[<<k, Here(pg, k, c), Inside(pg, k, f)>>]

LEMMA WalkFromEmitted ==
    ASSUME NEW walk, NEW pg, NEW i, NEW c, NEW f
    PROVE  WalkFrom(walk, pg, i, c, f) =
              FlattenSeq([n \in DOMAIN Children(pg, i) |-> Emitted(walk, pg, Children(pg, i)[n], c, f)])
                 \o DirectText(pg, i, c, f)
BY DEF WalkFrom, Emitted

Calls(k, n) == (k..n) \X Containers \X BOOLEAN

(* A walk looks only at the walks of the elements after it, ...              *)
LEMMA WalkCongruence ==
    ASSUME NEW pg \in Seq(Elements), NEW i \in 0..Len(pg), NEW c \in Containers, NEW f \in BOOLEAN,
           NEW g, NEW h,
           \A w \in Calls(i + 1, Len(pg)) : g[w] = h[w]
    PROVE  WalkFrom(g, pg, i, c, f) = WalkFrom(h, pg, i, c, f)
<1>1. ASSUME NEW n \in DOMAIN Children(pg, i)
      PROVE  Emitted(g, pg, Children(pg, i)[n], c, f) = Emitted(h, pg, Children(pg, i)[n], c, f)
  <2> DEFINE k == Children(pg, i)[n]
  <2>1. k \in i + 1..Len(pg)
        BY ChildrenFacts
  <2> HIDE DEF k
  <2>2. k \in 1..Len(pg)
        BY <2>1
  <2>3. Here(pg, k, c) \in Containers /\ Inside(pg, k, f) \in BOOLEAN
        BY <2>2, HereType
  <2>4. g[<<k, Here(pg, k, c), Inside(pg, k, f)>>] = h[<<k, Here(pg, k, c), Inside(pg, k, f)>>]
    <3>1. <<k, Here(pg, k, c), Inside(pg, k, f)>> \in Calls(i + 1, Len(pg))
          BY <2>1, <2>3 DEF Calls
    <3> QED BY <3>1
  <2>5. Emitted(g, pg, k, c, f) = Emitted(h, pg, k, c, f)
        BY <2>4 DEF Emitted
  <2> QED BY <2>5 DEF k
<1>2. [n \in DOMAIN Children(pg, i) |-> Emitted(g, pg, Children(pg, i)[n], c, f)]
    = [n \in DOMAIN Children(pg, i) |-> Emitted(h, pg, Children(pg, i)[n], c, f)]
      BY <1>1
<1> QED BY <1>2, WalkFromEmitted

(* ... so one function is every walk of a page, ...                          *)
LEMMA WalkExists ==
    ASSUME NEW pg \in Seq(Elements)
    PROVE  \E t : t = [w \in Calls(0, Len(pg)) |-> WalkFrom(t, pg, w[1], w[2], w[3])]
<1> DEFINE n == Len(pg)
           G == {k \in 0..n + 1 : \E g : g = [w \in Calls(k, n) |-> WalkFrom(g, pg, w[1], w[2], w[3])]}
<1>0. n \in Nat
      OBVIOUS
<1>1. ASSUME NEW k \in 0..n, k + 1 \in G PROVE k \in G
  <2>1. PICK g : g = [w \in Calls(k + 1, n) |-> WalkFrom(g, pg, w[1], w[2], w[3])]
        BY <1>1
  <2> DEFINE h == [w \in Calls(k, n) |->
                     IF w[1] = k THEN WalkFrom(g, pg, w[1], w[2], w[3]) ELSE g[w]]
  <2>2. ASSUME NEW w \in Calls(k + 1, n) PROVE w \in Calls(k, n) /\ w[1] # k /\ h[w] = g[w]
    <3>1. w \in Calls(k, n) /\ w[1] # k
          BY <1>0 DEF Calls
    <3> QED BY <3>1
  <2>3. ASSUME NEW w \in Calls(k, n) PROVE h[w] = WalkFrom(h, pg, w[1], w[2], w[3])
    <3>1. w[1] \in k..n /\ w[1] \in 0..n /\ w[2] \in Containers /\ w[3] \in BOOLEAN
          BY <1>0 DEF Calls
    <3>2. \A v \in Calls(w[1] + 1, n) : h[v] = g[v]
      <4>1. \A v \in Calls(w[1] + 1, n) : v \in Calls(k + 1, n)
            BY <1>0, <3>1 DEF Calls
      <4> HIDE DEF h
      <4> QED BY <2>2, <4>1
    <3>3. WalkFrom(h, pg, w[1], w[2], w[3]) = WalkFrom(g, pg, w[1], w[2], w[3])
      <4> DEFINE j == w[1]
                 x == w[2]
                 y == w[3]
      <4>1. j \in 0..Len(pg) /\ x \in Containers /\ y \in BOOLEAN
            BY <3>1
      <4>2. \A v \in Calls(j + 1, Len(pg)) : h[v] = g[v]
            BY <3>2
      <4> HIDE DEF h, j, x, y, n
      <4>3. WalkFrom(h, pg, j, x, y) = WalkFrom(g, pg, j, x, y)
            BY <4>1, <4>2, WalkCongruence
      <4> QED BY <4>3 DEF j, x, y
    <3>4. CASE w[1] = k
          BY <3>3, <3>4
    <3>5. CASE w[1] # k
      <4>1. w \in Calls(k + 1, n)
        <5>1. w[1] \in k + 1..n
              BY <1>0, <3>1, <3>5
        <5> QED BY <5>1 DEF Calls
      <4>2. h[w] = g[w] /\ g[w] = WalkFrom(g, pg, w[1], w[2], w[3])
            BY <2>1, <3>5, <4>1
      <4> QED BY <3>3, <4>2
    <3> QED BY <3>4, <3>5
  <2>4. h = [w \in Calls(k, n) |-> WalkFrom(h, pg, w[1], w[2], w[3])]
        BY <2>3
  <2> HIDE DEF h
  <2>5. k \in 0..n + 1
        BY <1>0
  <2> QED BY <2>4, <2>5
<1>2. n + 1 \in G
  <2> DEFINE e == [w \in Calls(n + 1, n) |-> <<>>]
  <2>0. Calls(n + 1, n) = {}
        BY <1>0 DEF Calls
  <2>1. e = [w \in Calls(n + 1, n) |-> WalkFrom(e, pg, w[1], w[2], w[3])]
        BY <2>0
  <2> HIDE DEF e
  <2>2. n + 1 \in 0..n + 1
        BY <1>0
  <2> QED BY <2>1, <2>2
<1>3. \A i \in 0..n : i \in G
  <2>1. ASSUME NEW i \in 0..n, \A j \in i + 1..n : j \in G PROVE i \in G
    <3> HIDE DEF G
    <3>1. CASE i = n
          BY <1>0, <1>1, <1>2, <3>1
    <3>2. CASE i # n
      <4>1. i + 1 \in i + 1..n
        <5> HIDE DEF n
        <5> QED BY <1>0, <3>2
      <4> QED BY <1>1, <2>1, <4>1
    <3> QED BY <3>1, <3>2
  <2> HIDE DEF G, n
  <2> QED BY <1>0, <2>1, DownInduction
<1>4. 0 \in G
  <2> HIDE DEF G
  <2> QED BY <1>0, <1>3
<1> QED BY <1>4

(* What a walk of an element gives is what its children add, in order, and   *)
(* its own bare text.                                                        *)
Adds(pg, k, c, f) ==
    IF pg[k].tag = "dropped" THEN <<>>
    ELSE IF pg[k].tag \in BlockTags THEN BlockOf(pg, k, Here(pg, k, c), Inside(pg, k, f))
    ELSE Walk(pg, k, Here(pg, k, c), Inside(pg, k, f))

(* ... and each walk is what its equation says.                              *)
LEMMA WalkSteps ==
    ASSUME NEW pg \in Seq(Elements), NEW i \in 0..Len(pg), NEW c \in Containers, NEW f \in BOOLEAN
    PROVE  Walk(pg, i, c, f) =
              FlattenSeq([n \in DOMAIN Children(pg, i) |-> Adds(pg, Children(pg, i)[n], c, f)])
                 \o DirectText(pg, i, c, f)
<1> DEFINE t == CHOOSE g : g = [w \in Calls(0, Len(pg)) |-> WalkFrom(g, pg, w[1], w[2], w[3])]
<1>1. t = [w \in Calls(0, Len(pg)) |-> WalkFrom(t, pg, w[1], w[2], w[3])]
      BY WalkExists
<1>2. \A j, x, y : Walk(pg, j, x, y) = t[<<j, x, y>>]
      BY DEF Walk, Calls
<1> HIDE DEF t
<1>3. Walk(pg, i, c, f) = WalkFrom(t, pg, i, c, f)
  <2>1. <<i, c, f>> \in Calls(0, Len(pg))
        BY DEF Calls
  <2>2. t[<<i, c, f>>] = WalkFrom(t, pg, <<i, c, f>>[1], <<i, c, f>>[2], <<i, c, f>>[3])
        BY <1>1, <2>1
  <2>3. <<i, c, f>>[1] = i /\ <<i, c, f>>[2] = c /\ <<i, c, f>>[3] = f
        OBVIOUS
  <2>4. t[<<i, c, f>>] = WalkFrom(t, pg, i, c, f)
        BY <2>2, <2>3
  <2> QED BY <1>2, <2>4
<1>4. \A k : Emitted(t, pg, k, c, f) = Adds(pg, k, c, f)
      BY <1>2 DEF Emitted, Adds
<1>5. [n \in DOMAIN Children(pg, i) |-> Emitted(t, pg, Children(pg, i)[n], c, f)]
    = [n \in DOMAIN Children(pg, i) |-> Adds(pg, Children(pg, i)[n], c, f)]
      BY <1>4
<1> QED BY <1>3, <1>5, WalkFromEmitted

(* What a child adds that is a block is placed where the walk was.           *)
LEMMA AddsPlaces ==
    ASSUME NEW pg \in Seq(Elements), NEW k \in 1..Len(pg), NEW c \in Containers, NEW f \in BOOLEAN
    PROVE  /\ Here(pg, k, c) \in Places
           /\ pg[k].tag \in BlockTags /\ pg[k].tag # "dropped" =>
                 \/ Adds(pg, k, c, f) = <<>> /\ ~Speaks(pg, k)
                 \/ \E b \in Blocks : /\ Adds(pg, k, c, f) = <<b>>
                                      /\ Placed(b, pg, k, Here(pg, k, c), Inside(pg, k, f))
<1>1. Here(pg, k, c) \in Places /\ Inside(pg, k, f) \in BOOLEAN
      BY HereType DEF Places
<1>2. ASSUME pg[k].tag \in BlockTags, pg[k].tag # "dropped"
      PROVE  Adds(pg, k, c, f) = BlockOf(pg, k, Here(pg, k, c), Inside(pg, k, f))
      BY <1>2 DEF Adds
<1> QED BY <1>1, <1>2, BlockFacts

LEMMA OneOrNone ==
    ASSUME NEW S, NEW x, x = <<>> \/ \E b \in S : x = <<b>>
    PROVE  x \in Seq(S)
<1>1. CASE x = <<>>
      BY <1>1
<1>2. CASE \E b \in S : x = <<b>>
  <2>1. PICK b \in S : x = <<b>>
        BY <1>2
  <2>2. <<b>> \in Seq(S)
        OBVIOUS
  <2> QED BY <2>1, <2>2
<1> QED BY <1>1, <1>2

LEMMA AddsType ==
    ASSUME NEW pg \in Seq(Elements), NEW k \in 1..Len(pg), NEW c \in Containers, NEW f \in BOOLEAN,
           pg[k].tag \in BlockTags, pg[k].tag # "dropped"
    PROVE  Adds(pg, k, c, f) \in Seq(Blocks)
<1>1. CASE Adds(pg, k, c, f) = <<>>
      BY <1>1, OneOrNone
<1>2. CASE Adds(pg, k, c, f) # <<>>
  <2>1. PICK b \in Blocks : Adds(pg, k, c, f) = <<b>>
        BY <1>2, AddsPlaces
  <2> QED BY <2>1, OneOrNone
<1> QED BY <1>1, <1>2

LEMMA DirectTextType ==
    ASSUME NEW pg \in Seq(Elements), NEW i \in 0..Len(pg), NEW c \in Places, NEW f \in BOOLEAN
    PROVE  DirectText(pg, i, c, f) \in Seq(Blocks)
<1>1. CASE i = 0 \/ ~pg[i].text
      BY <1>1, DirectTextFacts, OneOrNone
<1>2. CASE i # 0 /\ pg[i].text
  <2>1. PICK b \in Blocks : DirectText(pg, i, c, f) = <<b>>
        BY <1>2, DirectTextFacts
  <2> QED BY <2>1, OneOrNone
<1> QED BY <1>1, <1>2

(* A walk gives blocks.                                                      *)
LEMMA WalkType ==
    ASSUME NEW pg \in Seq(Elements)
    PROVE  \A i \in 0..Len(pg) : \A c \in Containers, f \in BOOLEAN : Walk(pg, i, c, f) \in Seq(Blocks)
<1> DEFINE n == Len(pg)
           G == {i \in 0..n : \A c \in Containers, f \in BOOLEAN : Walk(pg, i, c, f) \in Seq(Blocks)}
<1>1. ASSUME NEW i \in 0..n, \A j \in i + 1..n : j \in G,
             NEW c \in Containers, NEW f \in BOOLEAN
      PROVE  Walk(pg, i, c, f) \in Seq(Blocks)
  <2> DEFINE s == Cardinality(ChildSet(pg, i))
             parts == [m \in DOMAIN Children(pg, i) |-> Adds(pg, Children(pg, i)[m], c, f)]
  <2>1. /\ s \in Nat /\ DOMAIN Children(pg, i) = 1..s
        /\ \A m \in 1..s : Children(pg, i)[m] \in i + 1..n
        BY ChildrenFacts
  <2>2. ASSUME NEW k \in i + 1..n PROVE Adds(pg, k, c, f) \in Seq(Blocks)
    <3>1. k \in 1..Len(pg)
          OBVIOUS
    <3>2. CASE pg[k].tag = "dropped"
          BY <3>2 DEF Adds
    <3>3. CASE pg[k].tag # "dropped" /\ pg[k].tag \in BlockTags
          BY <3>1, <3>3, AddsType
    <3>4. CASE pg[k].tag # "dropped" /\ pg[k].tag \notin BlockTags
      <4>1. Here(pg, k, c) \in Containers /\ Inside(pg, k, f) \in BOOLEAN
            BY <3>1, HereType
      <4>2. k \in G
            BY <1>1
      <4>3. Walk(pg, k, Here(pg, k, c), Inside(pg, k, f)) \in Seq(Blocks)
            BY <4>1, <4>2
      <4> QED BY <3>4, <4>3 DEF Adds
    <3> QED BY <3>2, <3>3, <3>4
  <2>3. parts \in [1..s -> Seq(Blocks)]
    <3> HIDE DEF s, n
    <3> QED BY <2>1, <2>2
  <2>4. FlattenSeq(parts) \in Seq(Blocks)
    <3> HIDE DEF parts, s
    <3>1. <<>> \in Seq(Blocks) /\ \A x, y \in Seq(Blocks) : x \o y \in Seq(Blocks)
          OBVIOUS
    <3> QED BY <2>1, <2>3, <3>1, FlattenClosed
  <2>5. DirectText(pg, i, c, f) \in Seq(Blocks)
    <3>1. c \in Places /\ i \in 0..Len(pg)
          BY DEF Places
    <3> QED BY <3>1, DirectTextType
  <2>6. Walk(pg, i, c, f) = FlattenSeq(parts) \o DirectText(pg, i, c, f)
        BY WalkSteps
  <2> HIDE DEF parts
  <2> QED BY <2>4, <2>5, <2>6
<1>2. ASSUME NEW i \in 0..n, \A j \in i + 1..n : j \in G PROVE i \in G
  <2>1. \A c \in Containers, f \in BOOLEAN : Walk(pg, i, c, f) \in Seq(Blocks)
    <3> HIDE DEF G
    <3> QED BY <1>1, <1>2
  <2> QED BY <2>1
<1>3. n \in Nat
      OBVIOUS
<1>4. \A i \in 0..n : i \in G
  <2> HIDE DEF G, n
  <2> QED BY <1>2, <1>3, DownInduction
<1> QED BY <1>4

(* Removing the scripts changes no depth and no text of an element.          *)
LEMMA AfterDropFacts ==
    ASSUME NEW pg \in Seq(Elements)
    PROVE  /\ AfterDrop(pg) \in Seq(Elements) /\ Len(AfterDrop(pg)) = Len(pg)
           /\ \A i \in 1..Len(pg) :
                 /\ AfterDrop(pg)[i].depth = pg[i].depth /\ AfterDrop(pg)[i].text = pg[i].text
                 /\ AfterDrop(pg)[i].tag =
                       IF pg[i].tag \in DroppedTags THEN "dropped" ELSE pg[i].tag
<1>1. DOMAIN pg = 1..Len(pg) /\ Len(pg) \in Nat
      OBVIOUS
<1>2. ASSUME NEW i \in 1..Len(pg)
      PROVE  /\ AfterDrop(pg)[i] \in Elements
             /\ AfterDrop(pg)[i].depth = pg[i].depth /\ AfterDrop(pg)[i].text = pg[i].text
             /\ AfterDrop(pg)[i].tag =
                   IF pg[i].tag \in DroppedTags THEN "dropped" ELSE pg[i].tag
  <2>1. pg[i] \in Elements
        OBVIOUS
  <2>2. "dropped" \in Tags
        BY DEF Tags
  <2>3. AfterDrop(pg)[i] = IF pg[i].tag \in DroppedTags
                           THEN [pg[i] EXCEPT !.tag = "dropped"] ELSE pg[i]
        BY <1>1 DEF AfterDrop, Doomed
  <2>4. CASE pg[i].tag \in DroppedTags
        BY <2>1, <2>2, <2>3, <2>4 DEF Elements
  <2>5. CASE pg[i].tag \notin DroppedTags
        BY <2>1, <2>3, <2>5
  <2> QED BY <2>4, <2>5
<1>3. AfterDrop(pg) \in [1..Len(pg) -> Elements]
  <2>1. AfterDrop(pg) = [i \in 1..Len(pg) |-> AfterDrop(pg)[i]]
        BY <1>1 DEF AfterDrop
  <2> QED BY <1>2, <2>1
<1>4. AfterDrop(pg) \in Seq(Elements) /\ Len(AfterDrop(pg)) = Len(pg)
      BY <1>1, <1>3
<1> QED BY <1>2, <1>4

LEMMA BlocksType ==
    ASSUME NEW pg \in Seq(Elements)
    PROVE  BlocksOf(pg) \in Seq(Blocks)
<1>1. AfterDrop(pg) \in Seq(Elements)
      BY AfterDropFacts
<1>2. 0 \in 0..Len(AfterDrop(pg)) /\ "none" \in Containers /\ FALSE \in BOOLEAN
      BY <1>1 DEF Containers
<1> QED BY <1>1, <1>2, WalkType DEF BlocksOf

-----------------------------------------------------------------------------
(* Pages *)

PageElements(tags, nodes) ==
    UNION {{Element(t, d, x) : d \in 1..nodes, x \in TextOptions(t)} : t \in tags}

(* The pages of some elements are those of one fewer, and one more.          *)
LEMMA PagesExist ==
    ASSUME NEW tags, NEW nodes \in Nat
    PROVE  \E f : /\ PagesOf(tags, nodes) = f[nodes] /\ f[0] = {<<>>}
                  /\ \A n \in 1..nodes :
                        f[n] = {Append(y[1], y[2]) :
                                  y \in {z \in f[n - 1] \X PageElements(tags, nodes) :
                                           GoesOn(z[1], z[2], tags)}}
<1> DEFINE elements == PageElements(tags, nodes)
           More(S) == {Append(y[1], y[2]) : y \in {z \in S \X elements : GoesOn(z[1], z[2], tags)}}
           Step(g, n) == IF n = 0 THEN {<<>>} ELSE More(g[n - 1])
           G == {k \in 0..nodes : \E g : g = [n \in 0..k |-> Step(g, n)]}
<1> HIDE DEF More
<1>1. ASSUME NEW k \in 0..nodes, \A j \in 0..k - 1 : j \in G PROVE k \in G
  <2>1. CASE k = 0
    <3> DEFINE g == [n \in 0..0 |-> {<<>>}]
    <3>1. g = [n \in 0..k |-> Step(g, n)]
          BY <2>1
    <3> HIDE DEF g
    <3> QED BY <3>1
  <2>2. CASE k # 0
    <3>1. k - 1 \in G
      <4> HIDE DEF G
      <4> QED BY <1>1, <2>2
    <3>2. PICK g : g = [n \in 0..k - 1 |-> Step(g, n)]
          BY <3>1
    <3> DEFINE h == [n \in 0..k |-> IF n = k THEN Step(g, k) ELSE g[n]]
    <3>3. ASSUME NEW n \in 0..k PROVE h[n] = Step(h, n)
      <4>1. n # 0 => n - 1 \in 0..k /\ n - 1 # k
            OBVIOUS
      <4>2. n # 0 => h[n - 1] = g[n - 1]
            BY <4>1
      <4>3. CASE n = k
            BY <4>2, <4>3
      <4>4. CASE n # k
        <5>1. n \in 0..k - 1
              BY <4>4
        <5>2. h[n] = g[n] /\ g[n] = Step(g, n)
              BY <3>2, <4>4, <5>1
        <5> QED BY <4>2, <5>2
      <4> QED BY <4>3, <4>4
    <3>4. h = [n \in 0..k |-> Step(h, n)]
          BY <3>3
    <3> HIDE DEF h
    <3> QED BY <3>4
  <2> QED BY <2>1, <2>2
<1>2. nodes \in G
  <2>1. \A i \in 0..nodes : i \in G
    <3> HIDE DEF G
    <3> QED BY <1>1, UpInduction
  <2> HIDE DEF G
  <2> QED BY <2>1
<1> DEFINE whole == CHOOSE g : g = [n \in 0..nodes |-> Step(g, n)]
<1>3. whole = [n \in 0..nodes |-> Step(whole, n)]
      BY <1>2
<1>4. PagesOf(tags, nodes) = whole[nodes]
      BY DEF PagesOf, PageElements, More
<1> HIDE DEF whole
<1>5. whole[0] = {<<>>}
      BY <1>3
<1>6. ASSUME NEW n \in 1..nodes PROVE whole[n] = More(whole[n - 1])
  <2>1. n \in 0..nodes /\ n # 0
        OBVIOUS
  <2> QED BY <1>3, <2>1
<1>7. \A n \in 1..nodes :
         whole[n] = {Append(y[1], y[2]) : y \in {z \in whole[n - 1] \X elements : GoesOn(z[1], z[2], tags)}}
      BY <1>6 DEF More
<1> QED BY <1>4, <1>5, <1>7

-----------------------------------------------------------------------------
(* Pages are sequences of elements.                                          *)
LEMMA PageElementsType ==
    ASSUME NEW tags \in SUBSET Tags, NEW nodes \in Nat
    PROVE  PageElements(tags, nodes) \in SUBSET Elements
<1>1. ASSUME NEW t \in tags, NEW d \in 1..nodes, NEW x \in TextOptions(t)
      PROVE  Element(t, d, x) \in Elements
  <2>1. TextOptions(t) \in SUBSET BOOLEAN
        BY DEF TextOptions
  <2>2. t \in Tags /\ d \in Nat /\ x \in BOOLEAN
        BY <2>1
  <2> QED BY <2>2 DEF Element, Elements
<1> QED BY <1>1 DEF PageElements

(* Pages are sequences of elements.                                          *)
LEMMA PagesType ==
    ASSUME NEW tags \in SUBSET Tags, NEW nodes \in Nat
    PROVE  PagesOf(tags, nodes) \in SUBSET Seq(Elements)
<1>1. PICK f : /\ PagesOf(tags, nodes) = f[nodes] /\ f[0] = {<<>>}
               /\ \A n \in 1..nodes :
                     f[n] = {Append(y[1], y[2]) :
                               y \in {z \in f[n - 1] \X PageElements(tags, nodes) :
                                        GoesOn(z[1], z[2], tags)}}
      BY PagesExist
<1> DEFINE G == {n \in 0..nodes : f[n] \in SUBSET Seq(Elements)}
<1>2. ASSUME NEW n \in 0..nodes, \A j \in 0..n - 1 : j \in G PROVE n \in G
  <2>1. CASE n = 0
    <3>1. <<>> \in Seq(Elements)
          OBVIOUS
    <3> QED BY <1>1, <2>1, <3>1
  <2>2. CASE n # 0
    <3>1. n \in 1..nodes /\ n - 1 \in 0..n - 1
          BY <2>2
    <3>2. f[n - 1] \in SUBSET Seq(Elements)
          BY <1>2, <3>1
    <3>3. ASSUME NEW pg \in f[n] PROVE pg \in Seq(Elements)
      <4>1. PICK y \in f[n - 1] \X PageElements(tags, nodes) : pg = Append(y[1], y[2])
            BY <1>1, <3>1
      <4>2. y[1] \in Seq(Elements) /\ y[2] \in Elements
            BY <3>2, PageElementsType
      <4> QED BY <4>1, <4>2
    <3> QED BY <3>3
  <2> QED BY <2>1, <2>2
<1>3. \A n \in 0..nodes : n \in G
  <2> HIDE DEF G
  <2> QED BY <1>2, UpInduction
<1> QED BY <1>1, <1>3

-----------------------------------------------------------------------------
(* Documents whose blocks have texts                                         *)

HasTexts(blocks) ==
    /\ \E n \in Nat : DOMAIN blocks = 1..n
    /\ \A n \in DOMAIN blocks :
          blocks[n].text \in Seq(Pairs) /\ blocks[n].items \in Seq(Seq(Pairs))

(* A document has the texts that its pointers need.                          *)
LEMMA HtmlHasTexts ==
    ASSUME NEW pg \in Seq(Elements)
    PROVE  HasTexts(ParseHtml(pg).blocks)
<1>1. BlocksOf(pg) \in Seq(Blocks) /\ ParseHtml(pg).blocks = BlocksOf(pg)
      BY BlocksType DEF ParseHtml, DocumentOf
<1>2. DOMAIN BlocksOf(pg) = 1..Len(BlocksOf(pg)) /\ Len(BlocksOf(pg)) \in Nat
      BY <1>1
<1>3. ASSUME NEW n \in DOMAIN BlocksOf(pg)
      PROVE  BlocksOf(pg)[n].text \in Seq(Pairs) /\ BlocksOf(pg)[n].items \in Seq(Seq(Pairs))
  <2>1. BlocksOf(pg)[n] \in Blocks
        BY <1>1
  <2> QED BY <2>1 DEF Blocks
<1> QED BY <1>1, <1>2, <1>3 DEF HasTexts

LEMMA PdfHasTexts ==
    ASSUME NEW pages \in PdfPages
    PROVE  HasTexts(ParsePdf(pages).blocks)
<1> DEFINE S == {n \in DOMAIN pages : pages[n] # "unreadable"}
           readable == InOrder(S)
           block(n) == [Block("pdf_page", readable[n], "pdf", FALSE) EXCEPT
                          !.text  = IF pages[readable[n]] = "text" THEN <<Word(readable[n], 0)>>
                                    ELSE <<>>,
                          !.level = readable[n]]
<1> DEFINE two == 2
<1>1. S \in SUBSET (1..two) /\ IsFiniteSet(1..two)
  <2>1. two \in Nat
        OBVIOUS
  <2>2. DOMAIN pages = 1..two
        BY DEF PdfPages
  <2> HIDE DEF two
  <2>3. IsFiniteSet(1..two)
        BY <2>1, FS_Interval
  <2> QED BY <2>2, <2>3
<1>2. S \in SUBSET Nat /\ IsFiniteSet(S)
  <2> HIDE DEF S
  <2>1. IsFiniteSet(S)
        BY <1>1, FS_Subset
  <2> QED BY <1>1, <2>1
<1>3. Cardinality(S) \in Nat /\ readable \in [1..Cardinality(S) -> S]
  <2> HIDE DEF S
  <2> QED BY <1>2, InOrderFacts
<1>4. ParsePdf(pages).blocks = [n \in DOMAIN readable |-> block(n)]
      BY DEF ParsePdf
<1> HIDE DEF readable
<1>5. ASSUME NEW n \in DOMAIN readable
      PROVE  block(n).text \in Seq(Pairs) /\ block(n).items \in Seq(Seq(Pairs))
  <2>1. readable[n] \in Nat
        BY <1>1, <1>3
  <2>2. Word(readable[n], 0) \in Pairs
        BY <2>1 DEF Word, Pairs
  <2>3. block(n).text \in {<<>>, <<Word(readable[n], 0)>>} /\ block(n).items = <<>>
        BY DEF Block
  <2>4. <<Word(readable[n], 0)>> \in Seq(Pairs) /\ <<>> \in Seq(Pairs) /\ <<>> \in Seq(Seq(Pairs))
        BY <2>2
  <2> HIDE DEF block
  <2> QED BY <2>3, <2>4
<1> HIDE DEF block
<1>6. DOMAIN readable = 1..Cardinality(S)
      BY <1>3
<1> QED BY <1>3, <1>4, <1>5, <1>6 DEF HasTexts

-----------------------------------------------------------------------------
(* What a pointer leads to.                                                  *)
LEMMA BlockPointer ==
    ASSUME NEW doc, NEW n \in DOMAIN doc.blocks
    PROVE  /\ Resolve(doc, InBlock(n)) = doc.blocks[n].text
           /\ InBlock(n).from = 0 /\ InBlock(n).kind = "block" /\ InBlock(n).block = n
<1>1. InBlock(n).from = 0 /\ InBlock(n).kind = "block" /\ InBlock(n).block = n
      BY DEF InBlock, NoWhere
<1> QED BY <1>1 DEF Resolve

LEMMA ItemPointer ==
    ASSUME NEW doc, NEW n \in DOMAIN doc.blocks, NEW m \in DOMAIN doc.blocks[n].items
    PROVE  /\ Resolve(doc, InItem(n, m)) = doc.blocks[n].items[m]
           /\ InItem(n, m).from = 0 /\ InItem(n, m).kind = "list_item" /\ InItem(n, m).block = n
           /\ InItem(n, m).item = m
<1>1. /\ InItem(n, m).from = 0 /\ InItem(n, m).kind = "list_item" /\ InItem(n, m).block = n
      /\ InItem(n, m).item = m
      BY DEF InItem, NoWhere
<1> QED BY <1>1 DEF Resolve, At

LEMMA CellPointer ==
    ASSUME NEW doc, NEW t \in DOMAIN doc.tables, NEW r \in DOMAIN doc.tables[t].rows,
           NEW c \in DOMAIN doc.tables[t].rows[r]
    PROVE  /\ Resolve(doc, InCell(t, r, c)) = doc.tables[t].rows[r][c].text
           /\ InCell(t, r, c).from = 0 /\ InCell(t, r, c).kind = "table_cell"
<1>1. /\ InCell(t, r, c).from = 0 /\ InCell(t, r, c).kind = "table_cell"
      /\ InCell(t, r, c).table = t /\ InCell(t, r, c).row = r /\ InCell(t, r, c).column = c
      /\ InCell(t, r, c).header = FALSE
      BY DEF InCell, NoWhere
<1> QED BY <1>1 DEF Resolve, CellAt

(* A unit is what its place leads to.                                        *)
LEMMA UnitFacts ==
    ASSUME NEW doc, HasTexts(doc.blocks), NEW n \in DOMAIN doc.blocks, NEW u \in UnitsOf(doc.blocks, n)
    PROVE  /\ u.text \in Seq(Pairs) /\ u.text = Resolve(doc, u.at) /\ u.at.from = 0 /\ u.at.block = n
           /\ \/ u.at.kind = "block" /\ u.at = InBlock(n) /\ u.text = doc.blocks[n].text
              \/ u.at.kind = "list_item" /\ \E m \in DOMAIN doc.blocks[n].items : u.at = InItem(n, m)
<1> DEFINE b == doc.blocks[n]
<1>1. b.text \in Seq(Pairs) /\ b.items \in Seq(Seq(Pairs))
      BY DEF HasTexts
<1>2. CASE b.kind = "list"
  <2>1. PICK m \in DOMAIN b.items : u = [text |-> b.items[m], at |-> InItem(n, m)]
        BY <1>2 DEF UnitsOf
  <2>2. b.items[m] \in Seq(Pairs)
        BY <1>1
  <2>3. u.text = b.items[m] /\ u.at = InItem(n, m)
        BY <2>1
  <2>4. Resolve(doc, InItem(n, m)) = b.items[m] /\ InItem(n, m).from = 0 /\ InItem(n, m).block = n
        /\ InItem(n, m).kind = "list_item"
    <3> HIDE DEF b
    <3> QED BY ItemPointer DEF b
  <2> QED BY <2>2, <2>3, <2>4
<1>3. CASE b.kind # "list"
  <2>1. u = [text |-> b.text, at |-> InBlock(n)]
        BY <1>3 DEF UnitsOf
  <2>2. u.text = b.text /\ u.at = InBlock(n)
        BY <2>1
  <2>3. Resolve(doc, InBlock(n)) = b.text /\ InBlock(n).from = 0 /\ InBlock(n).block = n
        /\ InBlock(n).kind = "block"
        BY BlockPointer
  <2> QED BY <1>1, <2>2, <2>3
<1> QED BY <1>2, <1>3

-----------------------------------------------------------------------------
(* Claims that quote all of what their pointer leads to.                     *)
Whole(doc, field, c) ==
    c.at.from = 0 /\ c = Claim(field, Resolve(doc, c.at), Resolve(doc, c.at), c.at)

(* Claims that quote all of what they point at are located, and told apart.  *)
LEMMA WholePointsIn ==
    ASSUME NEW doc, NEW field, NEW claims, \A c \in claims : Whole(doc, field, c)
    PROVE  PointIn(doc, claims)
<1>1. ASSUME NEW c \in claims PROVE Found(doc, c)
  <2>1. c.raw = Resolve(doc, c.at) /\ c.evidence = Resolve(doc, c.at) /\ c.at.from = 0
        BY DEF Whole, Claim
  <2> QED BY <2>1 DEF Found
<1>2. ASSUME NEW c \in claims, NEW d \in claims, c.at = d.at PROVE c = d
      BY <1>2 DEF Whole
<1> QED BY <1>1, <1>2 DEF PointIn

LEMMA UnitWhole ==
    ASSUME NEW doc, HasTexts(doc.blocks), NEW n \in DOMAIN doc.blocks, NEW u \in UnitsOf(doc.blocks, n),
           NEW field
    PROVE  Whole(doc, field, Claim(field, u.text, u.text, u.at))
<1>1. u.text = Resolve(doc, u.at) /\ u.at.from = 0
      BY UnitFacts
<1>2. Claim(field, u.text, u.text, u.at).at = u.at
      BY DEF Claim
<1> QED BY <1>1, <1>2 DEF Whole

LEMMA TableWhole ==
    ASSUME NEW doc, NEW field, NEW c \in TableClaims(doc, field)
    PROVE  Whole(doc, field, c)
<1> DEFINE text(t, at) == doc.tables[t].rows[at[1]][at[2]].text
<1>0. PICK t \in DOMAIN doc.tables :
         c \in {Claim(field, text(t, at), text(t, at), InCell(t, at[1], at[2])) :
                  at \in Labelled(doc.tables[t])}
      BY DEF TableClaims
<1>1. PICK at \in Labelled(doc.tables[t]) :
         c = Claim(field, text(t, at), text(t, at), InCell(t, at[1], at[2]))
      BY <1>0
<1>2. at[1] \in DOMAIN doc.tables[t].rows /\ at[2] \in DOMAIN doc.tables[t].rows[at[1]]
  <2>1. doc.tables[t].headers # <<>>
        BY DEF Labelled
  <2> QED BY <2>1 DEF Labelled
<1>3. /\ Resolve(doc, InCell(t, at[1], at[2])) = doc.tables[t].rows[at[1]][at[2]].text
      /\ InCell(t, at[1], at[2]).from = 0
      BY <1>2, CellPointer
<1>4. c.at = InCell(t, at[1], at[2])
      BY <1>1 DEF Claim
<1> QED BY <1>1, <1>3, <1>4 DEF Whole

LEMMA SubSeqOfOne ==
    ASSUME NEW S, NEW s \in Seq(S), NEW k \in DOMAIN s
    PROVE  SubSeq(s, k, k) = <<s[k]>> /\ k \in Nat \ {0}
<1>1. k \in 1..Len(s) /\ Len(s) \in Nat
      OBVIOUS
<1>2. SubSeq(s, k, k) = [i \in 1..1 |-> s[k]]
  <2>1. \A i \in 1..1 : (k..k) # {} /\ i + k - 1 = k
        BY <1>1
  <2> QED BY <1>1, <2>1
<1> QED BY <1>1, <1>2

(* Spans of a unit are located for themselves, by where they begin.          *)
LEMMA LanguagePoints ==
    ASSUME NEW doc, HasTexts(doc.blocks)
    PROVE  PointIn(doc, LanguageClaims(doc))
<1> DEFINE own(at) == IF at.kind = "list_item" THEN Resolve(doc, at) ELSE doc.blocks[at.block].text
           told(at) == IF at.from = 0
                       THEN Claim("LANGUAGE_OVERALL_SCORE", Resolve(doc, at), Resolve(doc, at), at)
                       ELSE Claim("LANGUAGE_OVERALL_SCORE", <<own(at)[at.from]>>, own(at), at)
<1>1. ASSUME NEW n \in DOMAIN doc.blocks, NEW u \in UnitsOf(doc.blocks, n),
             NEW m \in DOMAIN u.text, NEW at \in SpansOf(u), at.from \in {0, m}
      PROVE  LET c == Claim("LANGUAGE_OVERALL_SCORE", <<u.text[m]>>, u.text, at)
             IN  c.at = at /\ c = told(at) /\ Found(doc, c)
  <2> DEFINE c == Claim("LANGUAGE_OVERALL_SCORE", <<u.text[m]>>, u.text, at)
  <2>1. PICK k \in DOMAIN u.text : at = [u.at EXCEPT !.from = k, !.to = k]
        BY DEF SpansOf
  <2>2. /\ u.text \in Seq(Pairs) /\ u.text = Resolve(doc, u.at) /\ u.at.from = 0 /\ u.at.block = n
        /\ \/ u.at.kind = "block" /\ u.at = InBlock(n) /\ u.text = doc.blocks[n].text
           \/ u.at.kind = "list_item" /\ \E i \in DOMAIN doc.blocks[n].items : u.at = InItem(n, i)
        BY UnitFacts
  <2>3. k \in Nat \ {0} /\ DOMAIN u.text = 1..Len(u.text)
        BY <2>2
  <2>4. c.at = at /\ c.raw = <<u.text[m]>> /\ c.evidence = u.text
        BY DEF Claim
  <2>5. CASE u.at.kind = "block"
    <3>1. u.at = InBlock(n) /\ u.text = doc.blocks[n].text
          BY <2>2, <2>5
    <3>2. at.from = k /\ at.to = k /\ at.kind = "block" /\ at.block = n
          BY <2>1, <3>1 DEF InBlock, NoWhere
    <3>3. k = m
          BY <1>1, <2>3, <3>2
    <3>4. own(at) = u.text /\ at.from # 0
          BY <2>3, <3>1, <3>2
    <3>5. Resolve(doc, at) = SubSeq(u.text, k, k)
          BY <2>3, <3>1, <3>2 DEF Resolve
    <3>6. SubSeq(u.text, k, k) = <<u.text[k]>>
          BY <2>2, SubSeqOfOne
    <3>7. Found(doc, c)
          BY <2>4, <3>2, <3>3, <3>4, <3>5, <3>6 DEF Found
    <3>8. told(at) = Claim("LANGUAGE_OVERALL_SCORE", <<own(at)[at.from]>>, own(at), at)
          BY <3>4
    <3> HIDE DEF own, told
    <3>9. c = told(at)
          BY <3>2, <3>3, <3>4, <3>8
    <3> QED BY <2>4, <3>7, <3>9
  <2>6. CASE u.at.kind = "list_item"
    <3>1. PICK i \in DOMAIN doc.blocks[n].items : u.at = InItem(n, i)
          BY <2>2, <2>6
    <3>2. at.from = k /\ at.to = k /\ at.kind = "list_item" /\ at.block = n /\ at.item = i
          BY <2>1, <3>1 DEF InItem, NoWhere
    <3>3. k = m
          BY <1>1, <2>3, <3>2
    <3>4. Resolve(doc, at) = doc.blocks[n].items[i]
          BY <3>2 DEF Resolve, At
    <3>5. Resolve(doc, u.at) = doc.blocks[n].items[i]
          BY <3>1, ItemPointer
    <3>6. Resolve(doc, at) = u.text
          BY <2>2, <3>4, <3>5
    <3>7. own(at) = u.text /\ at.from # 0
          BY <2>3, <3>2, <3>6
    <3>8. ToSet(<<u.text[m]>>) \subseteq ToSet(u.text)
          BY DEF ToSet
    <3>9. Found(doc, c)
          BY <2>4, <3>2, <3>6, <3>8 DEF Found
    <3>10. told(at) = Claim("LANGUAGE_OVERALL_SCORE", <<own(at)[at.from]>>, own(at), at)
          BY <3>7
    <3> HIDE DEF own, told
    <3>11. c = told(at)
          BY <3>2, <3>3, <3>7, <3>10
    <3> QED BY <2>4, <3>9, <3>11
  <2> QED BY <2>2, <2>5, <2>6
<1>2. ASSUME NEW c \in LanguageClaims(doc) PROVE Found(doc, c) /\ c = told(c.at)
  <2>1. CASE c \in TableClaims(doc, "LANGUAGE_OVERALL_SCORE")
    <3>1. Whole(doc, "LANGUAGE_OVERALL_SCORE", c)
          BY <2>1, TableWhole
    <3>2. PointIn(doc, {c})
          BY <3>1, WholePointsIn
    <3> QED BY <3>1, <3>2 DEF Whole, PointIn
  <2>2. CASE c \notin TableClaims(doc, "LANGUAGE_OVERALL_SCORE")
    <3> DEFINE spans(u) == {z \in (DOMAIN u.text) \X LanguageSpans(u) :
                              u.text[z[1]] # Space /\ z[2].from \in {0, z[1]}}
               of(u) == {Claim("LANGUAGE_OVERALL_SCORE", <<u.text[y[1]]>>, u.text, y[2]) : y \in spans(u)}
               units == UnitsOutside(doc.blocks, IsChrome)
    <3>0. c \in UNION {of(u) : u \in units}
          BY <2>2 DEF LanguageClaims
    <3>1. PICK u \in units : c \in of(u)
      <4> HIDE DEF of, units
      <4> QED BY <3>0
    <3>2. PICK n \in DOMAIN doc.blocks : u \in UnitsOf(doc.blocks, n)
          BY DEF UnitsOutside
    <3>3. PICK y \in spans(u) : c = Claim("LANGUAGE_OVERALL_SCORE", <<u.text[y[1]]>>, u.text, y[2])
          BY <3>1
    <3>4. y[1] \in DOMAIN u.text /\ y[2] \in SpansOf(u) /\ y[2].from \in {0, y[1]}
          BY DEF LanguageSpans
    <3>5. Found(doc, c) /\ c.at = y[2] /\ c = told(y[2])
      <4> HIDE DEF told
      <4> QED BY <1>1, <3>2, <3>3, <3>4
    <3> QED BY <3>5
  <2> QED BY <2>1, <2>2
<1> HIDE DEF told
<1> QED BY <1>2 DEF PointIn

(* So are the dates of a calendar.                                           *)
LEMMA CalendarPoints ==
    ASSUME NEW doc, HasTexts(doc.blocks)
    PROVE  PointIn(doc, CalendarClaims(doc))
<1>1. ASSUME NEW c \in CalendarClaims(doc)
      PROVE  /\ Found(doc, c)
             /\ c = Claim("ACADEMIC_CALENDAR_EVENT", Resolve(doc, c.at), doc.blocks[c.at.block].text, c.at)
  <2>1. PICK n \in DOMAIN doc.blocks :
           c \in {Claim("ACADEMIC_CALENDAR_EVENT", SubSeq(doc.blocks[n].text, at.from, at.to),
                       doc.blocks[n].text,
                       [at EXCEPT !.kind = IF doc.blocks[n].kind = "pdf_page" THEN "pdf_page" ELSE @]) :
                   at \in SpansOf([text |-> doc.blocks[n].text, at |-> InBlock(n)])}
        BY DEF CalendarClaims
  <2>2. PICK at \in SpansOf([text |-> doc.blocks[n].text, at |-> InBlock(n)]) :
           c = Claim("ACADEMIC_CALENDAR_EVENT", SubSeq(doc.blocks[n].text, at.from, at.to),
                     doc.blocks[n].text,
                     [at EXCEPT !.kind = IF doc.blocks[n].kind = "pdf_page" THEN "pdf_page" ELSE @])
        BY <2>1
  <2>3. PICK k \in DOMAIN doc.blocks[n].text : at = [InBlock(n) EXCEPT !.from = k, !.to = k]
        BY DEF SpansOf
  <2>4. k \in Nat \ {0}
        BY DEF HasTexts
  <2>5. at.from = k /\ at.to = k /\ at.kind = "block" /\ at.block = n
        BY <2>3 DEF InBlock, NoWhere
  <2>6. /\ c.at.from = k /\ c.at.to = k /\ c.at.kind \in {"block", "pdf_page"} /\ c.at.block = n
        /\ c.raw = SubSeq(doc.blocks[n].text, k, k) /\ c.evidence = doc.blocks[n].text
        /\ c = Claim("ACADEMIC_CALENDAR_EVENT", SubSeq(doc.blocks[n].text, k, k), doc.blocks[n].text, c.at)
        BY <2>2, <2>3, <2>5 DEF Claim, InBlock, NoWhere
  <2>7. Resolve(doc, c.at) = SubSeq(doc.blocks[n].text, k, k)
        BY <2>4, <2>6 DEF Resolve
  <2>8. Found(doc, c)
        BY <2>4, <2>6, <2>7 DEF Found
  <2> QED BY <2>6, <2>7, <2>8
<1> QED BY <1>1 DEF PointIn

-----------------------------------------------------------------------------
(* Every claim of the rules points at what it quotes, and no two of one      *)
(* extractor share a pointer.                                                *)
LEMMA RulesPointInTexts ==
    ASSUME NEW pg, NEW doc, HasTexts(doc.blocks)
    PROVE  RulesPointIn(pg, doc)
<1>1. ASSUME NEW field, NEW Outside(_), NEW u \in UnitsOutside(doc.blocks, Outside)
      PROVE  Whole(doc, field, Claim(field, u.text, u.text, u.at))
  <2>1. PICK n \in DOMAIN doc.blocks : u \in UnitsOf(doc.blocks, n)
        BY DEF UnitsOutside
  <2> QED BY <2>1, UnitWhole
<1>2. PointIn(doc, TuitionClaims(doc))
  <2>1. \A c \in TuitionClaims(doc) : Whole(doc, "TUITION", c)
        BY <1>1, TableWhole DEF TuitionClaims
  <2> QED BY <2>1, WholePointsIn
<1>3. PointIn(doc, DeadlineClaims(doc))
  <2>1. \A c \in DeadlineClaims(doc) : Whole(doc, "APPLICATION_DEADLINE", c)
        BY <1>1 DEF DeadlineClaims
  <2> QED BY <2>1, WholePointsIn
<1>4. PointIn(doc, AdmissionClaims(pg, doc))
  <2>1. \A c \in AdmissionClaims(pg, doc) : Whole(doc, "ADMISSION_REQUIREMENT", c)
        BY <1>1 DEF AdmissionClaims, AdmissionUnits
  <2> QED BY <2>1, WholePointsIn
<1>5. PointIn(doc, ProgrammeClaims(doc))
  <2>1. ASSUME NEW n \in ProgrammeHeadings(doc)
        PROVE  Whole(doc, "PROGRAM_NAME",
                     Claim("PROGRAM_NAME", doc.blocks[n].text, doc.blocks[n].text, InBlock(n)))
    <3>1. n \in DOMAIN doc.blocks
          BY DEF ProgrammeHeadings
    <3> QED BY <3>1, BlockPointer DEF Whole, Claim
  <2>2. ASSUME NEW n \in ProgrammeLinks(doc)
        PROVE  Whole(doc, "PROGRAM_NAME",
                     Claim("PROGRAM_NAME", doc.links[n].text, doc.links[n].text,
                           [NoWhere EXCEPT !.kind = "link", !.link = n, !.block = doc.links[n].block]))
    <3> DEFINE at == [NoWhere EXCEPT !.kind = "link", !.link = n, !.block = doc.links[n].block]
    <3>1. n \in DOMAIN doc.links
          BY DEF ProgrammeLinks
    <3>2. at.kind = "link" /\ at.link = n /\ at.from = 0
          BY DEF NoWhere
    <3> HIDE DEF at
    <3>3. Resolve(doc, at) = doc.links[n].text
          BY <3>1, <3>2 DEF Resolve, LinkAt
    <3>4. Whole(doc, "PROGRAM_NAME", Claim("PROGRAM_NAME", doc.links[n].text, doc.links[n].text, at))
          BY <3>2, <3>3 DEF Whole, Claim
    <3> QED BY <3>4 DEF at
  <2>3. \A c \in ProgrammeClaims(doc) : Whole(doc, "PROGRAM_NAME", c)
        BY <2>1, <2>2 DEF ProgrammeClaims
  <2> QED BY <2>3, WholePointsIn
<1> QED BY <1>2, <1>3, <1>4, <1>5, LanguagePoints, CalendarPoints DEF RulesPointIn, RuleClaims

(* What a model quotes is where its claim points.                            *)
LEMMA ModelsPointInTexts ==
    ASSUME NEW pg, NEW doc, HasTexts(doc.blocks)
    PROVE  ModelsPointIn(pg, doc)
<1>1. ASSUME NEW c \in ModelClaims(pg, doc) PROVE Found(doc, c)
  <2>1. PICK q, cited :
           /\ VerifiedBlock(doc.blocks, q, cited) # 0
           /\ c = Claim("TUITION", <<q>>, <<q>>, InBlock(VerifiedBlock(doc.blocks, q, cited)))
        BY DEF ModelClaims
  <2> DEFINE in == {n \in DOMAIN doc.blocks : q \in ToSet(doc.blocks[n].text)}
             n == VerifiedBlock(doc.blocks, q, cited)
  <2>2. n \in in
    <3>1. in \in SUBSET Nat
          BY DEF HasTexts
    <3>2. in # {} => Min(in) \in in
      <4> HIDE DEF in
      <4> QED BY <3>1, MinFacts
    <3>3. n = IF cited \in in THEN cited ELSE IF in = {} THEN 0 ELSE Min(in)
          BY DEF VerifiedBlock
    <3> HIDE DEF n, in
    <3> QED BY <2>1, <3>2, <3>3 DEF n
  <2>3. n \in DOMAIN doc.blocks /\ q \in ToSet(doc.blocks[n].text)
        BY <2>2
  <2> HIDE DEF n
  <2>4. /\ Resolve(doc, InBlock(n)) = doc.blocks[n].text /\ InBlock(n).from = 0
        /\ InBlock(n).kind = "block"
        BY <2>3, BlockPointer
  <2>5. c.at = InBlock(n) /\ c.raw = <<q>>
        BY <2>1 DEF Claim, n
  <2>6. ToSet(<<q>>) \subseteq ToSet(doc.blocks[n].text)
    <3>1. ToSet(<<q>>) = {q}
          BY DEF ToSet
    <3> QED BY <2>3, <3>1
  <2> QED BY <2>4, <2>5, <2>6 DEF Found
<1>2. ASSUME NEW c \in ValidatedItems(pg, doc) PROVE Found(doc, c)
  <2>1. PICK n \in DOMAIN doc.blocks :
           c \in {Claim("TUITION", <<q>>, <<q>>,
                       LET text == doc.blocks[n].text
                           first == Min({m \in DOMAIN text : text[m] = q})
                       IN  [InBlock(n) EXCEPT !.from = first, !.to = first]) :
                   q \in {x \in QuotesFor(pg) : x \in ToSet(doc.blocks[n].text)}}
        BY DEF ValidatedItems
  <2> DEFINE text == doc.blocks[n].text
             where(q) == {m \in DOMAIN text : text[m] = q}
  <2>2. PICK q \in ToSet(text) :
           c = Claim("TUITION", <<q>>, <<q>>,
                     [InBlock(n) EXCEPT !.from = Min(where(q)), !.to = Min(where(q))])
        BY <2>1
  <2> DEFINE first == Min(where(q))
  <2>3. text \in Seq(Pairs)
        BY DEF HasTexts
  <2>4. first \in DOMAIN text /\ text[first] = q
    <3>1. where(q) \in SUBSET Nat
          BY <2>3
    <3>2. where(q) # {}
          BY <2>2 DEF ToSet
    <3>3. Min(where(q)) \in where(q)
      <4> HIDE DEF where
      <4> QED BY <3>1, <3>2, MinFacts
    <3> QED BY <3>3
  <2> HIDE DEF first
  <2>5. /\ c.at.from = first /\ c.at.to = first /\ c.at.kind = "block" /\ c.at.block = n
        /\ c.raw = <<q>>
        BY <2>2 DEF Claim, InBlock, NoWhere, first
  <2>6. first \in Nat \ {0} /\ SubSeq(text, first, first) = <<text[first]>>
    <3> HIDE DEF text
    <3> QED BY <2>3, <2>4, SubSeqOfOne
  <2>7. Resolve(doc, c.at) = SubSeq(text, first, first)
        BY <2>5, <2>6 DEF Resolve
  <2> QED BY <2>4, <2>5, <2>6, <2>7 DEF Found
<1> QED BY <1>1, <1>2 DEF ModelsPointIn

-----------------------------------------------------------------------------
(* On every page and every PDF, of any length.                               *)
LEMMA EveryClaimPoints ==
    ASSUME PageNodes \in Nat
    PROVE  RulesPoint /\ ModelsPoint
<1>1. /\ SitePages \in SUBSET Seq(Elements) /\ TextPages \in SUBSET Seq(Elements)
      /\ TablePages \in SUBSET Seq(Elements)
  <2>1. {"section", "nav", "h2", "p", "ul", "li", "a"} \in SUBSET Tags
        BY DEF Tags, BlockTags, ContainerTags, ItemTags, HeadingTags, Level
  <2>2. {"div", "p", "ul", "li", "script", "noscript"} \in SUBSET Tags
        BY DEF Tags, BlockTags, ContainerTags, ItemTags, HeadingTags, Level, DroppedTags
  <2>3. {"table", "thead", "tr", "th", "td", "caption"} \in SUBSET Tags
        BY DEF Tags, BlockTags
  <2>4. PagesOf({"table", "thead", "tr", "th", "td", "caption"}, PageNodes + 2) \in SUBSET Seq(Elements)
        BY <2>3, PagesType
  <2>5. TablePages \in SUBSET Seq(Elements)
        BY <2>4 DEF TablePages
  <2>6. SitePages \in SUBSET Seq(Elements)
        BY <2>1, PagesType DEF SitePages
  <2>7. TextPages \in SUBSET Seq(Elements)
        BY <2>2, PagesType DEF TextPages
  <2> QED BY <2>5, <2>6, <2>7
<1>2. RulesPoint
      BY <1>1, HtmlHasTexts, PdfHasTexts, RulesPointInTexts DEF RulesPoint
<1>3. ModelsPoint
      BY <1>1, HtmlHasTexts, ModelsPointInTexts DEF ModelsPoint
<1> QED BY <1>2, <1>3

-----------------------------------------------------------------------------
(* Trees: the elements inside an element, the body among them as 0.          *)
Depth(pg, i) == IF i = 0 THEN 0 ELSE pg[i].depth
Within(pg, i) == {j \in i + 1..Len(pg) : \A k \in i + 1..j : pg[k].depth > Depth(pg, i)}

(* Every element is at most one deeper than the one before it.               *)
Nested(pg) ==
    /\ pg \in Seq(Elements)
    /\ \A i \in 1..Len(pg) : pg[i].depth \in 1..Depth(pg, i - 1) + 1

(* What is within an element, in the words of the model.                     *)
LEMMA WithinFacts ==
    ASSUME NEW pg, Nested(pg), NEW i \in 0..Len(pg)
    PROVE  /\ pg \in Seq(Elements) /\ Len(pg) \in Nat /\ DOMAIN pg = 1..Len(pg)
           /\ Within(pg, i) = IF i = 0 THEN DOMAIN pg ELSE Below(pg, i)
           /\ Within(pg, i) \in SUBSET (i + 1..Len(pg))
           /\ ChildSet(pg, i) = {j \in Within(pg, i) : pg[j].depth = Depth(pg, i) + 1}
           /\ Depth(pg, i) \in Nat /\ \A j \in 1..Len(pg) : pg[j].depth \in Nat
<1>1. pg \in Seq(Elements) /\ Len(pg) \in Nat /\ DOMAIN pg = 1..Len(pg)
      BY DEF Nested
<1>2. ASSUME NEW j \in 1..Len(pg) PROVE pg[j].depth \in Nat
  <2>1. pg[j] \in Elements
        BY <1>1
  <2> QED BY <2>1 DEF Elements
<1>3. \A j \in 1..Len(pg) : pg[j].depth > 0
      BY <1>1, <1>2 DEF Nested
<1>4. CASE i = 0
      BY <1>1, <1>2, <1>3, <1>4 DEF Within, Depth, ChildSet
<1>5. CASE i # 0
      BY <1>1, <1>2, <1>5 DEF Within, Depth, ChildSet, Below
<1> QED BY <1>1, <1>2, <1>4, <1>5

(* What is inside something inside an element is inside the element.         *)
LEMMA WithinWithin ==
    ASSUME NEW pg, Nested(pg), NEW i \in 0..Len(pg), NEW j \in Within(pg, i), NEW k \in Within(pg, j)
    PROVE  k \in Within(pg, i)
<1>1. (\A m \in 1..Len(pg) : pg[m].depth \in Nat) /\ Len(pg) \in Nat
      BY WithinFacts
<1>2. j \in i + 1..Len(pg) /\ k \in j + 1..Len(pg) /\ Depth(pg, i) \in Nat
      BY WithinFacts, j \in 0..Len(pg) DEF Within
<1>3. Depth(pg, j) = pg[j].depth /\ pg[j].depth > Depth(pg, i)
      BY <1>2 DEF Depth, Within
<1>4. ASSUME NEW m \in i + 1..k PROVE pg[m].depth > Depth(pg, i)
  <2>1. CASE m <= j
        BY <1>2, <2>1 DEF Within
  <2>2. CASE m > j
    <3>1. m \in j + 1..k /\ m \in 1..Len(pg) /\ j \in 1..Len(pg)
          BY <1>2, <2>2
    <3>2. pg[m].depth > pg[j].depth
          BY <1>3, <3>1 DEF Within
    <3> QED BY <1>1, <1>2, <1>3, <3>1, <3>2
  <2> QED BY <1>2, <2>1, <2>2
<1> QED BY <1>2, <1>4 DEF Within

(* Two elements with something in common inside them are one in the other.   *)
LEMMA WithinChain ==
    ASSUME NEW pg, Nested(pg), NEW i \in 0..Len(pg), NEW j \in 0..Len(pg), i < j,
           NEW k \in Within(pg, i), k = j \/ k \in Within(pg, j)
    PROVE  j \in Within(pg, i)
<1>1. k \in j..Len(pg)
      BY WithinFacts
<1>2. j \in i + 1..k
      BY <1>1
<1> QED BY <1>1, <1>2 DEF Within

(* Children are not inside one another, and an element is in one of them.    *)
LEMMA ChildrenApart ==
    ASSUME NEW pg, Nested(pg), NEW i \in 0..Len(pg),
           NEW j \in ChildSet(pg, i), NEW k \in ChildSet(pg, i), j < k
    PROVE  /\ k \notin Within(pg, j)
           /\ \A x \in Within(pg, j) : x < k
<1>1. /\ j \in i + 1..Len(pg) /\ k \in i + 1..Len(pg)
      /\ pg[j].depth = Depth(pg, i) + 1 /\ pg[k].depth = Depth(pg, i) + 1 /\ Depth(pg, i) \in Nat
      BY WithinFacts
<1>2. Depth(pg, j) = pg[j].depth
      BY <1>1 DEF Depth
<1>3. k \notin Within(pg, j)
  <2>1. k \in j + 1..k
        BY <1>1
  <2> QED BY <1>1, <1>2, <2>1 DEF Within
<1>4. ASSUME NEW x \in Within(pg, j), ~ (x < k) PROVE FALSE
  <2>1. x \in j + 1..Len(pg)
        BY <1>1, WithinFacts
  <2>2. k \in j + 1..x
        BY <1>1, <1>4, <2>1
  <2> QED BY <1>1, <1>2, <2>2 DEF Within
<1>5. \A x \in Within(pg, j) : x \in Nat /\ k \in Nat
      BY <1>1, WithinFacts
<1> QED BY <1>3, <1>4

(* What is within an element is a child of it or within one.                 *)
LEMMA ChildOver ==
    ASSUME NEW pg, Nested(pg), NEW i \in 0..Len(pg), NEW x \in Within(pg, i)
    PROVE  \E k \in ChildSet(pg, i) : x = k \/ x \in Within(pg, k)
<1>1. /\ x \in i + 1..Len(pg) /\ Depth(pg, i) \in Nat
      /\ \A k \in i + 1..x : pg[k].depth > Depth(pg, i)
      /\ \A m \in 1..Len(pg) : pg[m].depth \in Nat
  <2>1. /\ Depth(pg, i) \in Nat /\ \A m \in 1..Len(pg) : pg[m].depth \in Nat
        /\ x \in i + 1..Len(pg)
        BY WithinFacts
  <2> QED BY <2>1 DEF Within
<1> DEFINE S == {k \in i + 1..x : pg[k].depth = Depth(pg, i) + 1}
<1>2. i + 1 \in S
  <2>1. i + 1 \in i + 1..x /\ i + 1 \in 1..Len(pg) /\ (i + 1) - 1 = i
        BY <1>1
  <2>2. pg[i + 1].depth <= Depth(pg, i) + 1
        BY <1>1, <2>1 DEF Nested
  <2>3. pg[i + 1].depth > Depth(pg, i) /\ pg[i + 1].depth \in Nat
        BY <1>1, <2>1
  <2> QED BY <1>1, <2>1, <2>2, <2>3
<1>3. S \in SUBSET Nat /\ \A y \in S : y <= x
      BY <1>1
<1>4. PICK k \in S : \A y \in S : y <= k
  <2> DEFINE T == {x - y : y \in S}
  <2>1. T \in SUBSET Nat /\ T # {}
        BY <1>1, <1>2, <1>3
  <2>2. PICK t \in T : \A u \in T : t <= u
        BY <2>1, FirstExists
  <2>3. PICK k \in S : t = x - k
        BY <2>2
  <2>4. \A y \in S : x - k <= x - y
        BY <2>2, <2>3
  <2>5. \A y \in S : y <= k
    <3> HIDE DEF S
    <3> QED BY <1>1, <1>3, <2>3, <2>4
  <2> QED BY <2>3, <2>5
<1>5. k \in i + 1..x /\ k \in i + 1..Len(pg) /\ pg[k].depth = Depth(pg, i) + 1
      BY <1>1
<1>6. k \in ChildSet(pg, i)
  <2>1. k \in Within(pg, i)
        BY <1>1, <1>5 DEF Within
  <2> QED BY <1>5, <2>1, WithinFacts
<1>7. CASE x = k
      BY <1>6, <1>7
<1>8. CASE x # k
  <2>1. ASSUME NEW m \in k + 1..x PROVE pg[m].depth > Depth(pg, k)
    <3>1. m \in i + 1..x /\ m \in 1..Len(pg) /\ m > k /\ k # 0
          BY <1>1, <1>5
    <3>2. m \notin S
          BY <1>1, <1>4, <1>5, <3>1
    <3>3. pg[m].depth > Depth(pg, i) /\ pg[m].depth # Depth(pg, i) + 1 /\ pg[m].depth \in Nat
          BY <1>1, <3>1, <3>2
    <3> QED BY <1>1, <1>5, <3>1, <3>3 DEF Depth
  <2>2. x \in k + 1..Len(pg)
        BY <1>1, <1>5, <1>8
  <2>3. x \in Within(pg, k)
        BY <2>1, <2>2 DEF Within
  <2> QED BY <1>6, <2>3
<1> QED BY <1>7, <1>8

(* The places of a concatenation are those of its two parts.                 *)
LEMMA ConcatFacts ==
    ASSUME NEW X, NEW s \in Seq(X), NEW t \in Seq(X)
    PROVE  /\ s \o t \in Seq(X) /\ Len(s \o t) = Len(s) + Len(t)
           /\ \A n \in DOMAIN s : n \in DOMAIN (s \o t) /\ (s \o t)[n] = s[n]
           /\ \A n \in DOMAIN t : Len(s) + n \in DOMAIN (s \o t) /\ (s \o t)[Len(s) + n] = t[n]
           /\ \A n \in DOMAIN (s \o t) : \/ n \in DOMAIN s
                                         \/ n > Len(s) /\ n - Len(s) \in DOMAIN t
           /\ \A n \in DOMAIN (s \o t) :
                 (s \o t)[n] = IF n \in DOMAIN s THEN s[n] ELSE t[n - Len(s)]
<1>1. /\ s \o t \in Seq(X) /\ Len(s \o t) = Len(s) + Len(t)
      /\ \A n \in 1..Len(s) + Len(t) : (s \o t)[n] = IF n <= Len(s) THEN s[n] ELSE t[n - Len(s)]
      /\ DOMAIN s = 1..Len(s) /\ DOMAIN t = 1..Len(t) /\ DOMAIN (s \o t) = 1..Len(s) + Len(t)
      /\ Len(s) \in Nat /\ Len(t) \in Nat
      OBVIOUS
<1> QED BY <1>1

-----------------------------------------------------------------------------
(* What the walk over a part of a page makes of it                           *)

(* Nothing around an element in the part keeps the walk from it.             *)
Heard(pg, R, k) ==
    /\ pg[k].tag # "dropped"
    /\ \A j \in R : k \in Within(pg, j) => pg[j].tag \notin BlockTags \cup {"dropped"}

Sound(pg, R, f, b) ==
    /\ b.node \in R /\ Made(pg, b) /\ pg[b.node].tag # "dropped"
    /\ f => b.chrome
    /\ \A j \in R : b.node \in Within(pg, j) => pg[j].tag \notin BlockTags
    /\ \A j \in R : /\ b.node = j \/ b.node \in Within(pg, j)
                    /\ pg[j].tag \in ChromeContainers
                    => b.chrome

Walked(pg, R, f, s) ==
    /\ s \in Seq(Blocks)
    /\ \A n \in DOMAIN s : Sound(pg, R, f, s[n])
    /\ \A m, n \in DOMAIN s : m < n =>
          /\ s[m].node # s[n].node
          /\ pg[s[n].node].tag \in BlockTags => s[m].node < s[n].node
    /\ \A k \in R : Heard(pg, R, k) /\ Speaks(pg, k) => \E n \in DOMAIN s : s[n].node = k

(* The walks over two parts, neither inside the other.                       *)
LEMMA JoinWalked ==
    ASSUME NEW pg, Nested(pg), NEW R \in SUBSET (1..Len(pg)), NEW Q \in SUBSET (1..Len(pg)),
           \A x \in R, y \in Q : x < y /\ y \notin Within(pg, x),
           NEW f, NEW s, NEW t, Walked(pg, R, f, s), Walked(pg, Q, f, t)
    PROVE  Walked(pg, R \cup Q, f, s \o t)
<1>1. s \in Seq(Blocks) /\ t \in Seq(Blocks) /\ Len(s) \in Nat /\ Len(t) \in Nat
      /\ DOMAIN s = 1..Len(s) /\ DOMAIN t = 1..Len(t)
      BY DEF Walked
<1>2. /\ s \o t \in Seq(Blocks)
      /\ \A n \in DOMAIN s : n \in DOMAIN (s \o t) /\ (s \o t)[n] = s[n]
      /\ \A n \in DOMAIN t : Len(s) + n \in DOMAIN (s \o t) /\ (s \o t)[Len(s) + n] = t[n]
      /\ \A n \in DOMAIN (s \o t) : n \in DOMAIN s \/ (n > Len(s) /\ n - Len(s) \in DOMAIN t)
      /\ \A n \in DOMAIN (s \o t) : (s \o t)[n] = IF n \in DOMAIN s THEN s[n] ELSE t[n - Len(s)]
      BY <1>1, ConcatFacts
<1>3. ASSUME NEW x \in R, NEW y \in Q PROVE x < y /\ x # y /\ y \notin Within(pg, x) /\ x \notin Within(pg, y)
  <2>1. y \in 0..Len(pg) /\ x \in Nat /\ y \in Nat
    <3>1. x \in 1..Len(pg) /\ y \in 1..Len(pg)
          OBVIOUS
    <3> QED BY <3>1
  <2>2. Within(pg, y) \in SUBSET (y + 1..Len(pg)) /\ Len(pg) \in Nat
        BY <2>1, WithinFacts
  <2>3. x \notin Within(pg, y)
    <3>1. x < y
          OBVIOUS
    <3>2. x \notin y + 1..Len(pg)
          BY <2>1, <2>2, <3>1
    <3> QED BY <2>2, <3>2
  <2>4. x < y
        OBVIOUS
  <2> QED BY <2>1, <2>3, <2>4
<1>4. ASSUME NEW b, Sound(pg, R, f, b) PROVE Sound(pg, R \cup Q, f, b)
  <2>1. \A j \in Q : b.node # j /\ b.node \notin Within(pg, j)
        BY <1>3, <1>4 DEF Sound
  <2> QED BY <1>4, <2>1 DEF Sound
<1>5. ASSUME NEW b, Sound(pg, Q, f, b) PROVE Sound(pg, R \cup Q, f, b)
  <2>1. \A j \in R : b.node # j /\ b.node \notin Within(pg, j)
        BY <1>3, <1>5 DEF Sound
  <2> QED BY <1>5, <2>1 DEF Sound
<1>6. \A n \in DOMAIN s : Sound(pg, R, f, s[n]) /\ s[n].node \in R
      BY DEF Walked, Sound
<1>7. \A n \in DOMAIN t : Sound(pg, Q, f, t[n]) /\ t[n].node \in Q
      BY DEF Walked, Sound
<1>8. ASSUME NEW n \in DOMAIN (s \o t) PROVE Sound(pg, R \cup Q, f, (s \o t)[n])
  <2>1. CASE n \in DOMAIN s
        BY <1>2, <1>4, <1>6, <2>1
  <2>2. CASE n \notin DOMAIN s
        BY <1>2, <1>5, <1>7, <2>2
  <2> QED BY <2>1, <2>2
<1>9. ASSUME NEW m \in DOMAIN (s \o t), NEW n \in DOMAIN (s \o t), m < n
      PROVE  /\ (s \o t)[m].node # (s \o t)[n].node
             /\ pg[(s \o t)[n].node].tag \in BlockTags => (s \o t)[m].node < (s \o t)[n].node
  <2>1. CASE n \in DOMAIN s
    <3>1. m \in DOMAIN s
      <4>1. m \in 1..Len(s \o t) /\ n \in 1..Len(s)
            BY <1>1, <1>2, <2>1
      <4> QED BY <1>1, <1>9, <4>1
    <3> QED BY <1>2, <1>9, <2>1, <3>1 DEF Walked
  <2>2. CASE m \in DOMAIN s /\ n \notin DOMAIN s
    <3>1. (s \o t)[m].node \in R /\ (s \o t)[n].node \in Q
          BY <1>2, <1>6, <1>7, <2>2
    <3>2. (s \o t)[m].node < (s \o t)[n].node
          BY <1>3, <3>1
    <3>3. (s \o t)[m].node # (s \o t)[n].node
          BY <1>3, <3>1
    <3> QED BY <3>2, <3>3
  <2>3. CASE m \notin DOMAIN s /\ n \notin DOMAIN s
    <3>1. /\ m - Len(s) \in DOMAIN t /\ n - Len(s) \in DOMAIN t
          /\ (s \o t)[m] = t[m - Len(s)] /\ (s \o t)[n] = t[n - Len(s)]
          BY <1>2, <2>3
    <3>2. m - Len(s) < n - Len(s)
      <4>1. m \in Nat /\ n \in Nat
        <5>1. m \in 1..Len(s \o t) /\ n \in 1..Len(s \o t) /\ Len(s \o t) \in Nat
              BY <1>2
        <5> QED BY <5>1
      <4> QED BY <1>1, <1>9, <4>1
    <3> QED BY <3>1, <3>2 DEF Walked
  <2>4. m \in DOMAIN s \/ n \notin DOMAIN s \/ n \in DOMAIN s
        OBVIOUS
  <2> QED BY <2>1, <2>2, <2>3
<1>10. ASSUME NEW k \in R \cup Q, Heard(pg, R \cup Q, k), Speaks(pg, k)
       PROVE  \E n \in DOMAIN (s \o t) : (s \o t)[n].node = k
  <2>1. CASE k \in R
    <3>1. Heard(pg, R, k)
          BY <1>10 DEF Heard
    <3>2. PICK n \in DOMAIN s : s[n].node = k
          BY <1>10, <2>1, <3>1 DEF Walked
    <3> QED BY <1>2, <3>2
  <2>2. CASE k \in Q
    <3>1. Heard(pg, Q, k)
          BY <1>10 DEF Heard
    <3>2. PICK n \in DOMAIN t : t[n].node = k
          BY <1>10, <2>2, <3>1 DEF Walked
    <3> QED BY <1>2, <3>2
  <2> QED BY <2>1, <2>2
<1> QED BY <1>2, <1>8, <1>9, <1>10 DEF Walked

Subtree(pg, k) == {k} \cup Within(pg, k)
Subtrees(pg, ks, m) == UNION {Subtree(pg, ks[n]) : n \in 1..m}

(* An element is made of its children and what is within them.               *)
LEMMA PartsFacts ==
    ASSUME NEW pg, Nested(pg), NEW i \in 0..Len(pg)
    PROVE  LET ks == Children(pg, i)
               size == Cardinality(ChildSet(pg, i))
           IN  /\ size \in Nat /\ DOMAIN ks = 1..size
               /\ \A m \in 1..size : ks[m] \in ChildSet(pg, i) /\ ks[m] \in i + 1..Len(pg)
               /\ Subtrees(pg, ks, 0) = {} /\ Subtrees(pg, ks, size) = Within(pg, i)
               /\ \A m \in 1..size :
                     /\ Subtrees(pg, ks, m) = Subtrees(pg, ks, m - 1) \cup Subtree(pg, ks[m])
                     /\ Subtrees(pg, ks, m - 1) \in SUBSET (1..Len(pg))
                     /\ Subtree(pg, ks[m]) \in SUBSET (1..Len(pg))
                     /\ \A x \in Subtrees(pg, ks, m - 1), y \in Subtree(pg, ks[m]) :
                           x < y /\ y \notin Within(pg, x)
<1> DEFINE ks == Children(pg, i)
           size == Cardinality(ChildSet(pg, i))
<1>1. pg \in Seq(Elements) /\ Len(pg) \in Nat /\ Within(pg, i) \in SUBSET (i + 1..Len(pg))
      BY WithinFacts
<1>2. /\ size \in Nat /\ ks \in [1..size -> ChildSet(pg, i)]
      /\ \A n \in DOMAIN ks : ks[n] \in i + 1..Len(pg)
      /\ \A m, n \in DOMAIN ks : m < n => ks[m] < ks[n]
      /\ \A k \in ChildSet(pg, i) : \E n \in DOMAIN ks : ks[n] = k
      BY <1>1, ChildrenFacts
<1> HIDE DEF ks, size
<1>3. DOMAIN ks = 1..size /\ \A m \in 1..size : ks[m] \in ChildSet(pg, i) /\ ks[m] \in i + 1..Len(pg)
      BY <1>2
<1>4. ASSUME NEW m \in 1..size
      PROVE  /\ Subtree(pg, ks[m]) \in SUBSET (1..Len(pg)) /\ Subtree(pg, ks[m]) \in SUBSET Within(pg, i)
             /\ \A y \in Subtree(pg, ks[m]) : ks[m] <= y
  <2>1. ks[m] \in i + 1..Len(pg) /\ ks[m] \in 0..Len(pg) /\ ks[m] \in ChildSet(pg, i)
        BY <1>1, <1>3
  <2>2. ks[m] \in Within(pg, i)
        BY <2>1, WithinFacts
  <2>3. Within(pg, ks[m]) \in SUBSET (ks[m] + 1..Len(pg))
        BY <2>1, WithinFacts
  <2>4. Within(pg, ks[m]) \in SUBSET Within(pg, i)
        BY <2>2, WithinWithin
  <2>5. \A y \in Within(pg, ks[m]) : y \in 1..Len(pg) /\ ks[m] <= y
        BY <1>1, <2>1, <2>3
  <2>6. ks[m] \in 1..Len(pg) /\ ks[m] <= ks[m]
        BY <1>1, <2>1
  <2> QED BY <2>2, <2>4, <2>5, <2>6 DEF Subtree
<1>5. ASSUME NEW m \in 1..size
      PROVE  /\ Subtrees(pg, ks, m) = Subtrees(pg, ks, m - 1) \cup Subtree(pg, ks[m])
             /\ Subtrees(pg, ks, m - 1) \in SUBSET (1..Len(pg))
             /\ \A x \in Subtrees(pg, ks, m - 1), y \in Subtree(pg, ks[m]) :
                   x < y /\ y \notin Within(pg, x)
  <2>1. \A n : n \in 1..m <=> n \in 1..m - 1 \/ n = m
        OBVIOUS
  <2>2. Subtrees(pg, ks, m) = Subtrees(pg, ks, m - 1) \cup Subtree(pg, ks[m])
        BY <2>1 DEF Subtrees
  <2>3. \A n \in 1..m - 1 : n \in 1..size /\ n < m
        BY <1>2
  <2>4. Subtrees(pg, ks, m - 1) \in SUBSET (1..Len(pg))
        BY <1>4, <2>3 DEF Subtrees
  <2>5. ASSUME NEW x \in Subtrees(pg, ks, m - 1), NEW y \in Subtree(pg, ks[m])
        PROVE  x < y /\ y \notin Within(pg, x)
    <3>1. PICK n \in 1..m - 1 : x \in Subtree(pg, ks[n])
          BY DEF Subtrees
    <3>2. n \in 1..size /\ n < m
          BY <2>3
    <3>3. ks[n] < ks[m] /\ ks[n] \in ChildSet(pg, i) /\ ks[m] \in ChildSet(pg, i)
          BY <1>3, <1>2, <3>2
    <3>4. ks[m] \notin Within(pg, ks[n]) /\ \A z \in Within(pg, ks[n]) : z < ks[m]
          BY <3>3, ChildrenApart
    <3>5. x < ks[m] /\ ks[m] <= y
          BY <1>4, <3>1, <3>3, <3>4 DEF Subtree
    <3>6. x \in 1..Len(pg) /\ y \in 1..Len(pg) /\ ks[m] \in 1..Len(pg) /\ ks[n] \in 0..Len(pg)
      <4>1. ks[m] \in i + 1..Len(pg) /\ ks[n] \in i + 1..Len(pg)
            BY <1>3, <3>2
      <4> QED BY <1>1, <1>4, <2>4, <4>1
    <3>7. x < y
          BY <3>5, <3>6
    <3>8. ASSUME y \in Within(pg, x) PROVE FALSE
      <4>1. y \in Within(pg, ks[n])
        <5>1. CASE x = ks[n]
              BY <3>8, <5>1
        <5>2. CASE x \in Within(pg, ks[n])
              BY <3>6, <3>8, <5>2, WithinWithin
        <5> QED BY <3>1, <5>1, <5>2 DEF Subtree
      <4>2. y < ks[m]
            BY <3>4, <4>1
      <4> QED BY <3>5, <3>6, <4>2
    <3> QED BY <3>7, <3>8
  <2> QED BY <2>2, <2>4, <2>5
<1>6. Subtrees(pg, ks, 0) = {}
      BY DEF Subtrees
<1>7. Subtrees(pg, ks, size) = Within(pg, i)
  <2>1. Subtrees(pg, ks, size) \in SUBSET Within(pg, i)
        BY <1>4 DEF Subtrees
  <2>2. ASSUME NEW x \in Within(pg, i) PROVE x \in Subtrees(pg, ks, size)
    <3>1. PICK k \in ChildSet(pg, i) : x = k \/ x \in Within(pg, k)
          BY ChildOver
    <3>2. PICK n \in 1..size : ks[n] = k
          BY <1>2, <1>3
    <3> QED BY <3>1, <3>2 DEF Subtrees, Subtree
  <2> QED BY <2>1, <2>2
<1> QED BY <1>2, <1>3, <1>4, <1>5, <1>6, <1>7 DEF ks, size

(* The walk over the children of an element has all that is within it.       *)
LEMMA WalkedInside ==
    ASSUME NEW pg, Nested(pg), NEW i \in 0..Len(pg), NEW c \in Containers, NEW f \in BOOLEAN,
           \A k \in i + 1..Len(pg) : Walked(pg, Subtree(pg, k), f, Adds(pg, k, c, f))
    PROVE  Walked(pg, Within(pg, i), f,
                  FlattenSeq([n \in DOMAIN Children(pg, i) |-> Adds(pg, Children(pg, i)[n], c, f)]))
<1> DEFINE ks == Children(pg, i)
           size == Cardinality(ChildSet(pg, i))
           parts == [n \in DOMAIN ks |-> Adds(pg, ks[n], c, f)]
           Good == [m \in 0..size |-> {s \in Seq(Blocks) : Walked(pg, Subtrees(pg, ks, m), f, s)}]
<1>1. /\ size \in Nat /\ DOMAIN ks = 1..size
      /\ \A m \in 1..size : ks[m] \in ChildSet(pg, i) /\ ks[m] \in i + 1..Len(pg)
      /\ Subtrees(pg, ks, 0) = {} /\ Subtrees(pg, ks, size) = Within(pg, i)
      /\ \A m \in 1..size :
            /\ Subtrees(pg, ks, m) = Subtrees(pg, ks, m - 1) \cup Subtree(pg, ks[m])
            /\ Subtrees(pg, ks, m - 1) \in SUBSET (1..Len(pg))
            /\ Subtree(pg, ks[m]) \in SUBSET (1..Len(pg))
            /\ \A x \in Subtrees(pg, ks, m - 1), y \in Subtree(pg, ks[m]) :
                  x < y /\ y \notin Within(pg, x)
      BY PartsFacts
<1> HIDE DEF ks, size
<1>2. ASSUME NEW m \in 1..size
      PROVE  parts[m] \in Seq(Blocks) /\ Walked(pg, Subtree(pg, ks[m]), f, parts[m])
  <2>1. Walked(pg, Subtree(pg, ks[m]), f, Adds(pg, ks[m], c, f))
        BY <1>1
  <2>2. parts[m] = Adds(pg, ks[m], c, f)
        BY <1>1
  <2>3. Adds(pg, ks[m], c, f) \in Seq(Blocks)
        BY <2>1 DEF Walked
  <2> HIDE DEF parts
  <2> QED BY <2>1, <2>2, <2>3
<1>3. parts \in [1..size -> Seq(Blocks)]
  <2>1. parts = [m \in 1..size |-> parts[m]]
        BY <1>1
  <2> HIDE DEF parts
  <2> QED BY <1>2, <2>1
<1> HIDE DEF parts
<1>4. <<>> \in Good[0]
  <2>1. <<>> \in Seq(Blocks) /\ DOMAIN <<>> = {}
        OBVIOUS
  <2>2. Walked(pg, Subtrees(pg, ks, 0), f, <<>>)
        BY <1>1, <2>1 DEF Walked
  <2> QED BY <1>1, <2>1, <2>2
<1>5. ASSUME NEW m \in 1..size, NEW s \in Good[m - 1] PROVE s \o parts[m] \in Good[m]
  <2>1. m \in 0..size /\ m - 1 \in 0..size
        BY <1>1
  <2>2. s \in Seq(Blocks) /\ Walked(pg, Subtrees(pg, ks, m - 1), f, s)
        BY <2>1
  <2>3. s \o parts[m] \in Seq(Blocks)
        BY <1>2, <2>2
  <2>4. Walked(pg, Subtrees(pg, ks, m - 1) \cup Subtree(pg, ks[m]), f, s \o parts[m])
        BY <1>1, <1>2, <2>2, JoinWalked
  <2> QED BY <1>1, <2>1, <2>3, <2>4
<1>6. FlattenSeq(parts) \in Good[size]
  <2> HIDE DEF Good
  <2> QED BY <1>1, <1>3, <1>4, <1>5, FlattenInduction
<1>7. size \in 0..size
      BY <1>1
<1> QED BY <1>1, <1>6, <1>7 DEF ks, parts

(* What is sound of the inside of an element is sound of the element.        *)
LEMMA SoundOfPart ==
    ASSUME NEW pg, Nested(pg), NEW k \in 1..Len(pg), NEW f \in BOOLEAN, NEW h \in BOOLEAN,
           f => h, pg[k].tag \in ChromeContainers => h,
           NEW b, \/ Sound(pg, Within(pg, k), h, b) /\ pg[k].tag \notin BlockTags
                  \/ b.node = k /\ Made(pg, b) /\ b.chrome = h /\ pg[k].tag # "dropped"
    PROVE  Sound(pg, Subtree(pg, k), f, b)
<1>1. k \in 0..Len(pg) /\ Len(pg) \in Nat
      BY WithinFacts DEF Nested
<1>2. Within(pg, k) \in SUBSET (k + 1..Len(pg))
      BY <1>1, WithinFacts
<1>3. ASSUME NEW j \in Subtree(pg, k) PROVE k \notin Within(pg, j)
  <2>1. j \in k..Len(pg) /\ j \in 0..Len(pg)
        BY <1>1, <1>2 DEF Subtree
  <2>2. Within(pg, j) \in SUBSET (j + 1..Len(pg))
        BY <2>1, WithinFacts
  <2>3. k \notin j + 1..Len(pg)
        BY <1>1, <2>1
  <2> QED BY <2>2, <2>3
<1>4. CASE Sound(pg, Within(pg, k), h, b) /\ pg[k].tag \notin BlockTags
      BY <1>4 DEF Sound, Subtree
<1>5. CASE b.node = k /\ Made(pg, b) /\ b.chrome = h /\ pg[k].tag # "dropped"
  <2>1. k \in Subtree(pg, k)
        BY DEF Subtree
  <2>2. ASSUME NEW j \in Subtree(pg, k), b.node = j \/ b.node \in Within(pg, j) PROVE j = k
        BY <1>3, <1>5, <2>2
  <2> QED BY <1>3, <1>5, <2>1, <2>2 DEF Sound
<1> QED BY <1>4, <1>5

(* An element whose tag makes a block is all in that block.                  *)
LEMMA OneBlockWalked ==
    ASSUME NEW pg, Nested(pg), NEW k \in 1..Len(pg), NEW f,
           NEW b \in Blocks, Sound(pg, Subtree(pg, k), f, b), b.node = k,
           pg[k].tag \in BlockTags
    PROVE  Walked(pg, Subtree(pg, k), f, <<b>>)
<1>1. <<b>> \in Seq(Blocks) /\ DOMAIN <<b>> = {1} /\ <<b>>[1] = b
      OBVIOUS
<1>2. k \in Subtree(pg, k)
      BY DEF Subtree
<1>3. ASSUME NEW x \in Subtree(pg, k), Heard(pg, Subtree(pg, k), x) PROVE x = k
      BY <1>2, <1>3 DEF Heard, Subtree
<1> QED BY <1>1, <1>3 DEF Walked

(* An element of no block adds its bare text, after all that is inside it.   *)
LEMMA BareWalked ==
    ASSUME NEW pg, Nested(pg), NEW k \in 1..Len(pg), NEW c \in Places,
           NEW f \in BOOLEAN, NEW h \in BOOLEAN, f => h, pg[k].tag \in ChromeContainers => h,
           pg[k].tag \notin BlockTags \cup {"dropped"}, NEW s, Walked(pg, Within(pg, k), h, s)
    PROVE  Walked(pg, Subtree(pg, k), f, s \o DirectText(pg, k, c, h))
<1> DEFINE t == DirectText(pg, k, c, h)
<1>1. s \in Seq(Blocks) /\ pg \in Seq(Elements) /\ k \in 0..Len(pg) /\ k # 0 /\ Len(pg) \in Nat
      BY DEF Walked, Nested
<1>2. Within(pg, k) \in SUBSET (k + 1..Len(pg)) /\ k \notin Within(pg, k)
  <2>1. Within(pg, k) \in SUBSET (k + 1..Len(pg))
        BY <1>1, WithinFacts
  <2>2. k \notin k + 1..Len(pg)
        BY <1>1
  <2> QED BY <2>1, <2>2
<1>3. ASSUME NEW n \in DOMAIN s
      PROVE  Sound(pg, Subtree(pg, k), f, s[n]) /\ s[n].node \in Within(pg, k)
  <2>1. Sound(pg, Within(pg, k), h, s[n])
        BY DEF Walked
  <2> QED BY <2>1, SoundOfPart DEF Sound
<1>4. ASSUME NEW x \in Subtree(pg, k), Heard(pg, Subtree(pg, k), x), Speaks(pg, x), x # k
      PROVE  \E n \in DOMAIN s : s[n].node = x
  <2>1. x \in Within(pg, k) /\ Heard(pg, Within(pg, k), x)
        BY <1>4 DEF Heard, Subtree
  <2> QED BY <1>4, <2>1 DEF Walked
<1>5. CASE ~pg[k].text
  <2>1. t = <<>>
        BY <1>1, <1>5, DirectTextFacts
  <2>2. s \o t = s
    <3> HIDE DEF t
    <3> QED BY <1>1, <2>1
  <2>3. ~Speaks(pg, k)
        BY <1>5 DEF Speaks
  <2>4. Walked(pg, Subtree(pg, k), f, s)
    <3>1. \A m, n \in DOMAIN s : m < n =>
             /\ s[m].node # s[n].node
             /\ pg[s[n].node].tag \in BlockTags => s[m].node < s[n].node
          BY DEF Walked
    <3> QED BY <1>1, <1>3, <1>4, <2>3, <3>1 DEF Walked
  <2> QED BY <2>2, <2>4
<1>6. CASE pg[k].text
  <2>1. PICK b \in Blocks : /\ t = <<b>> /\ b.node = k /\ b.chrome = h /\ b.kind = "paragraph"
                            /\ b.text = BareText(pg, k) /\ b.items = <<>> /\ b.table = NoTable
        BY <1>1, <1>6, DirectTextFacts
  <2> HIDE DEF t
  <2>2. t \in Seq(Blocks) /\ DOMAIN t = {1} /\ t[1] = b
        BY <2>1
  <2>3. Made(pg, b)
    <3>1. HeadingTags \subseteq BlockTags /\ Lists \subseteq BlockTags /\ "table" \in BlockTags
          BY DEF BlockTags, Lists
    <3> QED BY <1>6, <2>1, <3>1 DEF Made
  <2>4. Sound(pg, Subtree(pg, k), f, b)
        BY <2>1, <2>3, SoundOfPart
  <2>5. /\ s \o t \in Seq(Blocks)
        /\ \A n \in DOMAIN s : n \in DOMAIN (s \o t) /\ (s \o t)[n] = s[n]
        /\ \A n \in DOMAIN t : Len(s) + n \in DOMAIN (s \o t) /\ (s \o t)[Len(s) + n] = t[n]
        /\ \A n \in DOMAIN (s \o t) : n \in DOMAIN s \/ (n > Len(s) /\ n - Len(s) \in DOMAIN t)
        /\ \A n \in DOMAIN (s \o t) : (s \o t)[n] = IF n \in DOMAIN s THEN s[n] ELSE t[n - Len(s)]
        BY <1>1, <2>2, ConcatFacts
  <2>6. \A n \in DOMAIN (s \o t) : n \in DOMAIN s \/ (n = Len(s) + 1 /\ (s \o t)[n] = b)
    <3>1. ASSUME NEW n \in DOMAIN (s \o t), n \notin DOMAIN s
          PROVE  n = Len(s) + 1 /\ (s \o t)[n] = b
      <4>1. n - Len(s) = 1 /\ n \in Nat /\ Len(s) \in Nat
            BY <1>1, <2>2, <2>5, <3>1
      <4> QED BY <2>2, <2>5, <3>1, <4>1
    <3> QED BY <3>1
  <2>7. \A n \in DOMAIN (s \o t) : Sound(pg, Subtree(pg, k), f, (s \o t)[n])
        BY <1>3, <2>4, <2>5, <2>6
  <2>8. ASSUME NEW m \in DOMAIN (s \o t), NEW n \in DOMAIN (s \o t), m < n
        PROVE  /\ (s \o t)[m].node # (s \o t)[n].node
               /\ pg[(s \o t)[n].node].tag \in BlockTags => (s \o t)[m].node < (s \o t)[n].node
    <3>1. m \in DOMAIN s
      <4>1. m \in 1..Len(s \o t) /\ n \in 1..Len(s \o t) /\ Len(s) \in Nat /\ DOMAIN s = 1..Len(s)
            BY <1>1, <2>5
      <4>2. n <= Len(s) + 1
            BY <2>6, <4>1
      <4> QED BY <2>8, <4>1, <4>2
    <3>2. CASE n \in DOMAIN s
          BY <2>5, <2>8, <3>1, <3>2 DEF Walked
    <3>3. CASE n \notin DOMAIN s
      <4>1. (s \o t)[n].node = k /\ (s \o t)[m].node \in Within(pg, k)
            BY <1>3, <2>1, <2>5, <2>6, <3>1, <3>3
      <4> QED BY <1>2, <4>1
    <3> QED BY <3>2, <3>3
  <2>9. ASSUME NEW x \in Subtree(pg, k), Heard(pg, Subtree(pg, k), x), Speaks(pg, x)
        PROVE  \E n \in DOMAIN (s \o t) : (s \o t)[n].node = x
    <3>1. CASE x = k
          BY <2>1, <2>2, <2>5, <3>1
    <3>2. CASE x # k
      <4>1. PICK n \in DOMAIN s : s[n].node = x
            BY <1>4, <2>9, <3>2
      <4> QED BY <2>5, <4>1
    <3> QED BY <3>1, <3>2
  <2>10. Walked(pg, Subtree(pg, k), f, s \o t)
        BY <2>5, <2>7, <2>8, <2>9 DEF Walked
  <2> QED BY <2>10 DEF t
<1> QED BY <1>1, <1>5, <1>6

(* The walk from an element on.                                              *)
LEMMA AddsWalked ==
    ASSUME NEW pg, Nested(pg)
    PROVE  \A k \in 1..Len(pg) : \A c \in Containers, f \in BOOLEAN :
              Walked(pg, Subtree(pg, k), f, Adds(pg, k, c, f))
<1> DEFINE n == Len(pg)
           G == {k \in 0..n : k = 0 \/ \A c \in Containers, f \in BOOLEAN :
                                          Walked(pg, Subtree(pg, k), f, Adds(pg, k, c, f))}
<1>1. n \in Nat /\ pg \in Seq(Elements)
      BY DEF Nested
<1>2. ASSUME NEW k \in 1..n, NEW c \in Containers, NEW f \in BOOLEAN,
             \A j \in k + 1..n : \A x \in Containers, y \in BOOLEAN :
                Walked(pg, Subtree(pg, j), y, Adds(pg, j, x, y))
      PROVE  Walked(pg, Subtree(pg, k), f, Adds(pg, k, c, f))
  <2> DEFINE here == Here(pg, k, c)
             h == Inside(pg, k, f)
  <2>1. k \in 1..Len(pg) /\ k \in 0..Len(pg)
        BY <1>1
  <2>2. here \in Containers /\ h \in BOOLEAN /\ here \in Places
        BY <1>1, HereType DEF Places
  <2>3. (f => h) /\ (pg[k].tag \in ChromeContainers => h)
        BY DEF Inside
  <2>4. CASE pg[k].tag = "dropped"
    <3>1. Adds(pg, k, c, f) = <<>>
          BY <2>4 DEF Adds
    <3>2. ASSUME NEW x \in Subtree(pg, k) PROVE ~Heard(pg, Subtree(pg, k), x)
      <4>1. k \in Subtree(pg, k)
            BY DEF Subtree
      <4>2. x = k \/ x \in Within(pg, k)
            BY DEF Subtree
      <4> QED BY <2>4, <4>1, <4>2 DEF Heard
    <3>3. <<>> \in Seq(Blocks) /\ DOMAIN <<>> = {}
          OBVIOUS
    <3>4. Walked(pg, Subtree(pg, k), f, <<>>)
          BY <3>2, <3>3 DEF Walked
    <3> QED BY <3>1, <3>4
  <2>5. CASE pg[k].tag # "dropped" /\ pg[k].tag \in BlockTags
    <3> HIDE DEF here, h
    <3>1. CASE Adds(pg, k, c, f) = <<>> /\ ~Speaks(pg, k)
      <4>1. <<>> \in Seq(Blocks) /\ DOMAIN <<>> = {}
            OBVIOUS
      <4>2. ASSUME NEW x \in Subtree(pg, k), Heard(pg, Subtree(pg, k), x) PROVE x = k
        <5>1. k \in Subtree(pg, k)
              BY DEF Subtree
        <5> QED BY <2>5, <4>2, <5>1 DEF Heard, Subtree
      <4>3. Walked(pg, Subtree(pg, k), f, <<>>)
            BY <3>1, <4>1, <4>2 DEF Walked
      <4> QED BY <3>1, <4>3
    <3>2. CASE ~ (Adds(pg, k, c, f) = <<>> /\ ~Speaks(pg, k))
      <4>1. PICK b \in Blocks : Adds(pg, k, c, f) = <<b>> /\ Placed(b, pg, k, here, h)
            BY <1>1, <2>1, <2>5, <3>2, AddsPlaces DEF here, h
      <4>2. b.node = k /\ Made(pg, b) /\ b.chrome = h
            BY <4>1 DEF Placed
      <4>3. Sound(pg, Subtree(pg, k), f, b)
            BY <2>1, <2>2, <2>3, <2>5, <4>2, SoundOfPart
      <4> QED BY <2>1, <2>5, <4>1, <4>2, <4>3, OneBlockWalked
    <3> QED BY <3>1, <3>2
  <2>6. CASE pg[k].tag # "dropped" /\ pg[k].tag \notin BlockTags
    <3> HIDE DEF here, h
    <3>1. \A j \in k + 1..Len(pg) : Walked(pg, Subtree(pg, j), h, Adds(pg, j, here, h))
          BY <1>2, <2>2
    <3> DEFINE s == FlattenSeq([m \in DOMAIN Children(pg, k) |-> Adds(pg, Children(pg, k)[m], here, h)])
    <3>2. Walked(pg, Within(pg, k), h, s)
          BY <2>1, <2>2, <3>1, WalkedInside
    <3>3. Adds(pg, k, c, f) = Walk(pg, k, here, h)
          BY <2>6 DEF Adds, here, h
    <3>4. Walk(pg, k, here, h) = s \o DirectText(pg, k, here, h)
          BY <1>1, <2>1, <2>2, WalkSteps
    <3> HIDE DEF s
    <3>5. Walked(pg, Subtree(pg, k), f, s \o DirectText(pg, k, here, h))
          BY <2>1, <2>2, <2>3, <2>6, <3>2, BareWalked
    <3> QED BY <3>3, <3>4, <3>5
  <2> QED BY <2>4, <2>5, <2>6
<1>3. ASSUME NEW k \in 0..n, \A j \in k + 1..n : j \in G PROVE k \in G
  <2>1. \A j \in k + 1..n : j # 0 /\ j \in 0..n
        BY <1>1
  <2>2. \A j \in k + 1..n : \A x \in Containers, y \in BOOLEAN :
           Walked(pg, Subtree(pg, j), y, Adds(pg, j, x, y))
        BY <1>3, <2>1
  <2>3. k # 0 => k \in 1..n
        BY <1>1
  <2>4. k # 0 => \A c \in Containers, f \in BOOLEAN : Walked(pg, Subtree(pg, k), f, Adds(pg, k, c, f))
    <3> HIDE DEF n, G
    <3> QED BY <1>2, <2>2, <2>3
  <2> QED BY <2>4
<1>4. \A k \in 0..n : k \in G
  <2> HIDE DEF G, n
  <2> QED BY <1>1, <1>3, DownInduction
<1>5. \A k \in 1..n : k \in 0..n /\ k # 0
      BY <1>1
<1> QED BY <1>4, <1>5

(* The document of a page.                                                   *)
LEMMA PageWalked ==
    ASSUME NEW pg, Nested(pg)
    PROVE  Walked(pg, DOMAIN pg, FALSE, Walk(pg, 0, "none", FALSE))
<1>1. 0 \in 0..Len(pg) /\ "none" \in Containers /\ FALSE \in BOOLEAN /\ pg \in Seq(Elements)
      BY DEF Containers, Nested
<1> DEFINE s == FlattenSeq([m \in DOMAIN Children(pg, 0) |-> Adds(pg, Children(pg, 0)[m], "none", FALSE)])
<1>2. ASSUME NEW k \in 0 + 1..Len(pg)
      PROVE  Walked(pg, Subtree(pg, k), FALSE, Adds(pg, k, "none", FALSE))
  <2>1. k \in 1..Len(pg)
        OBVIOUS
  <2>2. \A c \in Containers, f \in BOOLEAN : Walked(pg, Subtree(pg, k), f, Adds(pg, k, c, f))
        BY <2>1, AddsWalked
  <2> QED BY <1>1, <2>2
<1>3. Walked(pg, Within(pg, 0), FALSE, s)
      BY <1>1, <1>2, WalkedInside
<1>4. Walk(pg, 0, "none", FALSE) = s \o DirectText(pg, 0, "none", FALSE)
      BY <1>1, WalkSteps
<1>5. DirectText(pg, 0, "none", FALSE) = <<>>
      BY DEF DirectText
<1> HIDE DEF s
<1>6. s \o DirectText(pg, 0, "none", FALSE) = s
  <2>1. s \in Seq(Blocks)
        BY <1>3 DEF Walked
  <2> DEFINE t == DirectText(pg, 0, "none", FALSE)
  <2>2. t = <<>>
        BY <1>5
  <2> HIDE DEF t
  <2>3. s \o t = s
        BY <2>1, <2>2
  <2> QED BY <2>3 DEF t
<1>7. Within(pg, 0) = DOMAIN pg
      BY <1>1, WithinFacts
<1> QED BY <1>3, <1>4, <1>6, <1>7

Tag(pg, i) == IF i = 0 THEN "body" ELSE pg[i].tag

(* A page of some tags: nested, and each element where the parser puts it.   *)
Legal(pg, tags) ==
    /\ Nested(pg)
    /\ \A i \in 1..Len(pg) : pg[i].tag \in tags /\ pg[i].text \in TextOptions(pg[i].tag)
    /\ \A i \in 0..Len(pg) : \A k \in ChildSet(pg, i) : pg[k].tag \in MayHold(Tag(pg, i), tags)

LEMMA ElementFacts ==
    ASSUME NEW tags \in SUBSET Tags, NEW nodes \in Nat, NEW e \in PageElements(tags, nodes)
    PROVE  /\ e \in Elements /\ e.tag \in tags /\ e.depth \in 1..nodes
           /\ e.text \in TextOptions(e.tag)
<1>1. PICK t \in tags : e \in {Element(t, d, x) : d \in 1..nodes, x \in TextOptions(t)}
      BY DEF PageElements
<1>2. PICK d \in 1..nodes, x \in TextOptions(t) : e = Element(t, d, x)
      BY <1>1
<1>3. TextOptions(t) \in SUBSET BOOLEAN
      BY DEF TextOptions
<1>4. e.tag = t /\ e.depth = d /\ e.text = x
      BY <1>2 DEF Element
<1>5. e \in Elements
  <2>1. t \in Tags /\ d \in Nat /\ x \in BOOLEAN
        BY <1>3
  <2> QED BY <1>2, <2>1 DEF Element, Elements
<1> QED BY <1>4, <1>5

(* A page that goes on with an element stays legal, ...                      *)
LEMMA LegalAppend ==
    ASSUME NEW tags \in SUBSET Tags, NEW nodes \in Nat, NEW q, Legal(q, tags),
           NEW e \in PageElements(tags, nodes), GoesOn(q, e, tags)
    PROVE  Legal(Append(q, e), tags)
<1> DEFINE pg == Append(q, e)
           n == Len(q)
<1>1. /\ e \in Elements /\ e.tag \in tags /\ e.depth \in 1..nodes
      /\ e.text \in TextOptions(e.tag)
      BY ElementFacts
<1>2. q \in Seq(Elements) /\ n \in Nat /\ DOMAIN q = 1..n
      BY DEF Legal, Nested
<1>3. /\ pg \in Seq(Elements) /\ Len(pg) = n + 1 /\ DOMAIN pg = 1..n + 1
      /\ \A i \in 1..n : pg[i] = q[i]
      /\ pg[n + 1] = e
      BY <1>1, <1>2
<1> HIDE DEF pg, n
<1>4. \A i \in 0..n : Depth(pg, i) = Depth(q, i)
      BY <1>2, <1>3 DEF Depth
<1>5. e.depth \in 1..Depth(q, n) + 1
  <2>1. e.depth <= 1 + (IF q = <<>> THEN 0 ELSE Last(q).depth)
        BY DEF GoesOn
  <2>2. CASE n = 0
    <3>1. q = <<>>
          BY <1>2, <2>2 DEF n
    <3> QED BY <1>1, <2>1, <2>2, <3>1 DEF Depth
  <2>3. CASE n # 0
    <3>1. q # <<>> /\ Last(q) = q[n]
          BY <1>2, <2>3 DEF n, Last
    <3>2. n \in 1..n
          BY <1>2, <2>3
    <3>3. q[n].depth \in Nat
      <4>1. q[n] \in Elements
            BY <1>2, <3>2
      <4> QED BY <4>1 DEF Elements
    <3> QED BY <1>1, <2>1, <2>3, <3>1, <3>3 DEF Depth
  <2> QED BY <2>2, <2>3
<1>6. Nested(pg)
  <2>1. ASSUME NEW i \in 1..Len(pg) PROVE pg[i].depth \in 1..Depth(pg, i - 1) + 1
    <3>1. CASE i \in 1..n
      <4>1. i - 1 \in 0..n /\ i \in 1..Len(q)
            BY <1>2, <3>1 DEF n
      <4>2. q[i].depth \in 1..Depth(q, i - 1) + 1
            BY <4>1 DEF Legal, Nested
      <4> QED BY <1>3, <1>4, <3>1, <4>1, <4>2
    <3>2. CASE i = n + 1
      <4>1. i - 1 = n /\ n \in 0..n
            BY <1>2, <3>2
      <4> QED BY <1>3, <1>4, <1>5, <3>2, <4>1
    <3> QED BY <1>2, <1>3, <3>1, <3>2
  <2> QED BY <1>3, <2>1 DEF Nested
<1>7. ASSUME NEW i \in 1..Len(pg) PROVE pg[i].tag \in tags /\ pg[i].text \in TextOptions(pg[i].tag)
  <2>1. CASE i \in 1..n
    <3>1. i \in 1..Len(q)
          BY <2>1 DEF n
    <3> QED BY <1>3, <2>1, <3>1 DEF Legal
  <2>2. CASE i = n + 1
        BY <1>1, <1>3, <2>2
  <2> QED BY <1>2, <1>3, <2>1, <2>2
<1>8. ASSUME NEW i \in 0..Len(pg), NEW k \in ChildSet(pg, i)
      PROVE  pg[k].tag \in MayHold(Tag(pg, i), tags)
  <2>1. /\ k \in i + 1..Len(pg) /\ pg[k].depth = Depth(pg, i) + 1 /\ k \in Within(pg, i)
        /\ Depth(pg, i) \in Nat /\ \A j \in 1..Len(pg) : pg[j].depth \in Nat
        BY <1>6, WithinFacts
  <2>2. \A j \in i + 1..k : pg[j].depth > Depth(pg, i)
        BY <2>1 DEF Within
  <2>3. i \in 0..n /\ k \in 1..n + 1
        BY <1>2, <1>3, <2>1
  <2>4. CASE k \in 1..n
    <3>1. ASSUME NEW j \in i + 1..k PROVE q[j].depth > Depth(q, i)
      <4>1. j \in 1..n
            BY <1>2, <2>3, <2>4, <3>1
      <4> QED BY <1>3, <1>4, <2>2, <2>3, <4>1
    <3>2. k \in i + 1..Len(q)
          BY <1>2, <2>1, <2>3, <2>4 DEF n
    <3>3. k \in Within(q, i)
          BY <3>1, <3>2 DEF Within
    <3>4. q[k].depth = Depth(q, i) + 1
          BY <1>3, <1>4, <2>1, <2>3, <2>4
    <3>5. i \in 0..Len(q) /\ Nested(q)
          BY <2>3 DEF n, Legal
    <3>6. k \in ChildSet(q, i)
          BY <3>3, <3>4, <3>5, WithinFacts
    <3>7. q[k].tag \in MayHold(Tag(q, i), tags)
          BY <3>5, <3>6 DEF Legal
    <3>8. Tag(q, i) = Tag(pg, i)
      <4>1. i # 0 => i \in 1..n
            BY <1>2, <2>3
      <4> QED BY <1>3, <4>1 DEF Tag
    <3> QED BY <1>3, <2>4, <3>7, <3>8
  <2>5. CASE k = n + 1
    <3>1. pg[k] = e /\ e.depth = Depth(q, i) + 1
          BY <1>3, <1>4, <2>1, <2>3, <2>5
    <3>2. e.tag \in MayHold(OpenAt(q, e.depth - 1).tag, tags)
          BY DEF GoesOn
    <3>3. CASE i = 0
      <4>1. e.depth - 1 = 0
            BY <3>1, <3>3 DEF Depth
      <4>2. OpenAt(q, e.depth - 1) = Element("body", 0, FALSE)
            BY <4>1 DEF OpenAt
      <4>3. OpenAt(q, e.depth - 1).tag = "body"
            BY <4>2 DEF Element
      <4> QED BY <3>1, <3>2, <3>3, <4>3 DEF Tag
    <3>4. CASE i # 0
      <4>1. i \in 1..n /\ Depth(q, i) = q[i].depth /\ q[i] = pg[i]
            BY <1>2, <1>3, <2>3, <3>4 DEF Depth
      <4>2. q[i].depth \in Nat /\ q[i].depth >= 1
        <5>1. q[i].depth \in 1..Depth(q, i - 1) + 1
              BY <4>1 DEF Legal, Nested, n
        <5>2. q[i] \in Elements
              BY <1>2, <4>1
        <5>3. q[i].depth \in Nat
              BY <5>2 DEF Elements
        <5>4. Depth(q, i - 1) \in Nat
          <6>1. i - 1 \in 0..Len(q)
                BY <1>2, <4>1 DEF n
          <6> QED BY <6>1, WithinFacts DEF Legal
        <5> QED BY <5>1, <5>3, <5>4
      <4> DEFINE d == e.depth - 1
                 Ends(j) == q[j].depth = d /\ \A m \in j + 1..Len(q) : q[m].depth > d
      <4>3. d = q[i].depth /\ d # 0
            BY <3>1, <4>1, <4>2
      <4>4. ASSUME NEW m \in i + 1..n PROVE q[m].depth > d /\ q[m].depth \in Nat
        <5>1. m \in i + 1..k /\ m \in 1..n /\ m \in 1..Len(pg)
              BY <1>2, <1>3, <2>5, <4>1
        <5>2. pg[m].depth > Depth(pg, i)
              BY <2>2, <5>1
        <5>3. pg[m] = q[m] /\ Depth(pg, i) = d
              BY <1>3, <1>4, <2>3, <4>1, <4>3, <5>1
        <5> QED BY <2>1, <5>1, <5>2, <5>3
      <4>5. i \in DOMAIN q /\ Ends(i)
            BY <1>2, <4>1, <4>3, <4>4 DEF n
      <4>6. ASSUME NEW j \in DOMAIN q, Ends(j) PROVE j = i
        <5>1. j \in 1..n /\ i \in 1..n /\ Len(q) = n
              BY <1>2, <4>1 DEF n
        <5>2. CASE j < i
          <6>1. i \in j + 1..Len(q)
                BY <1>2, <5>1, <5>2
          <6>2. q[i].depth > d
                BY <4>6, <6>1
          <6> QED BY <4>2, <4>3, <6>2
        <5>3. CASE j > i
          <6>1. j \in i + 1..n
                BY <1>2, <5>1, <5>3
          <6>2. q[j].depth > d /\ q[j].depth \in Nat /\ q[j].depth = d
                BY <4>4, <4>6, <6>1
          <6> QED BY <4>2, <4>3, <6>2
        <5> QED BY <1>2, <5>1, <5>2, <5>3
      <4>7. (CHOOSE j \in DOMAIN q : Ends(j)) = i
        <5> HIDE DEF Ends
        <5> QED BY <4>5, <4>6
      <4>8. OpenAt(q, d) = q[CHOOSE j \in DOMAIN q : Ends(j)]
            BY <4>3 DEF OpenAt
      <4> HIDE DEF Ends
      <4>9. OpenAt(q, d) = q[i]
            BY <4>7, <4>8
      <4>10. Tag(pg, i) = q[i].tag
            BY <3>4, <4>1 DEF Tag
      <4> QED BY <3>1, <3>2, <4>9, <4>10
    <3> QED BY <3>3, <3>4
  <2> QED BY <1>2, <2>3, <2>4, <2>5
<1>9. Legal(pg, tags)
      BY <1>6, <1>7, <1>8 DEF Legal
<1> QED BY <1>9 DEF pg

(* ... and so every page is.                                                 *)
LEMMA LegalPages ==
    ASSUME NEW tags \in SUBSET Tags, NEW nodes \in Nat
    PROVE  \A pg \in PagesOf(tags, nodes) : Legal(pg, tags)
<1>1. PICK f : /\ PagesOf(tags, nodes) = f[nodes] /\ f[0] = {<<>>}
               /\ \A n \in 1..nodes :
                     f[n] = {Append(y[1], y[2]) :
                               y \in {z \in f[n - 1] \X PageElements(tags, nodes) :
                                        GoesOn(z[1], z[2], tags)}}
      BY PagesExist
<1> DEFINE G == {n \in 0..nodes : \A pg \in f[n] : Legal(pg, tags)}
<1>2. ASSUME NEW n \in 0..nodes, \A j \in 0..n - 1 : j \in G PROVE n \in G
  <2>1. CASE n = 0
    <3>1. <<>> \in Seq(Elements) /\ Len(<<>>) = 0
          OBVIOUS
    <3>2. Nested(<<>>)
          BY <3>1 DEF Nested
    <3>3. \A i \in 0..Len(<<>>) : ChildSet(<<>>, i) = {}
      <4>1. ASSUME NEW i \in 0..Len(<<>>) PROVE ChildSet(<<>>, i) = {}
        <5>1. ChildSet(<<>>, i) \in SUBSET (i + 1..Len(<<>>))
              BY <3>1, ChildrenFacts
        <5> QED BY <3>1, <5>1
      <4> QED BY <4>1
    <3>4. Legal(<<>>, tags)
          BY <3>1, <3>2, <3>3 DEF Legal
    <3> QED BY <1>1, <2>1, <3>4
  <2>2. CASE n # 0
    <3>1. n \in 1..nodes /\ n - 1 \in 0..n - 1
          BY <2>2
    <3>2. \A q \in f[n - 1] : Legal(q, tags)
          BY <1>2, <3>1
    <3>3. ASSUME NEW pg \in f[n] PROVE Legal(pg, tags)
      <4>1. PICK y \in f[n - 1] \X PageElements(tags, nodes) :
               pg = Append(y[1], y[2]) /\ GoesOn(y[1], y[2], tags)
            BY <1>1, <3>1
      <4>2. Legal(y[1], tags) /\ y[2] \in PageElements(tags, nodes)
            BY <3>2
      <4> QED BY <4>1, <4>2, LegalAppend
    <3> QED BY <3>3
  <2> QED BY <2>1, <2>2
<1>3. \A n \in 0..nodes : n \in G
  <2> HIDE DEF G
  <2> QED BY <1>2, UpInduction
<1> QED BY <1>1, <1>3

-----------------------------------------------------------------------------
(* A page without its scripts is nested as it was.                           *)
LEMMA DroppedNested ==
    ASSUME NEW pg, Nested(pg)
    PROVE  /\ Nested(AfterDrop(pg)) /\ Len(AfterDrop(pg)) = Len(pg) /\ DOMAIN AfterDrop(pg) = DOMAIN pg
           /\ \A i \in 0..Len(pg) : /\ Depth(AfterDrop(pg), i) = Depth(pg, i)
                                    /\ Within(AfterDrop(pg), i) = Within(pg, i)
                                    /\ ChildSet(AfterDrop(pg), i) = ChildSet(pg, i)
                                    /\ Children(AfterDrop(pg), i) = Children(pg, i)
<1>1. /\ pg \in Seq(Elements) /\ AfterDrop(pg) \in Seq(Elements) /\ Len(AfterDrop(pg)) = Len(pg)
      /\ \A i \in 1..Len(pg) : AfterDrop(pg)[i].depth = pg[i].depth
      BY AfterDropFacts DEF Nested
<1>2. \A i \in 0..Len(pg) : Depth(AfterDrop(pg), i) = Depth(pg, i)
      BY <1>1 DEF Depth
<1>3. Nested(AfterDrop(pg))
  <2>1. ASSUME NEW i \in 1..Len(pg) PROVE AfterDrop(pg)[i].depth \in 1..Depth(AfterDrop(pg), i - 1) + 1
    <3>1. i - 1 \in 0..Len(pg)
          BY <1>1
    <3> QED BY <1>1, <1>2, <3>1 DEF Nested
  <2> QED BY <1>1, <2>1 DEF Nested
<1>4. ASSUME NEW i \in 0..Len(pg) PROVE Within(AfterDrop(pg), i) = Within(pg, i)
  <2>1. \A j \in i + 1..Len(pg) : \A k \in i + 1..j : AfterDrop(pg)[k].depth = pg[k].depth
        BY <1>1
  <2> QED BY <1>1, <1>2, <2>1 DEF Within
<1>5. ASSUME NEW i \in 0..Len(pg) PROVE ChildSet(AfterDrop(pg), i) = ChildSet(pg, i)
  <2>1. /\ ChildSet(pg, i) = {j \in Within(pg, i) : pg[j].depth = Depth(pg, i) + 1}
        /\ Within(pg, i) \in SUBSET (i + 1..Len(pg))
        BY WithinFacts
  <2>2. ChildSet(AfterDrop(pg), i) =
           {j \in Within(AfterDrop(pg), i) : AfterDrop(pg)[j].depth = Depth(AfterDrop(pg), i) + 1}
        BY <1>1, <1>3, WithinFacts
  <2>3. \A j \in Within(pg, i) : j \in 1..Len(pg)
        BY <1>1, <2>1
  <2> QED BY <1>1, <1>2, <1>4, <2>1, <2>2, <2>3
<1>6. ASSUME NEW i \in 0..Len(pg) PROVE Children(AfterDrop(pg), i) = Children(pg, i)
      BY <1>1, <1>5, ChildrenFacts
<1>7. DOMAIN AfterDrop(pg) = DOMAIN pg
      BY <1>1
<1> QED BY <1>1, <1>2, <1>3, <1>4, <1>5, <1>6, <1>7

(* And one that has none is what it was.                                     *)
LEMMA NothingDropped ==
    ASSUME NEW pg \in Seq(Elements), \A i \in 1..Len(pg) : pg[i].tag \notin DroppedTags
    PROVE  AfterDrop(pg) = pg
<1>1. DOMAIN pg = 1..Len(pg)
      OBVIOUS
<1>2. Doomed(pg) = {}
      BY <1>1 DEF Doomed
<1>3. AfterDrop(pg) = [i \in DOMAIN pg |-> pg[i]]
      BY <1>2 DEF AfterDrop
<1> QED BY <1>3

(* The path of headings                                                      *)

HasLevels(blocks) ==
    /\ blocks \in Seq(Blocks)
    /\ \A m \in DOMAIN blocks : blocks[m].kind = "heading" => blocks[m].level \in 1..3

Steps(k) == (0..k) \X (1..7)

(* The path is found from a shorter one.                                     *)
LEMMA PathCongruence ==
    ASSUME NEW blocks, HasLevels(blocks), NEW n \in 0..Len(blocks), NEW s \in 1..7, NEW f, NEW g,
           n # 0 => \A x \in 1..7 : f[<<n - 1, x>>] = g[<<n - 1, x>>]
    PROVE  PathFrom(f, blocks, n, s) = PathFrom(g, blocks, n, s)
<1>1. CASE n = 0
      BY <1>1 DEF PathFrom
<1>2. CASE n # 0
  <2>1. n \in DOMAIN blocks
        BY <1>2 DEF HasLevels
  <2>2. CASE blocks[n].kind = "heading"
    <3>1. blocks[n].level \in 1..7
          BY <2>1, <2>2 DEF HasLevels
    <3>2. f[<<n - 1, blocks[n].level>>] = g[<<n - 1, blocks[n].level>>] /\ f[<<n - 1, s>>] = g[<<n - 1, s>>]
          BY <1>2, <3>1
    <3> QED BY <3>2 DEF PathFrom
  <2>3. CASE blocks[n].kind # "heading"
        BY <1>2, <2>3 DEF PathFrom
  <2> QED BY <2>2, <2>3
<1> QED BY <1>1, <1>2

(* One function is every scan for a path, ...                                *)
LEMMA PathExists ==
    ASSUME NEW blocks, HasLevels(blocks)
    PROVE  \E t : t = [at \in Steps(Len(blocks)) |-> PathFrom(t, blocks, at[1], at[2])]
<1> DEFINE n == Len(blocks)
           G == {k \in 0..n : \E g : g = [at \in Steps(k) |-> PathFrom(g, blocks, at[1], at[2])]}
<1>0. n \in Nat
      BY DEF HasLevels
<1>1. ASSUME NEW k \in 0..n, \A j \in 0..k - 1 : j \in G PROVE k \in G
  <2>1. CASE k = 0
    <3> DEFINE h == [at \in Steps(k) |-> <<>>]
    <3>1. h = [at \in Steps(k) |-> PathFrom(h, blocks, at[1], at[2])]
      <4>1. \A at \in Steps(k) : at[1] = 0
            BY <2>1 DEF Steps
      <4>2. \A at \in Steps(k) : PathFrom(h, blocks, at[1], at[2]) = <<>>
            BY <4>1 DEF PathFrom
      <4> QED BY <4>2
    <3> HIDE DEF h
    <3> QED BY <3>1
  <2>2. CASE k # 0
    <3>0. k - 1 \in G
      <4> HIDE DEF G
      <4> QED BY <1>0, <1>1, <2>2
    <3>1. PICK g : g = [at \in Steps(k - 1) |-> PathFrom(g, blocks, at[1], at[2])]
          BY <3>0
    <3> DEFINE h == [at \in Steps(k) |->
                       IF at[1] = k THEN PathFrom(g, blocks, at[1], at[2]) ELSE g[at]]
    <3>2. ASSUME NEW at \in Steps(k - 1) PROVE at \in Steps(k) /\ at[1] # k /\ h[at] = g[at]
      <4>1. at \in Steps(k) /\ at[1] # k
            BY <1>0 DEF Steps
      <4> QED BY <4>1
    <3>3. ASSUME NEW at \in Steps(k) PROVE h[at] = PathFrom(h, blocks, at[1], at[2])
      <4> DEFINE j == at[1]
                 x == at[2]
      <4>1. j \in 0..k /\ j \in 0..Len(blocks) /\ x \in 1..7
            BY <1>0 DEF Steps
      <4>2. j # 0 => \A y \in 1..7 : <<j - 1, y>> \in Steps(k - 1)
            BY <1>0, <4>1 DEF Steps
      <4>3. j # 0 => \A y \in 1..7 : h[<<j - 1, y>>] = g[<<j - 1, y>>]
        <5> HIDE DEF h, j
        <5> QED BY <3>2, <4>2
      <4>4. PathFrom(h, blocks, j, x) = PathFrom(g, blocks, j, x)
        <5> HIDE DEF h, j, x, n
        <5> QED BY <4>1, <4>3, PathCongruence
      <4>5. CASE j = k
            BY <4>4, <4>5
      <4>6. CASE j # k
        <5>1. at \in Steps(k - 1)
          <6>1. j \in 0..k - 1
                BY <1>0, <4>1, <4>6
          <6> QED BY <6>1 DEF Steps
        <5>2. g[at] = PathFrom(g, blocks, j, x)
              BY <3>1, <5>1
        <5> QED BY <4>4, <4>6, <5>2
      <4> QED BY <4>5, <4>6
    <3>4. h = [at \in Steps(k) |-> PathFrom(h, blocks, at[1], at[2])]
          BY <3>3
    <3> HIDE DEF h
    <3> QED BY <3>4
  <2> QED BY <2>1, <2>2
<1>2. \A i \in 0..n : i \in G
  <2> HIDE DEF G, n
  <2> QED BY <1>0, <1>1, UpInduction
<1>3. n \in G
  <2> HIDE DEF G
  <2> QED BY <1>0, <1>2
<1> QED BY <1>3

(* The headings up to a block that are shallower than a level, each with     *)
(* none as shallow after it.                                                 *)
Standing(blocks, n, s) ==
    {m \in 1..n : /\ blocks[m].kind = "heading" /\ blocks[m].level < s
                  /\ \A j \in m + 1..n : blocks[j].kind = "heading" => blocks[j].level > blocks[m].level}

(* ... and what a scan keeps are the headings that stand over the place.     *)
LEMMA PathStands ==
    ASSUME NEW blocks, HasLevels(blocks), NEW f,
           f = [at \in Steps(Len(blocks)) |-> PathFrom(f, blocks, at[1], at[2])]
    PROVE  \A n \in 0..Len(blocks) : \A s \in 1..7 :
              f[<<n, s>>] \in Seq(Nat) /\ ToSet(f[<<n, s>>]) = Standing(blocks, n, s)
<1> DEFINE top == Len(blocks)
           Ok(n, s) == f[<<n, s>>] \in Seq(Nat) /\ ToSet(f[<<n, s>>]) = Standing(blocks, n, s)
           G == {n \in 0..top : \A s \in 1..7 : Ok(n, s)}
<1>0. top \in Nat
      BY DEF HasLevels
<1>1. ASSUME NEW n \in 0..top, \A s \in 1..7 : n # 0 => Ok(n - 1, s), NEW s \in 1..7 PROVE Ok(n, s)
  <2>0. f[<<n, s>>] = PathFrom(f, blocks, n, s)
    <3>1. <<n, s>> \in Steps(Len(blocks)) /\ <<n, s>>[1] = n /\ <<n, s>>[2] = s
          BY DEF Steps
    <3> QED BY <3>1
  <2>1. <<>> \in Seq(Nat) /\ ToSet(<<>>) = {}
        BY DEF ToSet
  <2>2. CASE n = 0
    <3>1. f[<<n, s>>] = <<>>
          BY <2>0, <2>2 DEF PathFrom
    <3>2. Standing(blocks, n, s) = {}
          BY <2>2 DEF Standing
    <3> QED BY <2>1, <3>1, <3>2
  <2>3. CASE n # 0 /\ s = 1
    <3>1. f[<<n, s>>] = <<>>
          BY <2>0, <2>3 DEF PathFrom
    <3>2. Standing(blocks, n, s) = {}
      <4>1. \A m \in 1..n : m \in DOMAIN blocks
            BY DEF HasLevels
      <4> QED BY <2>3, <4>1 DEF Standing, HasLevels
    <3> QED BY <2>1, <3>1, <3>2
  <2>4. CASE n # 0 /\ s # 1 /\ blocks[n].kind = "heading" /\ blocks[n].level < s
    <3> DEFINE l == blocks[n].level
               p == f[<<n - 1, l>>]
    <3>1. l \in 1..3 /\ l \in 1..7 /\ n \in 1..Len(blocks)
      <4>1. n \in DOMAIN blocks /\ n \in 1..Len(blocks)
            BY <2>4 DEF HasLevels
      <4> QED BY <2>4, <4>1 DEF HasLevels
    <3>2. f[<<n, s>>] = Append(p, n)
          BY <2>0, <2>4 DEF PathFrom
    <3>3. p \in Seq(Nat) /\ ToSet(p) = Standing(blocks, n - 1, l)
          BY <1>1, <2>4, <3>1
    <3> HIDE DEF p
    <3>4. Append(p, n) \in Seq(Nat) /\ ToSet(Append(p, n)) = ToSet(p) \cup {n}
      <4>1. /\ Append(p, n) \in Seq(Nat) /\ DOMAIN p = 1..Len(p) /\ Len(p) \in Nat
            /\ DOMAIN Append(p, n) = 1..Len(p) + 1
            /\ Append(p, n)[Len(p) + 1] = n /\ \A x \in 1..Len(p) : Append(p, n)[x] = p[x]
            BY <3>3
      <4> QED BY <4>1 DEF ToSet
    <3>5. Standing(blocks, n, s) = Standing(blocks, n - 1, l) \cup {n}
      <4>1. ASSUME NEW m \in Standing(blocks, n, s), m # n PROVE m \in Standing(blocks, n - 1, l)
        <5>1. /\ m \in 1..n /\ blocks[m].kind = "heading"
              /\ \A j \in m + 1..n : blocks[j].kind = "heading" => blocks[j].level > blocks[m].level
              BY DEF Standing
        <5>2. m \in 1..n - 1 /\ n \in m + 1..n
              BY <4>1, <5>1
        <5>3. blocks[m].level \in 1..3
          <6>1. m \in DOMAIN blocks
                BY <5>1 DEF HasLevels
          <6> QED BY <5>1, <6>1 DEF HasLevels
        <5>4. blocks[m].level < l
              BY <2>4, <3>1, <5>1, <5>2, <5>3
        <5>5. \A j \in m + 1..n - 1 : j \in m + 1..n
              BY <5>2
        <5> QED BY <5>1, <5>2, <5>4, <5>5 DEF Standing
      <4>2. ASSUME NEW m \in Standing(blocks, n - 1, l) PROVE m \in Standing(blocks, n, s)
        <5>1. /\ m \in 1..n - 1 /\ blocks[m].kind = "heading" /\ blocks[m].level < l
              /\ \A j \in m + 1..n - 1 : blocks[j].kind = "heading" => blocks[j].level > blocks[m].level
              BY DEF Standing
        <5>2. blocks[m].level \in 1..3
          <6>1. m \in DOMAIN blocks
                BY <5>1 DEF HasLevels
          <6> QED BY <5>1, <6>1 DEF HasLevels
        <5>3. blocks[m].level < s
              BY <2>4, <3>1, <5>1, <5>2
        <5>4. \A j \in m + 1..n : j = n \/ j \in m + 1..n - 1
              BY <5>1
        <5>5. \A j \in m + 1..n : blocks[j].kind = "heading" => blocks[j].level > blocks[m].level
              BY <3>1, <5>1, <5>2, <5>4
        <5>6. m \in 1..n
              BY <5>1
        <5> QED BY <5>1, <5>3, <5>5, <5>6 DEF Standing
      <4>3. n \in Standing(blocks, n, s)
        <5>1. n \in 1..n /\ n + 1..n = {}
              BY <3>1
        <5> QED BY <2>4, <5>1 DEF Standing
      <4> QED BY <4>1, <4>2, <4>3
    <3> QED BY <3>2, <3>3, <3>4, <3>5
  <2>5. CASE n # 0 /\ s # 1 /\ ~ (blocks[n].kind = "heading" /\ blocks[n].level < s)
    <3>1. f[<<n, s>>] = f[<<n - 1, s>>]
          BY <2>0, <2>5 DEF PathFrom
    <3>2. Standing(blocks, n, s) = Standing(blocks, n - 1, s)
      <4>1. ASSUME NEW m \in Standing(blocks, n, s) PROVE m \in Standing(blocks, n - 1, s)
        <5>1. /\ m \in 1..n /\ blocks[m].kind = "heading" /\ blocks[m].level < s
              /\ \A j \in m + 1..n : blocks[j].kind = "heading" => blocks[j].level > blocks[m].level
              BY DEF Standing
        <5>2. m # n
              BY <2>5, <5>1
        <5>3. m \in 1..n - 1 /\ \A j \in m + 1..n - 1 : j \in m + 1..n
              BY <5>1, <5>2
        <5> QED BY <5>1, <5>3 DEF Standing
      <4>2. ASSUME NEW m \in Standing(blocks, n - 1, s) PROVE m \in Standing(blocks, n, s)
        <5>1. /\ m \in 1..n - 1 /\ blocks[m].kind = "heading" /\ blocks[m].level < s
              /\ \A j \in m + 1..n - 1 : blocks[j].kind = "heading" => blocks[j].level > blocks[m].level
              BY DEF Standing
        <5>2. m \in DOMAIN blocks /\ n \in DOMAIN blocks
              BY <1>0, <2>5, <5>1 DEF HasLevels
        <5>3. blocks[m].level \in 1..3 /\ (blocks[n].kind = "heading" => blocks[n].level \in 1..3)
              BY <5>1, <5>2 DEF HasLevels
        <5>4. blocks[n].kind = "heading" => blocks[n].level > blocks[m].level
              BY <2>5, <5>1, <5>3
        <5>5. \A j \in m + 1..n : j = n \/ j \in m + 1..n - 1
              BY <5>1
        <5>6. m \in 1..n
              BY <5>1
        <5> QED BY <5>1, <5>4, <5>5, <5>6 DEF Standing
      <4> QED BY <4>1, <4>2
    <3>3. Ok(n - 1, s)
          BY <1>1, <2>5
    <3> QED BY <3>1, <3>2, <3>3
  <2> HIDE DEF Ok
  <2> QED BY <2>2, <2>3, <2>4, <2>5
<1>2. ASSUME NEW n \in 0..top, \A j \in 0..n - 1 : j \in G PROVE n \in G
  <2>1. \A s \in 1..7 : n # 0 => Ok(n - 1, s)
    <3>1. n # 0 => n - 1 \in 0..n - 1
          BY <1>0
    <3> HIDE DEF Ok
    <3> QED BY <1>2, <3>1
  <2> HIDE DEF Ok
  <2> QED BY <1>1, <2>1
<1>3. \A n \in 0..top : n \in G
  <2> HIDE DEF G, top
  <2> QED BY <1>0, <1>2, UpInduction
<1> HIDE DEF Ok
<1>4. \A n \in 0..top : \A s \in 1..7 : Ok(n, s)
      BY <1>3
<1> QED BY <1>4 DEF Ok

(* The heading path of a block.                                              *)
LEMMA HeadingPath ==
    ASSUME NEW blocks, HasLevels(blocks), NEW n \in DOMAIN blocks
    PROVE  ToSet(HeadingPathFor(blocks, n)) = Standing(blocks, n - 1, Seed(blocks[n]))
<1> DEFINE t == CHOOSE f : f = [at \in Steps(Len(blocks)) |-> PathFrom(f, blocks, at[1], at[2])]
<1>1. t = [at \in Steps(Len(blocks)) |-> PathFrom(t, blocks, at[1], at[2])]
      BY PathExists
<1>2. HeadingPathFor(blocks, n) = t[<<n - 1, Seed(blocks[n])>>]
      BY DEF HeadingPathFor, Steps
<1> HIDE DEF t
<1>3. n - 1 \in 0..Len(blocks) /\ Seed(blocks[n]) \in 1..7
      BY DEF HasLevels, Seed
<1> QED BY <1>1, <1>2, <1>3, PathStands

(* What a page of headings and paragraphs is parsed as.                      *)
LEMMA HeadPageFacts ==
    ASSUME PageNodes \in Nat, NEW pg \in HeadPages
    PROVE  /\ Legal(pg, {"div", "h1", "h2", "p"}) /\ BlocksOf(pg) = Walk(pg, 0, "none", FALSE)
           /\ Walked(pg, DOMAIN pg, FALSE, BlocksOf(pg)) /\ ParseHtml(pg).blocks = BlocksOf(pg)
<1> DEFINE tags == {"div", "h1", "h2", "p"}
<1>1. tags \in SUBSET Tags
      BY DEF Tags, BlockTags, HeadingTags, Level
<1>2. Legal(pg, tags)
      BY <1>1, LegalPages DEF HeadPages
<1>3. Nested(pg) /\ pg \in Seq(Elements) /\ \A i \in 1..Len(pg) : pg[i].tag \in tags
      BY <1>2 DEF Legal, Nested
<1>4. AfterDrop(pg) = pg
      BY <1>3, NothingDropped DEF DroppedTags
<1> QED BY <1>2, <1>3, <1>4, PageWalked DEF BlocksOf, ParseHtml, DocumentOf

(* In it there is nothing in a heading or a paragraph.                       *)
LEMMA HeadingsHoldNothing ==
    ASSUME NEW pg, Legal(pg, {"div", "h1", "h2", "p"}), NEW i \in 1..Len(pg), pg[i].tag # "div"
    PROVE  Within(pg, i) = {}
<1> DEFINE tags == {"div", "h1", "h2", "p"}
<1>1. Nested(pg) /\ i \in 0..Len(pg) /\ i # 0
      BY DEF Legal, Nested
<1>2. MayHold(pg[i].tag, tags) = {}
  <2>1. pg[i].tag \in {"h1", "h2", "p"}
        BY DEF Legal
  <2> QED BY <2>1 DEF MayHold, HeadingTags, Level
<1>3. \A k \in ChildSet(pg, i) : pg[k].tag \in MayHold(pg[i].tag, tags)
      BY <1>1 DEF Legal, Tag
<1> QED BY <1>1, <1>2, <1>3, ChildOver

(* The headings of a path are those of the tree.                             *)
LEMMA AllGoverned ==
    ASSUME PageNodes \in Nat
    PROVE  BlocksAreUnderTheirHeadings
<1> SUFFICES ASSUME NEW pg \in HeadPages
             PROVE  AllUnderTheirHeadings(pg, ParseHtml(pg))
    BY DEF BlocksAreUnderTheirHeadings
<1> DEFINE tags == {"div", "h1", "h2", "p"}
           blocks == BlocksOf(pg)
<1>1. /\ Legal(pg, tags) /\ Walked(pg, DOMAIN pg, FALSE, blocks) /\ ParseHtml(pg).blocks = blocks
      BY HeadPageFacts
<1>2. Nested(pg) /\ pg \in Seq(Elements) /\ DOMAIN pg = 1..Len(pg) /\ Len(pg) \in Nat
      BY <1>1 DEF Legal, Nested
<1> HIDE DEF blocks
<1>3. /\ HeadingTags = {"h1", "h2", "h3"} /\ Level["h1"] = 1 /\ Level["h2"] = 2 /\ Level["h3"] = 3
      /\ {"h1", "h2", "h3", "p"} \subseteq BlockTags \ (Lists \cup {"table"})
      BY DEF HeadingTags, Level, BlockTags, Lists
<1>4. \A m \in DOMAIN blocks : Sound(pg, DOMAIN pg, FALSE, blocks[m])
      BY <1>1 DEF Walked
<1>5. ASSUME NEW m \in DOMAIN blocks
      PROVE  /\ blocks[m].node \in 1..Len(pg)
             /\ blocks[m].kind = "heading" <=> pg[blocks[m].node].tag \in HeadingTags
             /\ blocks[m].kind = "heading" =>
                   /\ blocks[m].level = Level[pg[blocks[m].node].tag] /\ blocks[m].level \in 1..3
                   /\ ~Blank(TextOf(pg, blocks[m].node))
  <2>1. Sound(pg, DOMAIN pg, FALSE, blocks[m])
        BY <1>4
  <2>2. Made(pg, blocks[m]) /\ blocks[m].node \in 1..Len(pg)
        BY <1>2, <2>1 DEF Sound
  <2>3. pg[blocks[m].node].tag \in HeadingTags => Level[pg[blocks[m].node].tag] \in 1..3
        BY <1>3
  <2>4. pg[blocks[m].node].tag \in HeadingTags =>
           pg[blocks[m].node].tag \in BlockTags \ (Lists \cup {"table"})
        BY <1>3
  <2> QED BY <2>2, <2>3, <2>4 DEF Made
<1>6. HasLevels(blocks)
      BY <1>1, <1>5 DEF HasLevels, Walked
<1>7. /\ DOMAIN blocks = 1..Len(blocks) /\ Len(blocks) \in Nat
      /\ \A m, n \in DOMAIN blocks : m < n /\ pg[blocks[n].node].tag \in BlockTags =>
            blocks[m].node < blocks[n].node
      BY <1>1 DEF Walked
<1>8. ASSUME NEW i \in 1..Len(pg), pg[i].tag \in HeadingTags, ~Blank(TextOf(pg, i))
      PROVE  \E m \in DOMAIN blocks : blocks[m].node = i /\ blocks[m].kind = "heading"
  <2>1. Heard(pg, DOMAIN pg, i)
    <3>1. ASSUME NEW j \in DOMAIN pg, i \in Within(pg, j) PROVE pg[j].tag \notin BlockTags \cup {"dropped"}
      <4>1. pg[j].tag = "div"
            BY <1>1, <1>2, <3>1, HeadingsHoldNothing
      <4> QED BY <4>1, <1>3 DEF BlockTags
    <3>2. pg[i].tag # "dropped"
          BY <1>3, <1>8
    <3> QED BY <3>1, <3>2 DEF Heard
  <2>2. Speaks(pg, i)
    <3>1. pg[i].tag \in BlockTags \ (Lists \cup {"table"})
          BY <1>3, <1>8
    <3> QED BY <1>8, <3>1 DEF Speaks
  <2>3. PICK m \in DOMAIN blocks : blocks[m].node = i
        BY <1>1, <1>2, <2>1, <2>2 DEF Walked
  <2> QED BY <1>5, <1>8, <2>3
<1>9. ASSUME NEW n \in DOMAIN blocks, blocks[n].kind = "heading" \/ pg[blocks[n].node].tag = "p"
      PROVE  UnderItsHeadings(pg, ParseHtml(pg), n)
  <2> DEFINE place == blocks[n].node
             limit == IF blocks[n].kind = "heading" THEN blocks[n].level ELSE 7
             shown == {i \in 1..place - 1 : pg[i].tag \in HeadingTags /\ ~Blank(TextOf(pg, i))}
             over  == Standing(blocks, n - 1, limit)
  <2>1. ToSet(HeadingPathFor(blocks, n)) = over
        BY <1>6, HeadingPath DEF Seed
  <2>2. pg[place].tag \in BlockTags /\ place \in 1..Len(pg)
        BY <1>3, <1>5, <1>9
  <2>3. HeadingsOver(pg, place, limit) =
           {i \in shown : /\ Level[pg[i].tag] < limit
                          /\ \A j \in shown : j > i => Level[pg[j].tag] > Level[pg[i].tag]}
        BY DEF HeadingsOver
  <2>4. ASSUME NEW m \in 1..n - 1, blocks[m].kind = "heading"
        PROVE  blocks[m].node \in shown /\ blocks[m].level = Level[pg[blocks[m].node].tag] /\ m \in DOMAIN blocks
    <3>1. m \in DOMAIN blocks /\ m < n
          BY <1>7, <2>4
    <3>2. blocks[m].node < place
          BY <1>7, <2>2, <3>1
    <3>3. blocks[m].node \in 1..place - 1
      <4>1. blocks[m].node \in 1..Len(pg)
            BY <1>5, <3>1
      <4> HIDE DEF place
      <4> QED BY <1>2, <2>2, <3>2, <4>1
    <3> QED BY <1>5, <2>4, <3>1, <3>3
  <2>5. ASSUME NEW i \in shown
        PROVE  \E m \in 1..n - 1 : blocks[m].node = i /\ blocks[m].kind = "heading"
    <3>1. i \in 1..place - 1 /\ i \in 1..Len(pg)
          BY <1>2, <2>2
    <3>2. PICK m \in DOMAIN blocks : blocks[m].node = i /\ blocks[m].kind = "heading"
          BY <1>8, <3>1
    <3>3. m # n
      <4> HIDE DEF shown
      <4>1. i # place
            BY <2>2, <3>1
      <4> QED BY <3>2, <4>1
    <3>4. ~ (m > n)
      <4>1. SUFFICES ASSUME m > n PROVE FALSE
            OBVIOUS
      <4>2. pg[blocks[m].node].tag \in BlockTags
            BY <1>3, <1>5, <3>2
      <4>3. n < m
            BY <1>7, <4>1
      <4>4. place < i
            BY <1>7, <3>2, <4>2, <4>3
      <4> HIDE DEF place
      <4> QED BY <1>2, <2>2, <3>1, <4>4
    <3>5. m \in 1..n - 1
          BY <1>7, <3>3, <3>4
    <3> QED BY <3>2, <3>5
  <2>6. ASSUME NEW m \in 1..n - 1, NEW j \in 1..n - 1, blocks[m].kind = "heading", blocks[j].kind = "heading"
        PROVE  m < j <=> blocks[m].node < blocks[j].node
    <3>0. m \in DOMAIN blocks /\ j \in DOMAIN blocks
          BY <2>4, <2>6
    <3>1. /\ m \in DOMAIN blocks /\ j \in DOMAIN blocks /\ m \in Nat /\ j \in Nat
          /\ pg[blocks[m].node].tag \in BlockTags /\ pg[blocks[j].node].tag \in BlockTags
          /\ blocks[m].node \in 1..Len(pg) /\ blocks[j].node \in 1..Len(pg)
          BY <1>3, <1>5, <2>6, <3>0
    <3>2. m < j => blocks[m].node < blocks[j].node
          BY <1>7, <3>1
    <3>3. j < m => blocks[j].node < blocks[m].node
          BY <1>7, <3>1
    <3>4. m = j => blocks[m].node = blocks[j].node
          OBVIOUS
    <3> QED BY <3>1, <3>2, <3>3, <3>4
  <2> HIDE DEF place, limit, shown
  <2>7. ASSUME NEW m \in over PROVE blocks[m].node \in HeadingsOver(pg, place, limit)
    <3>1. /\ m \in 1..n - 1 /\ blocks[m].kind = "heading" /\ blocks[m].level < limit
          /\ \A j \in m + 1..n - 1 : blocks[j].kind = "heading" => blocks[j].level > blocks[m].level
          BY DEF Standing
    <3>2. blocks[m].node \in shown /\ blocks[m].level = Level[pg[blocks[m].node].tag]
          BY <2>4, <3>1
    <3>3. ASSUME NEW i \in shown, i > blocks[m].node PROVE Level[pg[i].tag] > Level[pg[blocks[m].node].tag]
      <4>1. PICK j \in 1..n - 1 : blocks[j].node = i /\ blocks[j].kind = "heading"
            BY <2>5
      <4>2. m < j
        <5>1. blocks[m].node \in 1..Len(pg) /\ i \in 1..Len(pg)
          <6>1. m \in DOMAIN blocks /\ j \in DOMAIN blocks
                BY <2>4, <3>1, <4>1
          <6> QED BY <1>5, <4>1, <6>1
        <5>2. blocks[m].node < blocks[j].node
              BY <3>3, <4>1, <5>1
        <5> QED BY <2>6, <3>1, <4>1, <5>2
      <4>3. j \in m + 1..n - 1
            BY <3>1, <4>1, <4>2
      <4>4. blocks[j].level = Level[pg[i].tag]
            BY <2>4, <4>1
      <4> QED BY <3>1, <3>2, <4>1, <4>3, <4>4
    <3> QED BY <2>3, <3>1, <3>2, <3>3
  <2>8. ASSUME NEW i \in HeadingsOver(pg, place, limit) PROVE \E m \in over : blocks[m].node = i
    <3>1. /\ i \in shown /\ Level[pg[i].tag] < limit
          /\ \A j \in shown : j > i => Level[pg[j].tag] > Level[pg[i].tag]
          BY <2>3
    <3>2. PICK m \in 1..n - 1 : blocks[m].node = i /\ blocks[m].kind = "heading"
          BY <2>5, <3>1
    <3>3. blocks[m].level < limit
          BY <2>4, <3>1, <3>2
    <3>4. ASSUME NEW j \in m + 1..n - 1, blocks[j].kind = "heading" PROVE blocks[j].level > blocks[m].level
      <4>1. j \in 1..n - 1 /\ m < j
            BY <3>2
      <4>2. blocks[j].node > i
        <5>1. blocks[m].node < blocks[j].node
              BY <2>6, <3>2, <3>4, <4>1
        <5>2. m \in DOMAIN blocks /\ j \in DOMAIN blocks
              BY <2>4, <3>2, <3>4, <4>1
        <5>3. blocks[m].node \in 1..Len(pg) /\ blocks[j].node \in 1..Len(pg)
              BY <1>5, <5>2
        <5> QED BY <3>2, <5>1, <5>3
      <4>3. blocks[j].node \in shown /\ blocks[j].level = Level[pg[blocks[j].node].tag]
            BY <2>4, <3>4, <4>1
      <4>4. blocks[m].level = Level[pg[i].tag]
            BY <2>4, <3>2
      <4> QED BY <3>1, <4>2, <4>3, <4>4
    <3>5. m \in over
          BY <3>2, <3>3, <3>4 DEF Standing
    <3> QED BY <3>2, <3>5
  <2>9. PathOf(ParseHtml(pg), n) = {blocks[m].node : m \in over}
        BY <1>1, <2>1 DEF PathOf
  <2>10. PathOf(ParseHtml(pg), n) = HeadingsOver(pg, place, limit)
    <3> HIDE DEF over
    <3> QED BY <2>7, <2>8, <2>9
  <2> QED BY <1>1, <2>10 DEF UnderItsHeadings, place, limit
<1> QED BY <1>1, <1>9 DEF AllUnderTheirHeadings

(* What a text says: the words of a set, each once                           *)

Said(t) == {t[n] : n \in DOMAIN t} \ {Space}
Tells(t, W) ==
    /\ t \in Seq(Pairs) /\ Said(t) = W
    /\ \A m, n \in DOMAIN t : t[m] = t[n] /\ t[m] # Space => m = n

(* Two texts that share no word say together what each says.                 *)
LEMMA JoinSays ==
    ASSUME NEW s, NEW t, NEW V, NEW W, Tells(s, V), Tells(t, W), V \cap W = {}
    PROVE  Tells(s \o t, V \cup W)
<1>1. s \in Seq(Pairs) /\ t \in Seq(Pairs)
      BY DEF Tells
<1>2. /\ s \o t \in Seq(Pairs) /\ Len(s) \in Nat
      /\ \A n \in DOMAIN s : n \in DOMAIN (s \o t) /\ (s \o t)[n] = s[n]
      /\ \A n \in DOMAIN t : Len(s) + n \in DOMAIN (s \o t) /\ (s \o t)[Len(s) + n] = t[n]
      /\ \A n \in DOMAIN (s \o t) : n \in DOMAIN s \/ (n > Len(s) /\ n - Len(s) \in DOMAIN t)
      /\ \A n \in DOMAIN (s \o t) : (s \o t)[n] = IF n \in DOMAIN s THEN s[n] ELSE t[n - Len(s)]
      /\ \A n \in DOMAIN (s \o t) : n \in Nat
      BY <1>1, ConcatFacts
<1>3. Said(s \o t) = Said(s) \cup Said(t)
  <2>1. ASSUME NEW x \in Said(s \o t) PROVE x \in Said(s) \cup Said(t)
        BY <1>2 DEF Said
  <2>2. ASSUME NEW x \in Said(s) PROVE x \in Said(s \o t)
        BY <1>2 DEF Said
  <2>3. ASSUME NEW x \in Said(t) PROVE x \in Said(s \o t)
        BY <1>2 DEF Said
  <2> QED BY <2>1, <2>2, <2>3
<1>4. ASSUME NEW m \in DOMAIN (s \o t), NEW n \in DOMAIN (s \o t),
             (s \o t)[m] = (s \o t)[n], (s \o t)[m] # Space
      PROVE  m = n
  <2>1. CASE m \in DOMAIN s /\ n \in DOMAIN s
        BY <1>2, <1>4, <2>1 DEF Tells
  <2>2. CASE m \notin DOMAIN s /\ n \notin DOMAIN s
    <3>1. m - Len(s) \in DOMAIN t /\ n - Len(s) \in DOMAIN t /\ m \in Nat /\ n \in Nat
          BY <1>2, <2>2
    <3>2. t[m - Len(s)] = t[n - Len(s)] /\ t[m - Len(s)] # Space
          BY <1>2, <1>4, <2>2
    <3>3. m - Len(s) = n - Len(s)
          BY <3>1, <3>2 DEF Tells
    <3> QED BY <1>2, <3>1, <3>3
  <2>3. CASE m \in DOMAIN s /\ n \notin DOMAIN s
    <3>1. (s \o t)[m] \in Said(s) /\ (s \o t)[n] \in Said(t)
          BY <1>2, <1>4, <2>3 DEF Said
    <3> QED BY <1>4, <3>1 DEF Tells
  <2>4. CASE m \notin DOMAIN s /\ n \in DOMAIN s
    <3>1. (s \o t)[n] \in Said(s) /\ (s \o t)[m] \in Said(t)
          BY <1>2, <1>4, <2>4 DEF Said
    <3> QED BY <1>4, <3>1 DEF Tells
  <2> QED BY <2>1, <2>2, <2>3, <2>4
<1> QED BY <1>2, <1>3, <1>4 DEF Tells

LEMMA SaysNothing == Tells(<<>>, {})
<1>1. <<>> \in Seq(Pairs) /\ DOMAIN <<>> = {}
      OBVIOUS
<1> QED BY <1>1 DEF Tells, Said

LEMMA SaysSpace == Tells(<<Space>>, {})
<1>1. <<Space>> \in Seq(Pairs) /\ DOMAIN <<Space>> = {1} /\ <<Space>>[1] = Space
      BY DEF Space, Pairs
<1> QED BY <1>1 DEF Tells, Said

LEMMA SaysWord ==
    ASSUME NEW i \in Nat, NEW k \in Nat, i # 0
    PROVE  Tells(<<Word(i, k)>>, {Word(i, k)}) /\ Word(i, k) # Space
<1>1. Word(i, k) \in Pairs /\ Word(i, k) # Space
      BY DEF Word, Space, Pairs
<1>2. <<Word(i, k)>> \in Seq(Pairs) /\ DOMAIN <<Word(i, k)>> = {1} /\ <<Word(i, k)>>[1] = Word(i, k)
      BY <1>1
<1> QED BY <1>1, <1>2 DEF Tells, Said

Total(W, n) == UNION {W[m] : m \in 1..n}

(* So do many of which no two share a word.                                  *)
LEMMA FlattenSays ==
    ASSUME NEW n \in Nat, NEW seqs, DOMAIN seqs = 1..n, seqs = [m \in 1..n |-> seqs[m]], NEW W,
           \A m \in 1..n : Tells(seqs[m], W[m]),
           \A l, m \in 1..n : l < m => W[l] \cap W[m] = {}
    PROVE  Tells(FlattenSeq(seqs), Total(W, n))
<1> DEFINE Good == [k \in 0..n |-> {s \in Seq(Pairs) : Tells(s, Total(W, k))}]
<1>1. seqs \in [1..n -> Seq(Pairs)]
      BY DEF Tells
<1>2. <<>> \in Good[0]
  <2>1. Total(W, 0) = {}
        BY DEF Total
  <2>2. ASSUME NEW V, V = {} PROVE Tells(<<>>, V)
        BY <2>2, SaysNothing
  <2>3. Tells(<<>>, Total(W, 0))
        BY <2>1, <2>2
  <2>4. <<>> \in Seq(Pairs) /\ 0 \in 0..n
        OBVIOUS
  <2> QED BY <2>3, <2>4
<1>3. ASSUME NEW k \in 1..n, NEW s \in Good[k - 1] PROVE s \o seqs[k] \in Good[k]
  <2>1. k - 1 \in 0..n /\ k \in 0..n
        OBVIOUS
  <2>2. Total(W, k) = Total(W, k - 1) \cup W[k]
    <3>1. \A m : m \in 1..k <=> m \in 1..k - 1 \/ m = k
          OBVIOUS
    <3> QED BY <3>1 DEF Total
  <2>3. Total(W, k - 1) \cap W[k] = {}
    <3>1. \A m \in 1..k - 1 : m \in 1..n /\ m < k
          OBVIOUS
    <3> QED BY <3>1 DEF Total
  <2>4. Tells(s, Total(W, k - 1)) /\ s \in Seq(Pairs)
        BY <2>1
  <2>5. Tells(s \o seqs[k], Total(W, k))
        BY <2>2, <2>3, <2>4, JoinSays
  <2>6. s \o seqs[k] \in Seq(Pairs)
        BY <2>5 DEF Tells
  <2> QED BY <2>1, <2>5, <2>6
<1>4. FlattenSeq(seqs) \in Good[n]
  <2> HIDE DEF Good
  <2> QED BY <1>1, <1>2, <1>3, FlattenInduction
<1>5. n \in 0..n
      OBVIOUS
<1>6. Tells(FlattenSeq(seqs), Total(W, n))
      BY <1>4, <1>5
<1> QED BY <1>6

(* The words of a text without the spaces between them.                      *)
LEMMA WordsSay ==
    ASSUME NEW t, NEW W, Tells(t, W)
    PROVE  /\ Tells(Words(t), W) /\ Space \notin W
           /\ \A n \in DOMAIN Words(t) : Words(t)[n] \in W
           /\ Blank(t) <=> W = {}
<1> DEFINE P == {n \in DOMAIN t : t[n] # Space}
           w == Words(t)
           size == Cardinality(P)
<1>1. t \in Seq(Pairs) /\ P \in SUBSET DOMAIN t
      BY DEF Tells
<1>2. /\ size \in Nat /\ InOrder(P) \in [1..size -> P]
      /\ \A m, n \in 1..size : m < n => InOrder(P)[m] < InOrder(P)[n]
      /\ \A x \in P : \E n \in 1..size : InOrder(P)[n] = x
      /\ w \in Seq(Pairs) /\ Len(w) = size
      /\ \A n \in 1..size : w[n] = t[InOrder(P)[n]]
  <2>1. w = Picked(t, P)
        BY DEF Words
  <2> HIDE DEF P, w
  <2> QED BY <1>1, <2>1, PickedFacts
<1>3. DOMAIN w = 1..size
  <2> HIDE DEF w
  <2> QED BY <1>2
<1>4. Space \notin W
      BY DEF Tells, Said
<1>5. \A n \in 1..size : InOrder(P)[n] \in P /\ InOrder(P)[n] \in Nat
  <2>1. P \in SUBSET Nat
        BY <1>1
  <2> HIDE DEF P
  <2> QED BY <1>2, <2>1
<1> HIDE DEF w, size
<1>6. Said(w) = W
  <2>1. ASSUME NEW n \in DOMAIN w PROVE w[n] \in W
    <3>1. n \in 1..size
          BY <1>3
    <3>2. InOrder(P)[n] \in P
          BY <1>5, <3>1
    <3>3. w[n] = t[InOrder(P)[n]]
          BY <1>2, <3>1
    <3> QED BY <3>2, <3>3 DEF Tells, Said
  <2>2. ASSUME NEW x \in W PROVE \E n \in DOMAIN w : w[n] = x
    <3>1. PICK m \in DOMAIN t : t[m] = x /\ x # Space
          BY DEF Tells, Said
    <3>2. m \in P
          BY <3>1
    <3>3. PICK n \in 1..size : InOrder(P)[n] = m
      <4> HIDE DEF P
      <4> QED BY <1>2, <3>2
    <3>4. w[n] = t[m]
      <4> HIDE DEF P
      <4> QED BY <1>2, <3>3
    <3> QED BY <1>3, <3>1, <3>3, <3>4
  <2> QED BY <1>4, <2>1, <2>2 DEF Said
<1>7. ASSUME NEW m \in DOMAIN w, NEW n \in DOMAIN w, w[m] = w[n] PROVE m = n
  <2> DEFINE p == InOrder(P)[m]
             q == InOrder(P)[n]
  <2>1. m \in 1..size /\ n \in 1..size
        BY <1>3
  <2>2. p \in P /\ q \in P /\ p \in Nat /\ q \in Nat
        BY <1>5, <2>1
  <2>3. t[p] = t[q]
        BY <1>2, <1>7, <2>1
  <2>4. p \in DOMAIN t /\ q \in DOMAIN t /\ t[p] # Space
        BY <2>2
  <2>5. p = q
        BY <2>3, <2>4 DEF Tells
  <2>6. /\ m < n => p < q
        /\ n < m => q < p
        BY <1>2, <2>1
  <2> HIDE DEF p, q
  <2> QED BY <1>2, <2>1, <2>2, <2>5, <2>6
<1>8. \A n \in DOMAIN w : w[n] \in W
      BY <1>4, <1>6, <1>3, <1>2, <1>5 DEF Tells, Said
<1>9. Tells(w, W)
      BY <1>2, <1>6, <1>7 DEF Tells
<1>10. w = <<>> <=> W = {}
  <2>1. w = <<>> => W = {}
    <3>1. w = <<>> => DOMAIN w = {}
          OBVIOUS
    <3> QED BY <1>6, <3>1 DEF Said
  <2>2. W = {} => DOMAIN w = {}
        BY <1>8
  <2>3. DOMAIN w = {} => w = <<>>
        BY <1>2, <1>3
  <2> QED BY <2>1, <2>2, <2>3
<1> QED BY <1>4, <1>8, <1>9, <1>10 DEF w, Blank

(* A text that says one word only is, but for spaces, the word.              *)
LEMMA OneWord ==
    ASSUME NEW t, NEW W, Tells(t, W), NEW w, w # Space
    PROVE  Words(t) = <<w>> <=> W = {w}
<1>1. Tells(Words(t), W) /\ (\A n \in DOMAIN Words(t) : Words(t)[n] \in W) /\ Words(t) \in Seq(Pairs)
      BY WordsSay DEF Tells
<1>2. ASSUME Words(t) = <<w>> PROVE W = {w}
  <2>1. DOMAIN Words(t) = {1} /\ Words(t)[1] = w
        BY <1>2
  <2> QED BY <1>1, <2>1 DEF Tells, Said
<1>3. ASSUME W = {w} PROVE Words(t) = <<w>>
  <2>1. \A n \in DOMAIN Words(t) : Words(t)[n] = w
        BY <1>1, <1>3
  <2>2. \A m, n \in DOMAIN Words(t) : m = n
        BY <1>1, <2>1 DEF Tells
  <2>3. DOMAIN Words(t) # {}
        BY <1>1, <1>3 DEF Tells, Said
  <2>4. DOMAIN Words(t) = 1..Len(Words(t)) /\ Len(Words(t)) \in Nat
        BY <1>1
  <2>5. Len(Words(t)) = 1
    <3>1. Len(Words(t)) # 0
          BY <2>3, <2>4
    <3>2. ASSUME Len(Words(t)) > 1 PROVE FALSE
      <4>1. 1 \in DOMAIN Words(t) /\ 2 \in DOMAIN Words(t)
            BY <2>4, <3>2
      <4> QED BY <2>2, <4>1
    <3> QED BY <2>4, <3>1, <3>2
  <2>6. Words(t)[1] = w
        BY <2>1, <2>4, <2>5
  <2> QED BY <1>1, <2>5, <2>6
<1> QED BY <1>2, <1>3

(* The words of some elements of a page.                                     *)
SpokenIn(pg, R) ==
    UNION {{Word(j, k) : k \in {j} \cup ChildSet(pg, j)} :
             j \in {m \in R : pg[m].text /\ pg[m].tag # "dropped"}}

Childless(pg) == \A i \in 1..Len(pg) : pg[i].tag = "dropped" => Within(pg, i) = {}

(* The words of some elements, one by one.                                   *)
LEMMA SpokenFacts ==
    ASSUME NEW pg, NEW R
    PROVE  \A w : w \in SpokenIn(pg, R) <=>
              \E j \in R : /\ pg[j].text /\ pg[j].tag # "dropped"
                           /\ \E k \in {j} \cup ChildSet(pg, j) : w = Word(j, k)
BY DEF SpokenIn

(* The words of elements together, apart, and of some of them.               *)
LEMMA SpokenTogether ==
    ASSUME NEW pg, NEW R, NEW Q
    PROVE  /\ SpokenIn(pg, R \cup Q) = SpokenIn(pg, R) \cup SpokenIn(pg, Q)
           /\ R \cap Q = {} => SpokenIn(pg, R) \cap SpokenIn(pg, Q) = {}
           /\ R \subseteq Q => SpokenIn(pg, R) \subseteq SpokenIn(pg, Q)
           /\ SpokenIn(pg, {}) = {}
<1>1. SpokenIn(pg, R \cup Q) = SpokenIn(pg, R) \cup SpokenIn(pg, Q)
      BY DEF SpokenIn
<1>2. ASSUME R \cap Q = {}, NEW w \in SpokenIn(pg, R), w \in SpokenIn(pg, Q) PROVE FALSE
  <2>1. PICK j \in R : \E k \in {j} \cup ChildSet(pg, j) : w = Word(j, k)
        BY SpokenFacts
  <2>2. PICK l \in Q : \E k \in {l} \cup ChildSet(pg, l) : w = Word(l, k)
        BY <1>2, SpokenFacts
  <2>3. w[1] = j /\ w[1] = l
        BY <2>1, <2>2 DEF Word
  <2> QED BY <1>2, <2>3
<1>3. R \subseteq Q => SpokenIn(pg, R) \subseteq SpokenIn(pg, Q)
      BY DEF SpokenIn
<1>4. SpokenIn(pg, {}) = {}
      BY DEF SpokenIn
<1> QED BY <1>1, <1>2, <1>3, <1>4

(* What an element says itself after one of its children, or at its start.   *)
Own(pg, i, k) == IF pg[i].text THEN {Word(i, k)} ELSE {}

(* The words an element has of its own.                                      *)
LEMMA OwnSays ==
    ASSUME NEW pg, NEW i \in 1..Len(pg), Len(pg) \in Nat, NEW k \in Nat
    PROVE  Tells(OwnWord(pg, i, k), Own(pg, i, k))
<1>1. i \in Nat /\ i # 0
      OBVIOUS
<1> QED BY <1>1, SaysWord, SaysNothing DEF OwnWord, Own

(* The text of an element says the words of all that is inside it.           *)
LEMMA TextSays ==
    ASSUME NEW pg, Nested(pg), Childless(pg)
    PROVE  \A i \in 1..Len(pg) : Tells(TextOf(pg, i), SpokenIn(pg, Subtree(pg, i)))
<1> DEFINE top == Len(pg)
           Ok(i) == Tells(TextOf(pg, i), SpokenIn(pg, Subtree(pg, i)))
           G == {i \in 0..top : i = 0 \/ Ok(i)}
<1>0. top \in Nat /\ pg \in Seq(Elements)
      BY DEF Nested
<1>1. ASSUME NEW i \in 1..top, \A j \in i + 1..top : Ok(j) PROVE Ok(i)
  <2>0. i \in 1..Len(pg) /\ i \in 0..Len(pg)
        BY <1>0
  <2>1. CASE pg[i].tag = "dropped"
    <3>1. TextOf(pg, i) = <<Space>>
          BY <1>0, <2>0, <2>1, TextSteps
    <3>2. Subtree(pg, i) = {i}
          BY <2>0, <2>1 DEF Subtree, Childless
    <3>3. SpokenIn(pg, {i}) = {}
          BY <2>1 DEF SpokenIn
    <3> QED BY <3>1, <3>2, <3>3, SaysSpace
  <2>2. CASE pg[i].tag # "dropped"
    <3> DEFINE ks == Children(pg, i)
               size == Cardinality(ChildSet(pg, i))
               seqs == [n \in DOMAIN ks |-> TextOf(pg, ks[n]) \o OwnWord(pg, i, ks[n])]
               W == [n \in 1..size |-> SpokenIn(pg, Subtree(pg, ks[n])) \cup Own(pg, i, ks[n])]
    <3>1. /\ size \in Nat /\ DOMAIN ks = 1..size
          /\ \A m \in 1..size : ks[m] \in ChildSet(pg, i) /\ ks[m] \in i + 1..Len(pg)
          /\ Subtrees(pg, ks, size) = Within(pg, i)
          BY <2>0, PartsFacts
    <3>2. /\ \A m, n \in 1..size : m < n => ks[m] < ks[n]
          /\ \A k \in ChildSet(pg, i) : \E n \in 1..size : ks[n] = k
      <4>1. /\ \A m, n \in DOMAIN ks : m < n => ks[m] < ks[n]
            /\ \A k \in ChildSet(pg, i) : \E n \in DOMAIN ks : ks[n] = k
            BY <1>0, <2>0, ChildrenFacts
      <4> HIDE DEF seqs, W, ks, size
      <4> QED BY <3>1, <4>1
    <3> HIDE DEF ks, size
    <3>3. Within(pg, i) \in SUBSET (i + 1..Len(pg))
          BY <2>0, WithinFacts
    <3>4. ASSUME NEW m \in 1..size
          PROVE  /\ ks[m] \in 1..Len(pg) /\ ks[m] \in Nat /\ ks[m] # i
                 /\ i \notin Subtree(pg, ks[m]) /\ Subtree(pg, ks[m]) \in SUBSET Within(pg, i)
      <4>1. ks[m] \in i + 1..Len(pg)
            BY <3>1
      <4>2. Subtree(pg, ks[m]) \in SUBSET Within(pg, i)
            BY <3>1 DEF Subtrees
      <4>3. i \notin i + 1..Len(pg)
            BY <2>0
      <4> QED BY <1>0, <2>0, <3>3, <4>1, <4>2, <4>3
    <3>5. ASSUME NEW m \in 1..size PROVE Tells(seqs[m], W[m])
      <4>1. seqs[m] = TextOf(pg, ks[m]) \o OwnWord(pg, i, ks[m])
            BY <3>1
      <4>2. W[m] = SpokenIn(pg, Subtree(pg, ks[m])) \cup Own(pg, i, ks[m])
            OBVIOUS
      <4>3. Tells(TextOf(pg, ks[m]), SpokenIn(pg, Subtree(pg, ks[m])))
            BY <1>1, <3>1
      <4>4. Tells(OwnWord(pg, i, ks[m]), Own(pg, i, ks[m]))
            BY <1>0, <2>0, <3>4, OwnSays
      <4>5. SpokenIn(pg, Subtree(pg, ks[m])) \cap Own(pg, i, ks[m]) = {}
        <5>1. ASSUME NEW w \in SpokenIn(pg, Subtree(pg, ks[m])), w \in Own(pg, i, ks[m]) PROVE FALSE
          <6>1. PICK j \in Subtree(pg, ks[m]) : \E k \in {j} \cup ChildSet(pg, j) : w = Word(j, k)
                BY SpokenFacts
          <6>2. w[1] = j /\ w[1] = i
                BY <5>1, <6>1 DEF Own, Word
          <6> QED BY <3>4, <6>1, <6>2
        <5> QED BY <5>1
      <4> HIDE DEF seqs, W
      <4> QED BY <4>1, <4>2, <4>3, <4>4, <4>5, JoinSays
    <3>6. ASSUME NEW l \in 1..size, NEW m \in 1..size, l < m PROVE W[l] \cap W[m] = {}
      <4>1. Subtree(pg, ks[l]) \cap Subtree(pg, ks[m]) = {}
        <5>1. ks[l] < ks[m] /\ ks[l] \in ChildSet(pg, i) /\ ks[m] \in ChildSet(pg, i)
              BY <3>1, <3>2, <3>6
        <5>2. ks[m] \notin Within(pg, ks[l]) /\ \A x \in Within(pg, ks[l]) : x < ks[m]
              BY <2>0, <5>1, ChildrenApart
        <5>3. Within(pg, ks[m]) \in SUBSET (ks[m] + 1..Len(pg)) /\ Within(pg, ks[l]) \in SUBSET (ks[l] + 1..Len(pg))
          <6>1. ks[m] \in 0..Len(pg) /\ ks[l] \in 0..Len(pg)
                BY <1>0, <3>4
          <6> QED BY <6>1, WithinFacts
        <5>4. \A x \in Subtree(pg, ks[l]) : x < ks[m] /\ x \in Nat
          <6>1. \A x \in Within(pg, ks[l]) : x \in Nat
                BY <1>0, <3>4, <5>3
          <6> QED BY <3>4, <5>1, <5>2, <6>1 DEF Subtree
        <5>5. \A x \in Subtree(pg, ks[m]) : ks[m] <= x /\ x \in Nat
          <6>1. \A x \in Within(pg, ks[m]) : x \in Nat /\ ks[m] <= x
                BY <1>0, <3>4, <5>3
          <6> QED BY <3>4, <6>1 DEF Subtree
        <5>6. ASSUME NEW x, x \in Subtree(pg, ks[l]), x \in Subtree(pg, ks[m]) PROVE FALSE
              BY <3>4, <5>4, <5>5, <5>6
        <5> QED BY <5>6
      <4>2. SpokenIn(pg, Subtree(pg, ks[l])) \cap SpokenIn(pg, Subtree(pg, ks[m])) = {}
            BY <4>1, SpokenTogether
      <4>3. \A x \in Own(pg, i, ks[l]) : x[1] = i /\ x[2] = ks[l]
            BY DEF Own, Word
      <4>4. \A x \in Own(pg, i, ks[m]) : x[1] = i /\ x[2] = ks[m]
            BY DEF Own, Word
      <4>5. \A x \in SpokenIn(pg, Subtree(pg, ks[l])) : x[1] # i
        <5>1. ASSUME NEW x \in SpokenIn(pg, Subtree(pg, ks[l])) PROVE x[1] # i
          <6>1. PICK j \in Subtree(pg, ks[l]) : \E k \in {j} \cup ChildSet(pg, j) : x = Word(j, k)
                BY SpokenFacts
          <6> QED BY <3>4, <6>1 DEF Word
        <5> QED BY <5>1
      <4>6. \A x \in SpokenIn(pg, Subtree(pg, ks[m])) : x[1] # i
        <5>1. ASSUME NEW x \in SpokenIn(pg, Subtree(pg, ks[m])) PROVE x[1] # i
          <6>1. PICK j \in Subtree(pg, ks[m]) : \E k \in {j} \cup ChildSet(pg, j) : x = Word(j, k)
                BY SpokenFacts
          <6> QED BY <3>4, <6>1 DEF Word
        <5> QED BY <5>1
      <4>7. ks[l] # ks[m]
        <5>1. ks[l] < ks[m] /\ ks[l] \in Nat /\ ks[m] \in Nat
              BY <3>2, <3>4, <3>6
        <5> QED BY <5>1
      <4>8. W[l] = SpokenIn(pg, Subtree(pg, ks[l])) \cup Own(pg, i, ks[l])
            /\ W[m] = SpokenIn(pg, Subtree(pg, ks[m])) \cup Own(pg, i, ks[m])
            OBVIOUS
      <4> HIDE DEF W
      <4> QED BY <4>2, <4>3, <4>4, <4>5, <4>6, <4>7, <4>8
    <3>7. DOMAIN seqs = 1..size /\ seqs = [m \in 1..size |-> seqs[m]]
          BY <3>1
    <3> DEFINE all == Total(W, size)
    <3>8. Tells(FlattenSeq(seqs), all)
      <4> HIDE DEF seqs, W
      <4> QED BY <3>1, <3>5, <3>6, <3>7, FlattenSays
    <3>9. Tells(OwnWord(pg, i, i), Own(pg, i, i))
          BY <1>0, <2>0, OwnSays
    <3>10. \A m \in 1..size : W[m] = SpokenIn(pg, Subtree(pg, ks[m])) \cup Own(pg, i, ks[m])
          OBVIOUS
    <3> HIDE DEF W
    <3>11. Own(pg, i, i) \cap all = {}
      <4>1. ASSUME NEW m \in 1..size, NEW w \in W[m] PROVE w # Word(i, i)
        <5>1. CASE w \in Own(pg, i, ks[m])
          <6>1. w[2] = ks[m]
                BY <5>1 DEF Own, Word
          <6> QED BY <3>4, <6>1 DEF Word
        <5>2. CASE w \in SpokenIn(pg, Subtree(pg, ks[m]))
          <6>1. PICK j \in Subtree(pg, ks[m]) : \E k \in {j} \cup ChildSet(pg, j) : w = Word(j, k)
                BY <5>2, SpokenFacts
          <6> QED BY <3>4, <6>1 DEF Word
        <5> QED BY <3>10, <5>1, <5>2
      <4> QED BY <4>1 DEF Own, Total
    <3>12. Own(pg, i, i) \cup all = SpokenIn(pg, Subtree(pg, i))
      <4>1. ASSUME NEW w \in Own(pg, i, i) PROVE w \in SpokenIn(pg, Subtree(pg, i))
        <5>1. pg[i].text /\ w = Word(i, i)
              BY DEF Own
        <5> QED BY <2>2, <5>1, SpokenFacts DEF Subtree
      <4>2. ASSUME NEW m \in 1..size, NEW w \in W[m] PROVE w \in SpokenIn(pg, Subtree(pg, i))
        <5>1. CASE w \in Own(pg, i, ks[m])
          <6>1. pg[i].text /\ w = Word(i, ks[m]) /\ ks[m] \in ChildSet(pg, i)
                BY <3>1, <5>1 DEF Own
          <6> QED BY <2>2, <6>1, SpokenFacts DEF Subtree
        <5>2. CASE w \in SpokenIn(pg, Subtree(pg, ks[m]))
          <6>1. Subtree(pg, ks[m]) \subseteq Subtree(pg, i)
                BY <3>4 DEF Subtree
          <6> QED BY <5>2, <6>1, SpokenTogether
        <5> QED BY <3>10, <5>1, <5>2
      <4>3. ASSUME NEW w \in SpokenIn(pg, Subtree(pg, i)) PROVE w \in Own(pg, i, i) \cup all
        <5>1. PICK j \in Subtree(pg, i) : /\ pg[j].text /\ pg[j].tag # "dropped"
                                       /\ \E k \in {j} \cup ChildSet(pg, j) : w = Word(j, k)
              BY SpokenFacts
        <5>2. PICK k \in {j} \cup ChildSet(pg, j) : w = Word(j, k)
              BY <5>1
        <5>3. CASE j = i /\ k = i
              BY <5>1, <5>2, <5>3 DEF Own
        <5>4. CASE j = i /\ k # i
          <6>1. PICK n \in 1..size : ks[n] = k
                BY <3>2, <5>2, <5>4
          <6>2. w \in Own(pg, i, ks[n])
                BY <5>1, <5>2, <5>4, <6>1 DEF Own
          <6> QED BY <3>10, <6>2 DEF Total
        <5>5. CASE j # i
          <6>1. j \in Subtrees(pg, ks, size)
                BY <3>1, <5>1, <5>5 DEF Subtree
          <6>2. PICK n \in 1..size : j \in Subtree(pg, ks[n])
                BY <6>1 DEF Subtrees
          <6>3. w \in SpokenIn(pg, Subtree(pg, ks[n]))
                BY <5>1, <6>2, SpokenFacts
          <6> QED BY <3>10, <6>3 DEF Total
        <5> QED BY <5>3, <5>4, <5>5
      <4> QED BY <4>1, <4>2, <4>3 DEF Total
    <3>13. TextOf(pg, i) = OwnWord(pg, i, i) \o FlattenSeq(seqs)
          BY <1>0, <2>0, <2>2, TextSteps DEF ks
    <3> HIDE DEF seqs, all
    <3>14. Tells(OwnWord(pg, i, i) \o FlattenSeq(seqs), Own(pg, i, i) \cup all)
          BY <3>8, <3>9, <3>11, JoinSays
    <3> QED BY <3>12, <3>13, <3>14
  <2> HIDE DEF Ok
  <2> QED BY <2>1, <2>2
<1>2. ASSUME NEW k \in 0..top, \A j \in k + 1..top : j \in G PROVE k \in G
  <2>1. \A j \in k + 1..top : j # 0
        BY <1>0
  <2> HIDE DEF Ok
  <2>2. k # 0 => k \in 1..top
        BY <1>0
  <2> QED BY <1>1, <1>2, <2>1, <2>2
<1>3. \A k \in 0..top : k \in G
  <2> HIDE DEF G, top
  <2> QED BY <1>0, <1>2, DownInduction
<1>4. \A k \in 1..top : k \in 0..top /\ k # 0
      BY <1>0
<1> HIDE DEF Ok
<1>5. \A k \in 1..top : Ok(k)
      BY <1>3, <1>4
<1> QED BY <1>5 DEF Ok

SiteTags == {"section", "nav", "h2", "p", "ul", "li", "a"}

(* All that is known of a page with navigation and content.                  *)
LEMMA SitePageFacts ==
    ASSUME PageNodes \in Nat, NEW pg \in SitePages
    PROVE  /\ Legal(pg, SiteTags) /\ Nested(pg) /\ pg \in Seq(Elements) /\ DOMAIN pg = 1..Len(pg)
           /\ Len(pg) \in Nat
           /\ \A i \in 1..Len(pg) : pg[i].tag \in SiteTags
           /\ Walked(pg, DOMAIN pg, FALSE, BlocksOf(pg))
           /\ ParseHtml(pg) = DocumentOf(pg, BlocksOf(pg))
<1>1. SiteTags \in SUBSET Tags
      BY DEF SiteTags, Tags, BlockTags, HeadingTags, Level, ContainerTags, ItemTags
<1>2. Legal(pg, SiteTags)
      BY <1>1, LegalPages DEF SitePages, SiteTags
<1>3. Nested(pg) /\ pg \in Seq(Elements) /\ (\A i \in 1..Len(pg) : pg[i].tag \in SiteTags)
      /\ DOMAIN pg = 1..Len(pg) /\ Len(pg) \in Nat
      BY <1>2 DEF Legal, Nested
<1>4. AfterDrop(pg) = pg
      BY <1>3, NothingDropped DEF DroppedTags, SiteTags
<1> QED BY <1>2, <1>3, <1>4, PageWalked DEF BlocksOf, ParseHtml

(* What is above an element has it inside.                                   *)
LEMMA AboveWithin ==
    ASSUME NEW pg, Nested(pg), NEW i \in 1..Len(pg)
    PROVE  \A j : j \in Above(pg, i) <=> j \in 1..Len(pg) /\ i \in Within(pg, j)
<1>1. ASSUME NEW j \in 1..Len(pg) PROVE Below(pg, j) = Within(pg, j) /\ Within(pg, j) \in SUBSET (j + 1..Len(pg))
  <2>1. j \in 0..Len(pg) /\ j # 0
        BY WithinFacts DEF Nested
  <2> QED BY <2>1, WithinFacts
<1>2. Len(pg) \in Nat
      BY DEF Nested
<1>3. \A j \in 1..i - 1 : j \in 1..Len(pg)
      BY <1>2
<1>4. ASSUME NEW j \in 1..Len(pg), i \in Within(pg, j) PROVE j \in 1..i - 1
  <2>1. i \in j + 1..Len(pg)
        BY <1>1, <1>4
  <2> QED BY <2>1
<1> QED BY <1>1, <1>3, <1>4 DEF Above

(* Every anchor has a link, and every link is of an anchor.                  *)
LEMMA LinkFacts ==
    ASSUME NEW pg, Nested(pg), NEW blocks
    PROVE  /\ \A n \in DOMAIN LinksOf(pg, blocks) :
                 \E a \in 1..Len(pg) : pg[a].tag = "a" /\ LinksOf(pg, blocks)[n] = LinkOf(pg, blocks, a)
           /\ \A a \in 1..Len(pg) : pg[a].tag = "a" =>
                 \E n \in DOMAIN LinksOf(pg, blocks) : LinksOf(pg, blocks)[n] = LinkOf(pg, blocks, a)
<1> DEFINE S == {i \in DOMAIN pg : pg[i].tag = "a"}
           anchors == InOrder(S)
<1>1. DOMAIN pg = 1..Len(pg) /\ Len(pg) \in Nat
      BY DEF Nested
<1>2. S \in SUBSET Nat /\ IsFiniteSet(S)
  <2>1. S \in SUBSET (1..Len(pg))
        BY <1>1
  <2>3. IsFiniteSet(1..Len(pg))
        BY <1>1, FS_Interval
  <2>2. S \in SUBSET Nat
        BY <1>1
  <2> HIDE DEF S
  <2> QED BY <2>1, <2>2, <2>3, FS_Subset
<1>3. LinksOf(pg, blocks) = [n \in DOMAIN anchors |-> LinkOf(pg, blocks, anchors[n])]
      BY DEF LinksOf
<1>4. \A a : a \in S <=> a \in 1..Len(pg) /\ pg[a].tag = "a"
      BY <1>1
<1> HIDE DEF S
<1>5. anchors \in [1..Cardinality(S) -> S] /\ \A x \in S : \E n \in 1..Cardinality(S) : anchors[n] = x
      BY <1>2, InOrderFacts
<1> HIDE DEF anchors
<1> QED BY <1>3, <1>4, <1>5

(* What is not said to be in furniture is not in it.                         *)
LEMMA SoundOutside ==
    ASSUME NEW pg, Nested(pg), NEW b, Sound(pg, DOMAIN pg, FALSE, b), ~b.chrome,
           \A i \in 1..Len(pg) : pg[i].tag # "noscript"
    PROVE  b.node \notin Furniture(pg)
<1>1. DOMAIN pg = 1..Len(pg)
      BY DEF Nested
<1>2. ASSUME b.node \in Furniture(pg) PROVE FALSE
  <2>1. PICK j \in Above(pg, b.node) \cup {b.node} : pg[j].tag \in ChromeContainers \cup {"noscript"}
        BY <1>2 DEF Furniture
  <2>2. b.node \in 1..Len(pg)
        BY <1>1 DEF Sound
  <2>3. j \in 1..Len(pg) /\ (b.node = j \/ b.node \in Within(pg, j))
        BY <2>1, <2>2, AboveWithin
  <2>4. pg[j].tag \in ChromeContainers
        BY <2>1, <2>3
  <2> QED BY <1>1, <2>3, <2>4 DEF Sound
<1> QED BY <1>2

(* What programmes and requirements are read from is no furniture.           *)
LEMMA ContentIsRead ==
    ASSUME PageNodes \in Nat
    PROVE  ContentOnly
<1> SUFFICES ASSUME NEW pg \in SitePages PROVE ContentOnlyIn(pg, ParseHtml(pg))
    BY DEF ContentOnly
<1> DEFINE blocks == BlocksOf(pg)
           doc == ParseHtml(pg)
<1>1. /\ Nested(pg) /\ DOMAIN pg = 1..Len(pg) /\ Walked(pg, DOMAIN pg, FALSE, blocks)
      /\ doc.blocks = blocks /\ doc.links = LinksOf(pg, blocks)
      /\ \A i \in 1..Len(pg) : pg[i].tag # "noscript"
  <2>1. \A i \in 1..Len(pg) : pg[i].tag \in SiteTags
        BY SitePageFacts
  <2>2. \A i \in 1..Len(pg) : pg[i].tag # "noscript"
        BY <2>1 DEF SiteTags
  <2>3. /\ Nested(pg) /\ DOMAIN pg = 1..Len(pg) /\ Walked(pg, DOMAIN pg, FALSE, blocks)
        /\ doc = DocumentOf(pg, blocks)
        BY SitePageFacts
  <2> HIDE DEF blocks, doc
  <2>4. doc.blocks = blocks /\ doc.links = LinksOf(pg, blocks)
        BY <2>3 DEF DocumentOf
  <2> QED BY <2>2, <2>3, <2>4
<1> HIDE DEF blocks, doc
<1>2. ASSUME NEW n \in DOMAIN blocks, ~blocks[n].chrome PROVE blocks[n].node \notin Furniture(pg)
  <2>1. Sound(pg, DOMAIN pg, FALSE, blocks[n])
        BY <1>1 DEF Walked
  <2> QED BY <1>1, <1>2, <2>1, SoundOutside
<1>3. ASSUME NEW c \in ProgrammeClaims(doc) PROVE BlockNode(doc, c.at) \notin Furniture(pg)
  <2>1. CASE \E n \in ProgrammeHeadings(doc) :
                c = Claim("PROGRAM_NAME", doc.blocks[n].text, doc.blocks[n].text, InBlock(n))
    <3>1. PICK n \in ProgrammeHeadings(doc) :
             c = Claim("PROGRAM_NAME", doc.blocks[n].text, doc.blocks[n].text, InBlock(n))
          BY <2>1
    <3>2. n \in DOMAIN blocks /\ ~blocks[n].chrome
          BY <1>1 DEF ProgrammeHeadings, BodyOrigin
    <3>3. c.at.block = n
          BY <3>1 DEF Claim, InBlock, NoWhere
    <3> QED BY <1>1, <1>2, <3>2, <3>3 DEF BlockNode
  <2>2. CASE \E n \in ProgrammeLinks(doc) :
                c = Claim("PROGRAM_NAME", doc.links[n].text, doc.links[n].text,
                          [NoWhere EXCEPT !.kind = "link", !.link = n, !.block = doc.links[n].block])
    <3>1. PICK n \in ProgrammeLinks(doc) :
             c = Claim("PROGRAM_NAME", doc.links[n].text, doc.links[n].text,
                       [NoWhere EXCEPT !.kind = "link", !.link = n, !.block = doc.links[n].block])
          BY <2>2
    <3>2. c.at.block = doc.links[n].block
          BY <3>1 DEF Claim, NoWhere
    <3>3. n \in DOMAIN doc.links /\ BodyOrigin(doc.links[n])
          BY DEF ProgrammeLinks
    <3>4. PICK a \in 1..Len(pg) : doc.links[n] = LinkOf(pg, blocks, a)
          BY <1>1, <3>3, LinkFacts
    <3> DEFINE b == BlockOfAnchor(pg, blocks, a)
    <3>5. /\ doc.links[n].block = b /\ doc.links[n].container = IF b = 0 THEN "none" ELSE blocks[b].container
          /\ doc.links[n].chrome = (b # 0 /\ blocks[b].chrome)
          BY <3>4 DEF LinkOf
    <3>6. b # 0 /\ ~blocks[b].chrome
          BY <3>3, <3>5 DEF BodyOrigin, BodyContainers
    <3>7. b \in DOMAIN blocks
          BY <3>6 DEF BlockOfAnchor
    <3> HIDE DEF b
    <3> QED BY <1>1, <1>2, <3>2, <3>5, <3>6, <3>7 DEF BlockNode
  <2> QED BY <2>1, <2>2 DEF ProgrammeClaims
<1>4. ASSUME NEW c \in AdmissionClaims(pg, doc) PROVE BlockNode(doc, c.at) \notin Furniture(pg)
  <2>1. PICK u \in AdmissionUnits(pg, doc) : c = Claim("ADMISSION_REQUIREMENT", u.text, u.text, u.at)
        BY DEF AdmissionClaims
  <2>2. PICK n \in DOMAIN doc.blocks : u \in UnitsOf(doc.blocks, n) /\ ~doc.blocks[n].chrome
        BY DEF AdmissionUnits, UnitsOutside
  <2>3. u.at.block = n
    <3>1. \A m : InItem(n, m).block = n
          BY DEF InItem, NoWhere
    <3>2. InBlock(n).block = n
          BY DEF InBlock, NoWhere
    <3>3. CASE doc.blocks[n].kind = "list"
      <4>1. PICK m \in DOMAIN doc.blocks[n].items : u = [text |-> doc.blocks[n].items[m], at |-> InItem(n, m)]
            BY <2>2, <3>3 DEF UnitsOf
      <4> QED BY <3>1, <4>1
    <3>4. CASE doc.blocks[n].kind # "list"
      <4>1. u = [text |-> doc.blocks[n].text, at |-> InBlock(n)]
            BY <2>2, <3>4 DEF UnitsOf
      <4> QED BY <3>2, <4>1
    <3> QED BY <3>3, <3>4
  <2>4. c.at.block = n
        BY <2>1, <2>3 DEF Claim
  <2> QED BY <1>1, <1>2, <2>2, <2>4 DEF BlockNode
<1> QED BY <1>3, <1>4 DEF ContentOnlyIn, doc

(* The items of a list are the texts of its items that have some.            *)
LEMMA ItemFacts ==
    ASSUME NEW pg \in Seq(Elements), NEW k \in 1..Len(pg), pg[k].tag \in {"ul", "ol"}
    PROVE  \A m \in DOMAIN ItemsOf(pg, ListItems(pg, k)) :
              \E x \in ChildSet(pg, k) : pg[x].tag = "li" /\ ItemsOf(pg, ListItems(pg, k))[m] = TextOf(pg, x)
<1> DEFINE ks == Children(pg, k)
           P == {n \in DOMAIN ks : pg[ks[n]].tag \in {"li"}}
           nodes == ListItems(pg, k)
           texts == [n \in DOMAIN nodes |-> TextOf(pg, nodes[n])]
           Q == {n \in DOMAIN nodes : ~Blank(TextOf(pg, nodes[n]))}
<1>1. k \in 0..Len(pg)
      OBVIOUS
<1>2. ks \in Seq(1..Len(pg)) /\ \A n \in DOMAIN ks : ks[n] \in ChildSet(pg, k)
  <2>1. ks \in Seq(1..Len(pg))
        BY <1>1, ChildrenType
  <2>2. ks \in [1..Cardinality(ChildSet(pg, k)) -> ChildSet(pg, k)]
        BY <1>1, ChildrenFacts
  <2> HIDE DEF ks
  <2> QED BY <2>1, <2>2
<1>3. nodes = Picked(ks, P)
      BY DEF ListItems, OfTags
<1> HIDE DEF ks, nodes
<1>4. /\ nodes \in Seq(1..Len(pg)) /\ Len(nodes) = Cardinality(P) /\ Cardinality(P) \in Nat
      /\ InOrder(P) \in [1..Cardinality(P) -> P]
      /\ \A n \in 1..Cardinality(P) : nodes[n] = ks[InOrder(P)[n]]
  <2>1. P \in SUBSET DOMAIN ks
        OBVIOUS
  <2> HIDE DEF P, texts, Q
  <2>2. /\ Cardinality(P) \in Nat /\ InOrder(P) \in [1..Cardinality(P) -> P]
        /\ Picked(ks, P) \in Seq(1..Len(pg)) /\ Len(Picked(ks, P)) = Cardinality(P)
        /\ \A n \in 1..Cardinality(P) : Picked(ks, P)[n] = ks[InOrder(P)[n]]
        BY <1>2, <2>1, PickedFacts
  <2> QED BY <1>3, <2>2
<1>5. ASSUME NEW n \in DOMAIN nodes PROVE nodes[n] \in ChildSet(pg, k) /\ pg[nodes[n]].tag = "li"
  <2>1. n \in 1..Cardinality(P)
    <3> HIDE DEF P
    <3> QED BY <1>4
  <2>2. InOrder(P)[n] \in P /\ nodes[n] = ks[InOrder(P)[n]]
    <3> HIDE DEF P
    <3>1. InOrder(P) \in [1..Cardinality(P) -> P]
          BY <1>4
    <3>2. InOrder(P)[n] \in P
          BY <2>1, <3>1
    <3>3. nodes[n] = ks[InOrder(P)[n]]
          BY <1>4, <2>1
    <3> QED BY <3>2, <3>3
  <2> QED BY <1>2, <2>2
<1>6. /\ texts \in Seq(Seq(Pairs)) /\ DOMAIN texts = DOMAIN nodes
      /\ \A n \in DOMAIN nodes : texts[n] = TextOf(pg, nodes[n])
  <2>1. \A n \in DOMAIN nodes : TextOf(pg, nodes[n]) \in Seq(Pairs)
        BY <1>4, TextType
  <2>2. texts \in [DOMAIN nodes -> Seq(Pairs)]
        BY <2>1
  <2>3. DOMAIN nodes = 1..Len(nodes) /\ Len(nodes) \in Nat
        BY <1>4
  <2> QED BY <2>2, <2>3
<1>7. ItemsOf(pg, nodes) = Picked(texts, Q)
      BY DEF ItemsOf
<1>8. Q \in SUBSET DOMAIN texts
      BY <1>6
<1>9. ASSUME NEW m \in DOMAIN ItemsOf(pg, nodes)
      PROVE  \E x \in ChildSet(pg, k) : pg[x].tag = "li" /\ ItemsOf(pg, nodes)[m] = TextOf(pg, x)
  <2> HIDE DEF texts, Q
  <2>1. /\ Cardinality(Q) \in Nat /\ InOrder(Q) \in [1..Cardinality(Q) -> Q]
        /\ Len(Picked(texts, Q)) = Cardinality(Q) /\ Picked(texts, Q) \in Seq(Seq(Pairs))
        /\ \A n \in 1..Cardinality(Q) : Picked(texts, Q)[n] = texts[InOrder(Q)[n]]
        BY <1>6, <1>8, PickedFacts
  <2>2. m \in 1..Cardinality(Q)
        BY <1>7, <2>1
  <2>3. InOrder(Q)[m] \in DOMAIN nodes
        BY <1>6, <1>8, <2>1, <2>2
  <2>4. ItemsOf(pg, nodes)[m] = TextOf(pg, nodes[InOrder(Q)[m]])
        BY <1>6, <1>7, <2>1, <2>2, <2>3
  <2> QED BY <1>5, <2>3, <2>4
<1> QED BY <1>9 DEF nodes

(* The texts of such a page, and those of its anchors.                       *)
LEMMA SiteTexts ==
    ASSUME PageNodes \in Nat, NEW pg \in SitePages
    PROVE  /\ \A i \in 1..Len(pg) : Tells(TextOf(pg, i), SpokenIn(pg, Subtree(pg, i)))
           /\ \A a \in 1..Len(pg) : pg[a].tag = "a" =>
                 /\ Words(TextOf(pg, a)) = <<Word(a, a)>>
                 /\ \A i \in 1..Len(pg) : a \in Within(pg, i) => Word(a, a) \in SpokenIn(pg, Subtree(pg, i))
<1>1. /\ Legal(pg, SiteTags) /\ Nested(pg) /\ DOMAIN pg = 1..Len(pg) /\ Len(pg) \in Nat
      /\ \A i \in 1..Len(pg) : pg[i].tag \in SiteTags
      BY SitePageFacts
<1>2. Childless(pg)
      BY <1>1 DEF Childless, SiteTags
<1>3. \A i \in 1..Len(pg) : Tells(TextOf(pg, i), SpokenIn(pg, Subtree(pg, i)))
      BY <1>1, <1>2, TextSays
<1>4. ASSUME NEW a \in 1..Len(pg), pg[a].tag = "a"
      PROVE  /\ Words(TextOf(pg, a)) = <<Word(a, a)>>
             /\ \A i \in 1..Len(pg) : a \in Within(pg, i) => Word(a, a) \in SpokenIn(pg, Subtree(pg, i))
  <2>0. a \in 0..Len(pg) /\ a # 0 /\ a \in Nat
        BY <1>1
  <2>1. ChildSet(pg, a) = {}
    <3>1. MayHold("a", SiteTags) = {}
          BY DEF MayHold, HeadingTags, Level
    <3>2. Tag(pg, a) = "a"
          BY <1>4, <2>0 DEF Tag
    <3> QED BY <1>1, <2>0, <3>1, <3>2 DEF Legal
  <2>2. Within(pg, a) = {}
        BY <1>1, <2>0, <2>1, ChildOver
  <2>3. pg[a].text
    <3>1. TextOptions("a") = {TRUE}
          BY DEF TextOptions
    <3>2. pg[a].text \in TextOptions("a")
          BY <1>1, <1>4 DEF Legal
    <3>3. pg[a].text = TRUE
          BY <3>1, <3>2
    <3> QED BY <3>3, Zenon
  <2>4. Subtree(pg, a) = {a}
        BY <2>2 DEF Subtree
  <2>5. SpokenIn(pg, Subtree(pg, a)) = {Word(a, a)}
    <3>1. \A w : w \in SpokenIn(pg, {a}) <=> w = Word(a, a)
          BY <1>4, <2>1, <2>3, SpokenFacts
    <3> DEFINE W == SpokenIn(pg, {a})
    <3> HIDE DEF W
    <3>2. W = {Word(a, a)}
          BY <3>1 DEF W
    <3> QED BY <2>4, <3>2 DEF W
  <2>6. Word(a, a) # Space
        BY <2>0, SaysWord
  <2>7. Words(TextOf(pg, a)) = <<Word(a, a)>>
        BY <1>3, <2>5, <2>6, OneWord
  <2>8. ASSUME NEW i \in 1..Len(pg), a \in Within(pg, i) PROVE Word(a, a) \in SpokenIn(pg, Subtree(pg, i))
    <3>1. a \in Subtree(pg, i)
          BY <2>8 DEF Subtree
    <3> QED BY <1>4, <2>3, <3>1, SpokenFacts
  <2> QED BY <2>7, <2>8
<1> QED BY <1>3, <1>4

(* An element with the words of an anchor inside it, and no others, has the  *)
(* anchor only; and so has what is between the two.                          *)
LEMMA OnlyLink ==
    ASSUME PageNodes \in Nat, NEW pg \in SitePages, NEW x \in 1..Len(pg), NEW a \in Within(pg, x),
           pg[a].tag = "a", Words(TextOf(pg, x)) = <<Word(a, a)>>
    PROVE  /\ LinkOnly(pg, x)
           /\ \A y \in Within(pg, x) : a \in Within(pg, y) => LinkOnly(pg, y)
<1>1. Nested(pg) /\ Len(pg) \in Nat
      BY SitePageFacts DEF Nested
<1>2. \A j \in 1..Len(pg) : Below(pg, j) = Within(pg, j) /\ Within(pg, j) \in SUBSET (1..Len(pg))
  <2>1. ASSUME NEW j \in 1..Len(pg) PROVE Below(pg, j) = Within(pg, j) /\ Within(pg, j) \in SUBSET (1..Len(pg))
    <3>1. j \in 0..Len(pg) /\ j # 0
          BY <1>1
    <3>2. Below(pg, j) = Within(pg, j) /\ Within(pg, j) \in SUBSET (j + 1..Len(pg))
          BY <1>1, <3>1, WithinFacts
    <3>3. j + 1..Len(pg) \in SUBSET (1..Len(pg))
          BY <1>1
    <3> QED BY <3>2, <3>3
  <2> QED BY <2>1
<1>3. a \in 1..Len(pg) /\ Word(a, a) # Space
  <2>1. a \in 1..Len(pg) /\ a \in Nat /\ a # 0
        BY <1>1, <1>2
  <2> QED BY <2>1, SaysWord
<1>4. /\ \A i \in 1..Len(pg) : Tells(TextOf(pg, i), SpokenIn(pg, Subtree(pg, i)))
      /\ \A l \in 1..Len(pg) : pg[l].tag = "a" =>
            /\ Words(TextOf(pg, l)) = <<Word(l, l)>>
            /\ \A i \in 1..Len(pg) : l \in Within(pg, i) => Word(l, l) \in SpokenIn(pg, Subtree(pg, i))
      BY SiteTexts
<1>5. SpokenIn(pg, Subtree(pg, x)) = {Word(a, a)}
      BY <1>3, <1>4, OneWord
<1>6. ASSUME NEW y \in 1..Len(pg), a \in Within(pg, y), SpokenIn(pg, Subtree(pg, y)) = {Word(a, a)}
      PROVE  LinkOnly(pg, y)
  <2>1. Words(TextOf(pg, y)) = <<Word(a, a)>>
        BY <1>3, <1>4, <1>6, OneWord
  <2>2. ASSUME NEW j \in Within(pg, y), pg[j].tag = "a" PROVE j = a
    <3>1. j \in 1..Len(pg)
          BY <1>2
    <3>2. Word(j, j) \in SpokenIn(pg, Subtree(pg, y))
          BY <1>4, <2>2, <3>1
    <3>3. Word(j, j) = Word(a, a)
          BY <1>6, <3>2
    <3> QED BY <3>3 DEF Word
  <2>3. {j \in Below(pg, y) : pg[j].tag = "a"} = {a}
        BY <1>2, <1>6, <2>2
  <2>4. Words(TextOf(pg, y)) = Words(TextOf(pg, a))
        BY <1>3, <1>4, <2>1
  <2> QED BY <2>3, <2>4 DEF LinkOnly
<1>7. ASSUME NEW y \in Within(pg, x), a \in Within(pg, y) PROVE LinkOnly(pg, y)
  <2>1. y \in 1..Len(pg) /\ x \in 0..Len(pg)
        BY <1>1, <1>2
  <2>2. Subtree(pg, y) \subseteq Subtree(pg, x)
        BY <1>1, <2>1, WithinWithin DEF Subtree
  <2>3. SpokenIn(pg, Subtree(pg, y)) \subseteq {Word(a, a)}
        BY <1>5, <2>2, SpokenTogether
  <2>4. Word(a, a) \in SpokenIn(pg, Subtree(pg, y))
        BY <1>3, <1>4, <1>7, <2>1
  <2>5. SpokenIn(pg, Subtree(pg, y)) = {Word(a, a)}
        BY <2>3, <2>4
  <2> QED BY <1>6, <1>7, <2>1, <2>5
<1> QED BY <1>5, <1>6, <1>7

(* The blocks of a page do not stand in one another.                         *)
LEMMA BlocksApart ==
    ASSUME NEW pg, Nested(pg), NEW blocks, Walked(pg, DOMAIN pg, FALSE, blocks),
           NEW m \in DOMAIN blocks, NEW n \in DOMAIN blocks, m # n,
           pg[blocks[m].node].tag \in BlockTags
    PROVE  /\ blocks[m].node \in 1..Len(pg) /\ blocks[n].node \in 1..Len(pg)
           /\ blocks[n].node \notin Subtree(pg, blocks[m].node)
           /\ pg[blocks[n].node].tag \in BlockTags =>
                 Subtree(pg, blocks[m].node) \cap Subtree(pg, blocks[n].node) = {}
<1> DEFINE p == blocks[m].node
           q == blocks[n].node
<1>1. Sound(pg, DOMAIN pg, FALSE, blocks[m]) /\ Sound(pg, DOMAIN pg, FALSE, blocks[n])
      BY DEF Walked
<1>2. /\ DOMAIN pg = 1..Len(pg) /\ Len(pg) \in Nat
      /\ DOMAIN blocks = 1..Len(blocks) /\ Len(blocks) \in Nat
      BY DEF Nested, Walked
<1>3. p \in 1..Len(pg) /\ q \in 1..Len(pg) /\ p \in 0..Len(pg) /\ q \in 0..Len(pg)
      BY <1>1, <1>2 DEF Sound
<1>4. p # q
  <2>1. m < n \/ n < m
        BY <1>2
  <2> QED BY <2>1 DEF Walked
<1>5. q \notin Within(pg, p)
      BY <1>1, <1>2, <1>3 DEF Sound
<1>6. ASSUME pg[q].tag \in BlockTags, NEW x \in Subtree(pg, p), x \in Subtree(pg, q) PROVE FALSE
  <2>1. p \notin Within(pg, q)
        BY <1>1, <1>2, <1>3, <1>6 DEF Sound
  <2>2. x \in Within(pg, p) /\ x \in Within(pg, q)
        BY <1>4, <1>5, <1>6, <2>1 DEF Subtree
  <2>3. p < q => q \in Within(pg, p)
        BY <1>3, <2>2, WithinChain
  <2>4. q < p => p \in Within(pg, q)
        BY <1>3, <2>2, WithinChain
  <2> QED BY <1>3, <1>4, <1>5, <2>1, <2>3, <2>4
<1> QED BY <1>3, <1>4, <1>5, <1>6 DEF Subtree

(* The block of an anchor is the only one it is inside.                      *)
LEMMA AnchorHeld ==
    ASSUME NEW pg, Nested(pg), NEW blocks, Walked(pg, DOMAIN pg, FALSE, blocks),
           NEW n \in DOMAIN blocks, pg[blocks[n].node].tag \in BlockTags \ {"pre"},
           NEW a \in Within(pg, blocks[n].node)
    PROVE  BlockOfAnchor(pg, blocks, a) = n /\ n # 0
<1> DEFINE holds == {b \in DOMAIN blocks : /\ a \in Below(pg, blocks[b].node)
                                           /\ pg[blocks[b].node].tag \in BlockTags \ {"pre"}}
<1>1. DOMAIN pg = 1..Len(pg) /\ Len(pg) \in Nat /\ DOMAIN blocks = 1..Len(blocks)
      BY DEF Nested, Walked
<1>2. \A b \in DOMAIN blocks : blocks[b].node \in 1..Len(pg)
      BY <1>1 DEF Walked, Sound
<1>3. \A j \in 1..Len(pg) : Below(pg, j) = Within(pg, j)
  <2>1. ASSUME NEW j \in 1..Len(pg) PROVE Below(pg, j) = Within(pg, j)
    <3>1. j \in 0..Len(pg) /\ j # 0
          BY <1>1
    <3> QED BY <3>1, WithinFacts
  <2> QED BY <2>1
<1>4. n \in holds
      BY <1>2, <1>3
<1>5. ASSUME NEW b \in holds PROVE b = n
  <2>1. b \in DOMAIN blocks /\ pg[blocks[b].node].tag \in BlockTags /\ a \in Within(pg, blocks[b].node)
        BY <1>2, <1>3
  <2>2. ASSUME b # n PROVE FALSE
    <3>1. Subtree(pg, blocks[b].node) \cap Subtree(pg, blocks[n].node) = {}
          BY <2>1, <2>2, BlocksApart
    <3> QED BY <2>1, <3>1 DEF Subtree
  <2> QED BY <2>2
<1>6. holds # {} /\ (CHOOSE b \in holds : TRUE) = n
  <2> HIDE DEF holds
  <2> QED BY <1>4, <1>5
<1>7. BlockOfAnchor(pg, blocks, a) = IF holds = {} THEN 0 ELSE CHOOSE b \in holds : TRUE
      BY DEF BlockOfAnchor
<1> HIDE DEF holds
<1>8. BlockOfAnchor(pg, blocks, a) = n
      BY <1>6, <1>7
<1>9. n # 0
      BY <1>1
<1> QED BY <1>8, <1>9

(* An anchor alone in an item of a list is alone in its innermost item.      *)
LEMMA ItemHasLinkOnly ==
    ASSUME PageNodes \in Nat, NEW pg \in SitePages, NEW k \in 1..Len(pg), NEW x \in Within(pg, k),
           pg[x].tag = "li", NEW a \in Within(pg, x), pg[a].tag = "a",
           Words(TextOf(pg, x)) = <<Word(a, a)>>
    PROVE  ItemIsLinkOnly(pg, a, k)
<1> DEFINE items == {j \in Above(pg, a) \cap Below(pg, k) : pg[j].tag \in ItemTags}
           Inner(j) == \A l \in items : l <= j
<1>1. Nested(pg) /\ Len(pg) \in Nat
      BY SitePageFacts
<1>2. \A j \in 1..Len(pg) : Below(pg, j) = Within(pg, j) /\ Within(pg, j) \in SUBSET (1..Len(pg))
  <2>1. ASSUME NEW j \in 1..Len(pg) PROVE Below(pg, j) = Within(pg, j) /\ Within(pg, j) \in SUBSET (1..Len(pg))
    <3>1. j \in 0..Len(pg) /\ j # 0
          BY <1>1
    <3>2. Below(pg, j) = Within(pg, j) /\ Within(pg, j) \in SUBSET (j + 1..Len(pg))
          BY <1>1, <3>1, WithinFacts
    <3>3. j + 1..Len(pg) \in SUBSET (1..Len(pg))
          BY <1>1
    <3> QED BY <3>2, <3>3
  <2> QED BY <2>1
<1>3. x \in 1..Len(pg) /\ a \in 1..Len(pg) /\ x \in 0..Len(pg)
  <2>1. x \in 1..Len(pg)
        BY <1>2
  <2> QED BY <1>1, <1>2, <2>1
<1>4. \A j : j \in Above(pg, a) <=> j \in 1..Len(pg) /\ a \in Within(pg, j)
      BY <1>1, <1>3, AboveWithin
<1>5. x \in items
      BY <1>2, <1>3, <1>4 DEF ItemTags
<1>6. items \in SUBSET (1..Len(pg)) /\ \A j \in items : a \in Within(pg, j)
      BY <1>4
<1>7. \A y \in Within(pg, x) : a \in Within(pg, y) => LinkOnly(pg, y)
      BY <1>3, OnlyLink
<1>8. LinkOnly(pg, x)
      BY <1>3, OnlyLink
<1>9. ASSUME NEW j \in items, Inner(j) PROVE LinkOnly(pg, j)
  <2>1. x <= j /\ j \in 1..Len(pg) /\ j \in 0..Len(pg) /\ a \in Within(pg, j)
    <3>1. x <= j
          BY <1>5, <1>9
    <3> HIDE DEF items
    <3> QED BY <1>1, <1>6, <3>1
  <2>2. CASE x = j
        BY <1>8, <2>2
  <2>3. CASE x # j
    <3>1. x < j
          BY <1>3, <2>1, <2>3
    <3>2. j \in Within(pg, x)
          BY <1>1, <1>3, <2>1, <3>1, WithinChain
    <3> QED BY <1>7, <2>1, <3>2
  <2> QED BY <2>2, <2>3
<1>10. \E j \in items : Inner(j)
  <2> DEFINE T == {Len(pg) - j : j \in items}
  <2> HIDE DEF items
  <2>1. T \in SUBSET Nat /\ T # {}
    <3>1. \A j \in items : Len(pg) - j \in Nat
          BY <1>1, <1>6
    <3> QED BY <1>5, <3>1
  <2>2. PICK t \in T : \A u \in T : t <= u
        BY <2>1, FirstExists
  <2>3. PICK j \in items : t = Len(pg) - j
        BY <2>2
  <2>4. \A l \in items : Len(pg) - j <= Len(pg) - l
        BY <2>2, <2>3
  <2>5. Inner(j)
    <3>1. j \in 1..Len(pg) /\ \A l \in items : l \in 1..Len(pg)
          BY <1>6
    <3> HIDE DEF T
    <3> QED BY <1>1, <2>4, <3>1
  <2> QED BY <2>5
<1>11. LinkOnly(pg, CHOOSE j \in items : Inner(j))
  <2> HIDE DEF items, Inner
  <2> QED BY <1>9, <1>10
<1> QED BY <1>5, <1>11 DEF ItemIsLinkOnly

LEMMA TwoOfOne == ASSUME NEW x, NEW y PROVE <<x>> \o <<y>> = <<x, y>>
<1> DEFINE X == {x, y}
           s == <<x>>
           t == <<y>>
           u == s \o t
           v == <<x, y>>
<1>1. s \in Seq(X) /\ t \in Seq(X) /\ v \in Seq(X) /\ Len(s) = 1 /\ Len(t) = 1 /\ Len(v) = 2
      /\ s[1] = x /\ t[1] = y /\ v[1] = x /\ v[2] = y
      OBVIOUS
<1> HIDE DEF s, t, v, X
<1>2. /\ s \o t \in Seq(X) /\ Len(s \o t) = Len(s) + Len(t)
      /\ \A n \in DOMAIN s : (s \o t)[n] = s[n]
      /\ \A n \in DOMAIN t : (s \o t)[Len(s) + n] = t[n]
      BY <1>1, ConcatFacts
<1>4. DOMAIN s = {1} /\ DOMAIN t = {1} /\ 1 + 1 = 2
      BY <1>1
<1>5. u \in Seq(X) /\ Len(u) = 2 /\ u[1] = x /\ u[2] = y
      BY <1>1, <1>2, <1>4
<1> HIDE DEF u
<1>3. u = v
  <2>1. Len(u) = Len(v) /\ \A i \in 1..Len(u) : u[i] = v[i]
        BY <1>1, <1>5
  <2> QED BY <1>1, <1>5, <2>1, SeqEqual
<1> QED BY <1>3 DEF u, s, t, v

(* Bare text is what the element itself has to say.                          *)
LEMMA BareTextSaysItself ==
    ASSUME NEW pg, Nested(pg), NEW k \in 1..Len(pg)
    PROVE  Tells(BareText(pg, k), {Word(k, j) : j \in {k} \cup ChildSet(pg, k)})
<1> DEFINE ks == Children(pg, k)
           size == Cardinality(ChildSet(pg, k))
           seqs == [n \in DOMAIN ks |-> <<Space, Word(k, ks[n])>>]
           W == [n \in 1..size |-> {Word(k, ks[n])}]
<1>1. k \in 0..Len(pg) /\ k \in Nat /\ k # 0 /\ Len(pg) \in Nat /\ pg \in Seq(Elements)
      BY WithinFacts DEF Nested
<1>2. /\ size \in Nat /\ DOMAIN ks = 1..size
      /\ \A m \in 1..size : ks[m] \in ChildSet(pg, k) /\ ks[m] \in k + 1..Len(pg)
      BY <1>1, PartsFacts
<1>3. /\ \A m, n \in 1..size : m < n => ks[m] < ks[n]
      /\ \A x \in ChildSet(pg, k) : \E n \in 1..size : ks[n] = x
  <2>1. /\ \A m, n \in DOMAIN ks : m < n => ks[m] < ks[n]
        /\ \A x \in ChildSet(pg, k) : \E n \in DOMAIN ks : ks[n] = x
        BY <1>1, ChildrenFacts
  <2> HIDE DEF seqs, W, ks, size
  <2> QED BY <1>2, <2>1
<1> HIDE DEF ks, size
<1>4. \A m \in 1..size : ks[m] \in Nat /\ ks[m] # k
      BY <1>1, <1>2
<1>5. ASSUME NEW m \in 1..size PROVE Tells(seqs[m], W[m])
  <2> DEFINE w == Word(k, ks[m])
  <2>1. seqs[m] = <<Space, w>> /\ W[m] = {w}
        BY <1>2
  <2>2. Tells(<<w>>, {w}) /\ w # Space
        BY <1>1, <1>4, SaysWord
  <2>3. Tells(<<Space>> \o <<w>>, {} \cup {w})
        BY <2>2, SaysSpace, JoinSays
  <2> HIDE DEF w, seqs, W
  <2>4. <<Space>> \o <<w>> = <<Space, w>>
        BY TwoOfOne
  <2>5. {} \cup {w} = {w}
        OBVIOUS
  <2> QED BY <2>1, <2>3, <2>4, <2>5
<1>6. ASSUME NEW l \in 1..size, NEW m \in 1..size, l < m PROVE W[l] \cap W[m] = {}
  <2>1. ks[l] # ks[m]
    <3>1. ks[l] < ks[m] /\ ks[l] \in Nat /\ ks[m] \in Nat
          BY <1>3, <1>4, <1>6
    <3> QED BY <3>1
  <2>2. Word(k, ks[l]) # Word(k, ks[m])
        BY <2>1 DEF Word
  <2> QED BY <2>2
<1>7. DOMAIN seqs = 1..size /\ seqs = [m \in 1..size |-> seqs[m]]
      BY <1>2
<1>8. \A m \in 1..size : W[m] = {Word(k, ks[m])}
      OBVIOUS
<1>9. BareText(pg, k) = <<Word(k, k)>> \o FlattenSeq(seqs)
      BY DEF BareText, ks
<1> HIDE DEF seqs, W
<1>10. Tells(FlattenSeq(seqs), Total(W, size))
      BY <1>2, <1>5, <1>6, <1>7, FlattenSays
<1>11. Tells(<<Word(k, k)>>, {Word(k, k)})
      BY <1>1, SaysWord
<1>12. {Word(k, k)} \cap Total(W, size) = {}
  <2>1. \A m \in 1..size : Word(k, k) # Word(k, ks[m])
        BY <1>4 DEF Word
  <2> QED BY <1>8, <2>1 DEF Total
<1>13. {Word(k, k)} \cup Total(W, size) = {Word(k, j) : j \in {k} \cup ChildSet(pg, k)}
      BY <1>2, <1>3, <1>8 DEF Total
<1>14. Tells(<<Word(k, k)>> \o FlattenSeq(seqs), {Word(k, k)} \cup Total(W, size))
      BY <1>10, <1>11, <1>12, JoinSays
<1> QED BY <1>9, <1>13, <1>14

(* The words of a requirement are never those of an anchor in a block.       *)
LEMMA LabelsLeftOut ==
    ASSUME PageNodes \in Nat
    PROVE  LabelsAreNoRequirements
<1> SUFFICES ASSUME NEW pg \in SitePages, NEW c \in AdmissionClaims(pg, ParseHtml(pg)),
                    NEW a \in InBlocks(pg), pg[a].tag = "a", Words(TextOf(pg, a)) = Words(c.raw)
             PROVE  FALSE
    BY DEF LabelsAreNoRequirements
<1> DEFINE blocks == BlocksOf(pg)
           doc == ParseHtml(pg)
<1>1. /\ Nested(pg) /\ DOMAIN pg = 1..Len(pg) /\ Len(pg) \in Nat /\ pg \in Seq(Elements)
      /\ Walked(pg, DOMAIN pg, FALSE, blocks)
      /\ doc = DocumentOf(pg, blocks) /\ \A i \in 1..Len(pg) : pg[i].tag \in SiteTags
      BY SitePageFacts
<1>2. PICK u \in AdmissionUnits(pg, doc) : c = Claim("ADMISSION_REQUIREMENT", u.text, u.text, u.at)
      BY DEF AdmissionClaims
<1> HIDE DEF blocks, doc
<1>3. doc.blocks = blocks /\ doc.links = LinksOf(pg, blocks)
      BY <1>1 DEF DocumentOf
<1>4. c.raw = u.text
      BY <1>2 DEF Claim
<1>5. PICK n \in DOMAIN blocks : u \in UnitsOf(blocks, n)
      BY <1>3 DEF AdmissionUnits, UnitsOutside
<1>6. ~IsLabel(pg, doc, u)
      BY DEF AdmissionUnits
<1> DEFINE k == blocks[n].node
<1>7. Sound(pg, DOMAIN pg, FALSE, blocks[n]) /\ Made(pg, blocks[n]) /\ k \in 1..Len(pg)
      BY <1>1 DEF Walked, Sound
<1>8. /\ a \in 1..Len(pg) /\ a \in Nat /\ a # 0 /\ Word(a, a) # Space
      /\ Words(TextOf(pg, a)) = <<Word(a, a)>> /\ Words(u.text) = <<Word(a, a)>>
      /\ \A i \in 1..Len(pg) : Tells(TextOf(pg, i), SpokenIn(pg, Subtree(pg, i)))
  <2>1. a \in 1..Len(pg) /\ a \in Nat /\ a # 0
        BY <1>1 DEF InBlocks
  <2>2. Words(TextOf(pg, a)) = <<Word(a, a)>>
        BY <2>1, SiteTexts
  <2>3. \A i \in 1..Len(pg) : Tells(TextOf(pg, i), SpokenIn(pg, Subtree(pg, i)))
        BY SiteTexts
  <2>4. Word(a, a) # Space
        BY <2>1, SaysWord
  <2> QED BY <1>4, <2>1, <2>2, <2>3, <2>4
(* The word of an anchor is in no element but those around it.               *)
<1>9. ASSUME NEW x \in 1..Len(pg), pg[x].tag # "a", Words(TextOf(pg, x)) = <<Word(a, a)>>
      PROVE  a \in Within(pg, x)
  <2>1. SpokenIn(pg, Subtree(pg, x)) = {Word(a, a)}
        BY <1>8, <1>9, OneWord
  <2>2. PICK j \in Subtree(pg, x) : \E m \in {j} \cup ChildSet(pg, j) : Word(a, a) = Word(j, m)
        BY <2>1, SpokenFacts
  <2>3. j = a
        BY <2>2 DEF Word
  <2>4. a # x
        BY <1>9
  <2> QED BY <2>2, <2>3, <2>4 DEF Subtree
<1>10. CASE blocks[n].kind = "list"
  <2>1. PICK m \in DOMAIN blocks[n].items : u = [text |-> blocks[n].items[m], at |-> InItem(n, m)]
        BY <1>5, <1>10 DEF UnitsOf
  <2>2. u.text = blocks[n].items[m] /\ u.at.kind = "list_item" /\ u.at.block = n
    <3>1. InItem(n, m).kind = "list_item" /\ InItem(n, m).block = n
          BY DEF InItem, NoWhere
    <3> QED BY <2>1, <3>1
  <2>3. pg[k].tag = "ul"
    <3>1. pg[k].tag \in Lists \cup {"table"} \cup HeadingTags \cup (BlockTags \ (Lists \cup {"table"})) \cup (SiteTags \ BlockTags)
          BY <1>1, <1>7
    <3>2. pg[k].tag \in Lists
          BY <1>7, <1>10, <3>1 DEF Made
    <3> QED BY <1>1, <1>7, <3>2 DEF Lists, SiteTags
  <2>4. blocks[n].items = ItemsOf(pg, ListItems(pg, k))
        BY <1>7, <2>3 DEF Made, Lists
  <2>5. PICK x \in ChildSet(pg, k) : pg[x].tag = "li" /\ blocks[n].items[m] = TextOf(pg, x)
        BY <1>1, <1>7, <2>3, <2>4, ItemFacts
  <2>6. k \in 0..Len(pg)
        BY <1>1, <1>7
  <2>7. x \in Within(pg, k) /\ x \in 1..Len(pg)
    <3>1. x \in Within(pg, k) /\ Within(pg, k) \in SUBSET (k + 1..Len(pg))
          BY <1>1, <2>6, WithinFacts
    <3>2. k + 1..Len(pg) \in SUBSET (1..Len(pg))
          BY <1>1, <2>6
    <3> QED BY <3>1, <3>2
  <2>8. Words(TextOf(pg, x)) = <<Word(a, a)>>
        BY <1>8, <2>2, <2>5
  <2>9. a \in Within(pg, x)
        BY <1>9, <2>5, <2>7, <2>8
  <2>10. a \in Within(pg, k)
        BY <1>1, <2>6, <2>7, <2>9, WithinWithin
  <2>11. pg[k].tag \in BlockTags \ {"pre"}
        BY <2>3 DEF BlockTags
  <2>12. BlockOfAnchor(pg, blocks, a) = n /\ n # 0
        BY <1>1, <2>10, <2>11, AnchorHeld
  <2>13. ItemIsLinkOnly(pg, a, k)
        BY <1>7, <2>5, <2>7, <2>8, <2>9, ItemHasLinkOnly
  <2>14. PICK i \in DOMAIN doc.links : doc.links[i] = LinkOf(pg, blocks, a)
        BY <1>1, <1>3, <1>8, LinkFacts
  <2>15. /\ doc.links[i].itemOnly /\ doc.links[i].block = n
         /\ doc.links[i].text = TextOf(pg, a)
    <3> DEFINE l == LinkOf(pg, blocks, a)
    <3>1. /\ l.block = BlockOfAnchor(pg, blocks, a)
          /\ l.text = TextOf(pg, a)
          /\ l.itemOnly = (/\ BlockOfAnchor(pg, blocks, a) # 0
                           /\ ItemIsLinkOnly(pg, a, blocks[BlockOfAnchor(pg, blocks, a)].node))
          BY DEF LinkOf
    <3>2. blocks[n].node = k
          OBVIOUS
    <3> HIDE DEF l, k
    <3>3. l.itemOnly = (n # 0 /\ ItemIsLinkOnly(pg, a, k))
          BY <2>12, <3>1, <3>2, Zenon
    <3>4. l.itemOnly
          BY <2>12, <2>13, <3>3, Zenon
    <3>5. doc.links[i] = l
          BY <2>14 DEF l
    <3> QED BY <2>12, <3>1, <3>4, <3>5, Zenon
  <2>16. doc.links[i] \in ToSet(doc.links)
        BY DEF ToSet
  <2>17. IsLabel(pg, doc, u)
        BY <1>8, <2>2, <2>15, <2>16 DEF IsLabel
  <2> QED BY <1>6, <2>17
<1>11. CASE blocks[n].kind # "list"
  <2>1. u = [text |-> blocks[n].text, at |-> InBlock(n)]
        BY <1>5, <1>11 DEF UnitsOf
  <2>2. u.text = blocks[n].text /\ u.at.kind = "block" /\ u.at.block = n
    <3>1. InBlock(n).kind = "block" /\ InBlock(n).block = n
          BY DEF InBlock, NoWhere
    <3> QED BY <2>1, <3>1
  <2>3. CASE pg[k].tag \in BlockTags
    <3>1. pg[k].tag \in BlockTags \ (Lists \cup {"table"}) /\ pg[k].tag # "a"
      <4>1. pg[k].tag \notin Lists
            BY <1>7, <1>11 DEF Made
      <4>2. pg[k].tag \in SiteTags
            BY <1>1, <1>7
      <4> QED BY <2>3, <4>1, <4>2 DEF SiteTags, BlockTags, HeadingTags, Level
    <3>2. blocks[n].text = TextOf(pg, k)
          BY <1>7, <3>1 DEF Made
    <3>3. Words(TextOf(pg, k)) = <<Word(a, a)>>
          BY <1>8, <2>2, <3>2
    <3>4. LinkOnly(pg, k)
          BY <1>7, <1>8, <1>9, <3>1, <3>3, OnlyLink
    <3>5. IsLabel(pg, doc, u)
          BY <1>3, <2>2, <3>4 DEF IsLabel
    <3> QED BY <1>6, <3>5
  <2>4. CASE pg[k].tag \notin BlockTags
    <3>1. blocks[n].text = BareText(pg, k)
          BY <1>7, <2>4 DEF Made
    <3> DEFINE W == {Word(k, j) : j \in {k} \cup ChildSet(pg, k)}
    <3>2. Tells(BareText(pg, k), W)
          BY <1>1, <1>7, BareTextSaysItself
    <3>3. Words(BareText(pg, k)) = <<Word(a, a)>>
          BY <1>8, <2>2, <3>1
    <3>4. W = {Word(a, a)}
      <4> HIDE DEF W
      <4> QED BY <1>8, <3>2, <3>3, OneWord
    <3>5. k = a
      <4>1. Word(k, k) \in W
            OBVIOUS
      <4> HIDE DEF W
      <4>2. Word(k, k) = Word(a, a)
            BY <3>4, <4>1
      <4> QED BY <4>2 DEF Word
    <3>6. PICK j \in Above(pg, a) : pg[j].tag \in BlockTags
          BY DEF InBlocks
    <3>7. j \in DOMAIN pg /\ k \in Within(pg, j)
          BY <1>1, <1>8, <3>5, <3>6, AboveWithin
    <3> QED BY <1>7, <3>6, <3>7 DEF Sound
  <2> QED BY <2>3, <2>4
<1> QED BY <1>10, <1>11

-----------------------------------------------------------------------------
(* Every word once *)

(* A sequence of the words of a set, each once and nothing between them.     *)
Recites(t, W) == Tells(t, W) /\ t \in Seq(Pairs \ {Space})

(* It has as many words as the set.                                          *)
LEMMA RecitesOnce ==
    ASSUME NEW t, NEW W, Recites(t, W)
    PROVE  ToSet(t) = W /\ Len(t) = Cardinality(W)
<1>1. /\ t \in Seq(Pairs) /\ DOMAIN t = 1..Len(t) /\ Len(t) \in Nat
      /\ \A n \in DOMAIN t : t[n] # Space
      BY DEF Recites
<1>2. ToSet(t) = W
      BY <1>1 DEF ToSet, Recites, Tells, Said
<1>3. t \in Bijection(1..Len(t), W)
  <2>1. t \in [1..Len(t) -> W]
        BY <1>1, <1>2 DEF ToSet
  <2>2. \A m, n \in 1..Len(t) : t[m] = t[n] => m = n
        BY <1>1 DEF Recites, Tells
  <2>3. \A w \in W : \E n \in 1..Len(t) : t[n] = w
        BY <1>1, <1>2 DEF ToSet
  <2> QED BY <2>1, <2>2, <2>3 DEF Bijection, Injection, IsInjective, Surjection
<1>4. Cardinality(W) = Len(t)
      BY <1>1, <1>3, FS_CountingElements DEF ExistsBijection
<1> QED BY <1>2, <1>4

(* The words of a text, of two and of many.                                  *)
LEMMA WordsRecite ==
    ASSUME NEW t, NEW W, Tells(t, W)
    PROVE  Recites(Words(t), W)
<1>1. Tells(Words(t), W) /\ Space \notin W /\ \A n \in DOMAIN Words(t) : Words(t)[n] \in W
      BY WordsSay
<1>2. Words(t) \in Seq(Pairs)
      BY <1>1 DEF Tells
<1> DEFINE w == Words(t)
<1> HIDE DEF w
<1>3. ASSUME w \in Seq(Pairs), \A n \in DOMAIN w : w[n] # Space PROVE w \in Seq(Pairs \ {Space})
  <2>1. DOMAIN w = 1..Len(w) /\ Len(w) \in Nat /\ \A n \in 1..Len(w) : w[n] \in Pairs \ {Space}
        BY <1>3
  <2>2. w \in [1..Len(w) -> Pairs \ {Space}]
        BY <1>3, <2>1
  <2> QED BY <2>1, <2>2
<1>4. \A n \in DOMAIN Words(t) : Words(t)[n] # Space
      BY <1>1
<1> QED BY <1>1, <1>2, <1>3, <1>4 DEF w, Recites

(* Two such sequences one after the other, ...                               *)
LEMMA JoinRecites ==
    ASSUME NEW s, NEW t, NEW V, NEW W, Recites(s, V), Recites(t, W), V \cap W = {}
    PROVE  Recites(s \o t, V \cup W)
BY JoinSays DEF Recites

(* ... the empty one, ...                                                    *)
LEMMA NothingRecited ==
    ASSUME NEW t, t = <<>>, NEW W, W = {}
    PROVE  Recites(t, W)
BY SaysNothing DEF Recites

(* ... and many.                                                             *)
LEMMA FlattenRecites ==
    ASSUME NEW n \in Nat, NEW seqs, DOMAIN seqs = 1..n, seqs = [m \in 1..n |-> seqs[m]], NEW W,
           \A m \in 1..n : Recites(seqs[m], W[m]),
           \A l, m \in 1..n : l < m => W[l] \cap W[m] = {}
    PROVE  Recites(FlattenSeq(seqs), Total(W, n))
<1>1. Tells(FlattenSeq(seqs), Total(W, n))
  <2>1. \A m \in 1..n : Tells(seqs[m], W[m])
        BY DEF Recites
  <2> QED BY <2>1, FlattenSays
<1> DEFINE X == Pairs \ {Space}
           Good == Seq(X)
<1>2. FlattenSeq(seqs) \in Good
  <2>1. seqs \in [1..n -> Good]
        BY DEF Recites
  <2>2. <<>> \in Good /\ (\A s, t \in Good : s \o t \in Good) /\ Good \in SUBSET Seq(X)
        OBVIOUS
  <2> HIDE DEF Good, X
  <2> QED BY <2>1, <2>2, FlattenClosed
<1> QED BY <1>1, <1>2 DEF Recites

(* Of texts that share no word, the words of some of them.                   *)
TextsTell(texts, V) ==
    /\ texts \in Seq(Seq(Pairs))
    /\ \A m \in DOMAIN texts : Tells(texts[m], V[m])
    /\ \A l, m \in DOMAIN texts : l # m => V[l] \cap V[m] = {}

(* The words of the texts picked are those of their elements.                *)
LEMMA PickedRecite ==
    ASSUME NEW texts, NEW V, TextsTell(texts, V), NEW P \in SUBSET DOMAIN texts
    PROVE  Recites(FlattenSeq([n \in DOMAIN Picked(texts, P) |-> Words(Picked(texts, P)[n])]),
                   UNION {V[m] : m \in P})
<1> DEFINE size == Cardinality(P)
           some == Picked(texts, P)
           at == InOrder(P)
           seqs == [n \in DOMAIN some |-> Words(some[n])]
           W == [n \in 1..size |-> V[at[n]]]
<1>1. /\ size \in Nat /\ at \in [1..size -> P]
      /\ \A m, n \in 1..size : m < n => at[m] < at[n]
      /\ \A x \in P : \E n \in 1..size : at[n] = x
      /\ some \in Seq(Seq(Pairs)) /\ Len(some) = size
      /\ \A n \in 1..size : some[n] = texts[at[n]]
  <2>1. texts \in Seq(Seq(Pairs))
        BY DEF TextsTell
  <2> QED BY <2>1, PickedFacts
<1>2. P \in SUBSET Nat
      BY DEF TextsTell
<1> HIDE DEF some, at, size
<1>3. DOMAIN some = 1..size
      BY <1>1
<1>4. ASSUME NEW m \in 1..size PROVE Recites(seqs[m], W[m])
  <2>1. at[m] \in P
        BY <1>1
  <2>2. Tells(texts[at[m]], V[at[m]])
        BY <2>1 DEF TextsTell
  <2>3. seqs[m] = Words(texts[at[m]]) /\ W[m] = V[at[m]]
        BY <1>1, <1>3
  <2> HIDE DEF seqs, W
  <2> QED BY <2>2, <2>3, WordsRecite
<1>5. ASSUME NEW l \in 1..size, NEW m \in 1..size, l < m PROVE W[l] \cap W[m] = {}
  <2>1. at[l] \in P /\ at[m] \in P /\ at[l] < at[m]
        BY <1>1, <1>5
  <2>2. at[l] # at[m]
        BY <1>2, <2>1
  <2>3. V[at[l]] \cap V[at[m]] = {}
        BY <2>1, <2>2 DEF TextsTell
  <2> QED BY <2>3
<1>6. DOMAIN seqs = 1..size /\ seqs = [m \in 1..size |-> seqs[m]]
      BY <1>3
<1>7. Total(W, size) = UNION {V[m] : m \in P}
  <2>1. \A n \in 1..size : W[n] = V[at[n]]
        OBVIOUS
  <2> HIDE DEF W
  <2>2. \A w : w \in Total(W, size) <=> \E n \in 1..size : w \in V[at[n]]
        BY <2>1 DEF Total
  <2>3. \A n \in 1..size : at[n] \in P
        BY <1>1
  <2>4. \A w : w \in Total(W, size) <=> \E m \in P : w \in V[m]
        BY <1>1, <2>2, <2>3
  <2> QED BY <2>4
<1> HIDE DEF seqs, W
<1>8. Recites(FlattenSeq(seqs), Total(W, size))
      BY <1>1, <1>4, <1>5, <1>6, FlattenRecites
<1> QED BY <1>7, <1>8 DEF seqs, some

(* Children share nothing, and have all that is in an element.               *)
LEMMA KinApart ==
    ASSUME NEW pg, Nested(pg), NEW i \in 0..Len(pg), NEW j \in ChildSet(pg, i), NEW k \in ChildSet(pg, i),
           j # k
    PROVE  Subtree(pg, j) \cap Subtree(pg, k) = {}
<1>1. /\ Len(pg) \in Nat /\ j \in i + 1..Len(pg) /\ k \in i + 1..Len(pg) /\ i \in Nat
      BY WithinFacts
<1>2. j \in 0..Len(pg) /\ k \in 0..Len(pg) /\ j \in Nat /\ k \in Nat
      BY <1>1
<1>3. ASSUME NEW x \in ChildSet(pg, i), NEW y \in ChildSet(pg, i), x < y, NEW z,
             z \in Subtree(pg, x), z \in Subtree(pg, y)
      PROVE  FALSE
  <2>1. x \in i + 1..Len(pg) /\ y \in i + 1..Len(pg)
        BY WithinFacts
  <2>2. x \in 0..Len(pg) /\ y \in 0..Len(pg) /\ x \in Nat /\ y \in Nat
        BY <1>1, <2>1
  <2>3. Within(pg, y) \in SUBSET (y + 1..Len(pg)) /\ Within(pg, x) \in SUBSET (x + 1..Len(pg))
        BY <2>2, WithinFacts
  <2>4. y \notin Within(pg, x) /\ \A w \in Within(pg, x) : w < y
        BY <1>3, ChildrenApart
  <2>5. z = y \/ (z \in y + 1..Len(pg))
        BY <1>3, <2>3 DEF Subtree
  <2>6. z = x \/ (z \in x + 1..Len(pg) /\ z < y)
        BY <1>3, <2>3, <2>4 DEF Subtree
  <2> QED BY <1>1, <1>3, <2>2, <2>5, <2>6
<1>4. CASE j < k
      BY <1>3, <1>4
<1>5. CASE k < j
      BY <1>3, <1>5
<1> QED BY <1>2, <1>4, <1>5

(* What is said in an element without text is said in its children.          *)
LEMMA KinSpeak ==
    ASSUME NEW pg, Nested(pg), NEW i \in 1..Len(pg), ~pg[i].text
    PROVE  /\ \A w : w \in SpokenIn(pg, Subtree(pg, i)) <=>
                        \E k \in ChildSet(pg, i) : w \in SpokenIn(pg, Subtree(pg, k))
           /\ SpokenIn(pg, Subtree(pg, i)) = SpokenIn(pg, Within(pg, i))
<1>1. i \in 0..Len(pg)
      BY DEF Nested
<1>2. ChildSet(pg, i) \subseteq Within(pg, i)
      BY <1>1, WithinFacts
<1>3. ASSUME NEW j PROVE j \in Within(pg, i) <=> \E k \in ChildSet(pg, i) : j \in Subtree(pg, k)
  <2>1. j \in Within(pg, i) => \E k \in ChildSet(pg, i) : j \in Subtree(pg, k)
        BY <1>1, ChildOver DEF Subtree
  <2>2. ASSUME NEW k \in ChildSet(pg, i), j \in Subtree(pg, k) PROVE j \in Within(pg, i)
    <3>1. k \in Within(pg, i)
          BY <1>2
    <3>2. CASE j = k
          BY <3>1, <3>2
    <3>3. CASE j \in Within(pg, k)
          BY <1>1, <3>1, <3>3, WithinWithin
    <3> QED BY <2>2, <3>2, <3>3 DEF Subtree
  <2> QED BY <2>1, <2>2
<1>4. SpokenIn(pg, Subtree(pg, i)) = SpokenIn(pg, Within(pg, i))
  <2>1. \A w : w \in SpokenIn(pg, Subtree(pg, i)) <=> w \in SpokenIn(pg, Within(pg, i))
        BY SpokenFacts DEF Subtree
  <2> DEFINE A == SpokenIn(pg, Subtree(pg, i))
             B == SpokenIn(pg, Within(pg, i))
  <2> HIDE DEF A, B
  <2>2. A = B
        BY <2>1 DEF A, B
  <2> QED BY <2>2 DEF A, B
<1>5. ASSUME NEW w
      PROVE  w \in SpokenIn(pg, Within(pg, i)) <=>
                \E k \in ChildSet(pg, i) : w \in SpokenIn(pg, Subtree(pg, k))
      BY <1>3, SpokenFacts
<1> QED BY <1>4, <1>5

(* The texts of some elements and the words in them.                         *)
TextsAt(pg, nodes)  == [n \in DOMAIN nodes |-> TextOf(pg, nodes[n])]
SpokenAt(pg, nodes) == [n \in DOMAIN nodes |-> SpokenIn(pg, Subtree(pg, nodes[n]))]

(* The children of some tags are listed once each.                           *)
LEMMA ChosenFacts ==
    ASSUME NEW pg \in Seq(Elements), NEW i \in 0..Len(pg), NEW tags
    PROVE  LET nodes == OfTags(pg, Children(pg, i), tags)
           IN  /\ nodes \in Seq(1..Len(pg)) /\ DOMAIN nodes = 1..Len(nodes) /\ Len(nodes) \in Nat
               /\ \A n \in DOMAIN nodes : nodes[n] \in ChildSet(pg, i) /\ pg[nodes[n]].tag \in tags
               /\ \A m, n \in DOMAIN nodes : m < n => nodes[m] # nodes[n]
               /\ \A x \in ChildSet(pg, i) : pg[x].tag \in tags => \E n \in DOMAIN nodes : nodes[n] = x
<1> DEFINE ks == Children(pg, i)
           P == {n \in DOMAIN ks : pg[ks[n]].tag \in tags}
           nodes == OfTags(pg, ks, tags)
           at == InOrder(P)
           size == Cardinality(P)
<1>1. /\ ks \in Seq(1..Len(pg)) /\ DOMAIN ks = 1..Len(ks) /\ Len(ks) \in Nat
      /\ \A n \in DOMAIN ks : ks[n] \in ChildSet(pg, i)
      /\ \A m, n \in DOMAIN ks : m < n => ks[m] < ks[n]
      /\ \A x \in ChildSet(pg, i) : \E n \in DOMAIN ks : ks[n] = x
  <2>1. ks \in Seq(1..Len(pg))
        BY ChildrenType
  <2>2. /\ ks \in [1..Cardinality(ChildSet(pg, i)) -> ChildSet(pg, i)]
        /\ \A m, n \in DOMAIN ks : m < n => ks[m] < ks[n]
        /\ \A x \in ChildSet(pg, i) : \E n \in DOMAIN ks : ks[n] = x
        BY ChildrenFacts
  <2> HIDE DEF ks, nodes, P
  <2> QED BY <2>1, <2>2
<1>2. P \in SUBSET DOMAIN ks
      OBVIOUS
<1>3. \A n : n \in P <=> n \in DOMAIN ks /\ pg[ks[n]].tag \in tags
      OBVIOUS
<1>4. nodes = Picked(ks, P)
      BY DEF OfTags
<1> HIDE DEF ks, nodes, P
<1>5. /\ size \in Nat /\ at \in [1..size -> P]
      /\ \A m, n \in 1..size : m < n => at[m] < at[n]
      /\ \A x \in P : \E n \in 1..size : at[n] = x
      /\ Picked(ks, P) \in Seq(1..Len(pg)) /\ Len(Picked(ks, P)) = size
      /\ \A n \in 1..size : Picked(ks, P)[n] = ks[at[n]]
      BY <1>1, <1>2, PickedFacts
<1> HIDE DEF at, size
<1>6. nodes \in Seq(1..Len(pg)) /\ DOMAIN nodes = 1..size /\ Len(nodes) = size
  <2>1. nodes \in Seq(1..Len(pg)) /\ Len(nodes) = size
        BY <1>4, <1>5
  <2> QED BY <2>1
<1>7. \A n \in 1..size : nodes[n] = ks[at[n]] /\ at[n] \in P /\ at[n] \in DOMAIN ks
      BY <1>2, <1>4, <1>5
<1>8. ASSUME NEW m \in 1..size, NEW n \in 1..size, m < n PROVE nodes[m] # nodes[n]
  <2>1. at[m] < at[n] /\ at[m] \in DOMAIN ks /\ at[n] \in DOMAIN ks
        BY <1>5, <1>7, <1>8
  <2>2. ks[at[m]] < ks[at[n]]
        BY <1>1, <2>1
  <2>3. \A x \in DOMAIN ks : ks[x] \in 1..Len(pg)
        BY <1>1
  <2>4. ks[at[m]] \in 1..Len(pg) /\ ks[at[n]] \in 1..Len(pg)
        BY <2>1, <2>3
  <2>5. ks[at[m]] # ks[at[n]]
        BY <2>2, <2>4
  <2> QED BY <1>7, <2>5
<1>9. ASSUME NEW x \in ChildSet(pg, i), pg[x].tag \in tags PROVE \E n \in 1..size : nodes[n] = x
  <2>1. PICK m \in DOMAIN ks : ks[m] = x
        BY <1>1
  <2>2. m \in P
        BY <1>3, <1>9, <2>1
  <2>3. PICK n \in 1..size : at[n] = m
        BY <1>5, <2>2
  <2> QED BY <1>7, <2>1, <2>3
<1>10. \A n \in 1..size : nodes[n] \in ChildSet(pg, i) /\ pg[nodes[n]].tag \in tags
      BY <1>1, <1>3, <1>7
<1>11. size \in Nat
      BY <1>5
<1> QED BY <1>6, <1>8, <1>9, <1>10, <1>11 DEF nodes, ks

(* Their texts share no word, and when all children are listed say all the   *)
(* words of the element.                                                     *)
LEMMA ChosenTell ==
    ASSUME NEW pg, Nested(pg), Childless(pg), NEW i \in 1..Len(pg), ~pg[i].text, NEW tags,
           \A k \in ChildSet(pg, i) : pg[k].tag \in tags,
           NEW nodes, nodes = OfTags(pg, Children(pg, i), tags)
    PROVE  /\ nodes \in Seq(1..Len(pg)) /\ DOMAIN TextsAt(pg, nodes) = DOMAIN nodes
           /\ TextsTell(TextsAt(pg, nodes), SpokenAt(pg, nodes))
           /\ \A w : w \in SpokenIn(pg, Subtree(pg, i)) <=>
                        \E m \in DOMAIN nodes : w \in SpokenAt(pg, nodes)[m]
<1>1. pg \in Seq(Elements) /\ i \in 0..Len(pg)
      BY DEF Nested
<1>2. /\ nodes \in Seq(1..Len(pg)) /\ DOMAIN nodes = 1..Len(nodes) /\ Len(nodes) \in Nat
      /\ \A n \in DOMAIN nodes : nodes[n] \in ChildSet(pg, i)
      /\ \A m, n \in DOMAIN nodes : m < n => nodes[m] # nodes[n]
      /\ \A x \in ChildSet(pg, i) : \E n \in DOMAIN nodes : nodes[n] = x
      BY <1>1, ChosenFacts
<1> DEFINE texts == TextsAt(pg, nodes)
           V == SpokenAt(pg, nodes)
<1>3. /\ DOMAIN texts = DOMAIN nodes /\ \A n \in DOMAIN nodes : texts[n] = TextOf(pg, nodes[n])
      /\ \A n \in DOMAIN nodes : V[n] = SpokenIn(pg, Subtree(pg, nodes[n]))
      BY DEF TextsAt, SpokenAt
<1>4. texts \in [1..Len(nodes) -> Seq(Pairs)]
  <2>1. \A n \in DOMAIN nodes : TextOf(pg, nodes[n]) \in Seq(Pairs)
        BY <1>1, <1>2, TextType
  <2> QED BY <1>2, <2>1 DEF TextsAt
<1> HIDE DEF texts, V
<1>5. \A m \in DOMAIN texts : Tells(texts[m], V[m])
      BY <1>2, <1>3, TextSays
<1>6. ASSUME NEW l \in DOMAIN texts, NEW m \in DOMAIN texts, l # m PROVE V[l] \cap V[m] = {}
  <2>1. nodes[l] # nodes[m]
        BY <1>2, <1>3, <1>6
  <2>2. Subtree(pg, nodes[l]) \cap Subtree(pg, nodes[m]) = {}
        BY <1>1, <1>2, <1>3, <2>1, KinApart
  <2>3. SpokenIn(pg, Subtree(pg, nodes[l])) \cap SpokenIn(pg, Subtree(pg, nodes[m])) = {}
        BY <2>2, SpokenTogether
  <2>4. l \in DOMAIN nodes /\ m \in DOMAIN nodes
        BY <1>3
  <2>5. V[l] = SpokenIn(pg, Subtree(pg, nodes[l])) /\ V[m] = SpokenIn(pg, Subtree(pg, nodes[m]))
        BY <1>3, <2>4
  <2> QED BY <2>3, <2>5
<1>7. texts \in Seq(Seq(Pairs))
      BY <1>2, <1>4
<1>8. TextsTell(texts, V)
      BY <1>5, <1>6, <1>7 DEF TextsTell
<1>9. ASSUME NEW w
      PROVE  w \in SpokenIn(pg, Subtree(pg, i)) <=> \E m \in DOMAIN nodes : w \in V[m]
      BY <1>2, <1>3, KinSpeak
<1> QED BY <1>2, <1>3, <1>8, <1>9 DEF texts, V

(* The items of a list say all the words in it.                              *)
LEMMA ListRecites ==
    ASSUME NEW pg, Nested(pg), Childless(pg), NEW k \in 1..Len(pg), pg[k].tag = "ul", ~pg[k].text,
           \A x \in ChildSet(pg, k) : pg[x].tag = "li",
           NEW items, items = ItemsOf(pg, ListItems(pg, k))
    PROVE  Recites(FlattenSeq([n \in DOMAIN items |-> Words(items[n])]),
                   SpokenIn(pg, Subtree(pg, k)))
<1> DEFINE nodes == OfTags(pg, Children(pg, k), {"li"})
           texts == TextsAt(pg, nodes)
           V == SpokenAt(pg, nodes)
           Q == {n \in DOMAIN nodes : ~Blank(TextOf(pg, nodes[n]))}
           W == UNION {V[m] : m \in Q}
<1>1. ListItems(pg, k) = nodes
      BY DEF ListItems
<1>2. items = Picked(texts, Q)
      BY <1>1 DEF ItemsOf, TextsAt
<1>3. \A x \in ChildSet(pg, k) : pg[x].tag \in {"li"}
      OBVIOUS
<1> HIDE DEF nodes
<1>4. /\ DOMAIN texts = DOMAIN nodes /\ TextsTell(texts, V)
      /\ \A w : w \in SpokenIn(pg, Subtree(pg, k)) <=> \E m \in DOMAIN nodes : w \in V[m]
      BY <1>3, ChosenTell DEF nodes
<1>5. ASSUME NEW m \in DOMAIN nodes PROVE m \in Q <=> V[m] # {}
  <2>1. texts[m] = TextOf(pg, nodes[m])
        BY DEF TextsAt
  <2>2. Tells(texts[m], V[m])
        BY <1>4 DEF TextsTell
  <2>3. Blank(texts[m]) <=> V[m] = {}
        BY <2>2, WordsSay
  <2>4. m \in Q <=> ~Blank(TextOf(pg, nodes[m]))
        OBVIOUS
  <2> HIDE DEF Q, texts, V
  <2> QED BY <2>1, <2>3, <2>4
<1>6. Q \in SUBSET DOMAIN texts
      BY <1>4
<1>7. W = SpokenIn(pg, Subtree(pg, k))
  <2>1. \A w : w \in W <=> \E m \in Q : w \in V[m]
        OBVIOUS
  <2>2. \A m \in Q : m \in DOMAIN nodes
        OBVIOUS
  <2> HIDE DEF W, Q, V, texts
  <2>3. \A w : w \in W <=> w \in SpokenIn(pg, Subtree(pg, k))
        BY <1>4, <1>5, <2>1, <2>2
  <2> QED BY <2>3
<1>8. Recites(FlattenSeq([n \in DOMAIN Picked(texts, Q) |-> Words(Picked(texts, Q)[n])]), W)
  <2> HIDE DEF Q, texts, V
  <2> QED BY <1>4, <1>6, PickedRecite
<1> HIDE DEF W, Q, texts
<1> QED BY <1>2, <1>7, <1>8

-----------------------------------------------------------------------------
(* Tables *)

(* Cells whose texts together say the words of a set, each once.             *)
CellsTell(cs, W) ==
    /\ cs \in Seq(Cells)
    /\ \A m \in DOMAIN cs : Tells(cs[m].text, Said(cs[m].text))
    /\ \A l, m \in DOMAIN cs : l < m => Said(cs[l].text) \cap Said(cs[m].text) = {}
    /\ \A w : w \in W <=> \E m \in DOMAIN cs : w \in Said(cs[m].text)

(* No cells, and those of two sequences.                                     *)
LEMMA NoCells ==
    ASSUME NEW W, W = {}
    PROVE  CellsTell(<<>>, W)
BY DEF CellsTell

(* Two rows of cells with no word in common.                                 *)
LEMMA JoinCells ==
    ASSUME NEW s, NEW t, NEW V, NEW W, CellsTell(s, V), CellsTell(t, W), V \cap W = {}
    PROVE  CellsTell(s \o t, V \cup W)
<1>1. /\ s \in Seq(Cells) /\ \A m \in DOMAIN s : Tells(s[m].text, Said(s[m].text))
      /\ \A l, m \in DOMAIN s : l < m => Said(s[l].text) \cap Said(s[m].text) = {}
      /\ \A w : w \in V <=> \E m \in DOMAIN s : w \in Said(s[m].text)
      BY DEF CellsTell
<1>2. /\ t \in Seq(Cells) /\ \A m \in DOMAIN t : Tells(t[m].text, Said(t[m].text))
      /\ \A l, m \in DOMAIN t : l < m => Said(t[l].text) \cap Said(t[m].text) = {}
      /\ \A w : w \in W <=> \E m \in DOMAIN t : w \in Said(t[m].text)
      BY DEF CellsTell
<1> DEFINE u == s \o t
           k == Len(s)
<1>3. /\ u \in Seq(Cells) /\ k \in Nat
      /\ \A n \in DOMAIN s : n \in DOMAIN u /\ u[n] = s[n] /\ n \in 1..k
      /\ \A n \in DOMAIN t : k + n \in DOMAIN u /\ u[k + n] = t[n] /\ n \in Nat
      /\ \A n \in DOMAIN u : n \in DOMAIN s \/ (n > k /\ n - k \in DOMAIN t)
      /\ \A n \in DOMAIN u : n \in Nat /\ u[n] = IF n \in DOMAIN s THEN s[n] ELSE t[n - k]
  <2>1. DOMAIN s = 1..k /\ k \in Nat /\ \A n \in DOMAIN t : n \in Nat
        BY <1>1, <1>2
  <2>2. /\ u \in Seq(Cells)
        /\ \A n \in DOMAIN s : n \in DOMAIN u /\ u[n] = s[n]
        /\ \A n \in DOMAIN t : k + n \in DOMAIN u /\ u[k + n] = t[n]
        /\ \A n \in DOMAIN u : n \in DOMAIN s \/ (n > k /\ n - k \in DOMAIN t)
        /\ \A n \in DOMAIN u : u[n] = IF n \in DOMAIN s THEN s[n] ELSE t[n - k]
        BY <1>1, <1>2, ConcatFacts
  <2>3. \A n \in DOMAIN u : n \in Nat
        BY <2>2
  <2> QED BY <2>1, <2>2, <2>3
<1> HIDE DEF u
<1>4. ASSUME NEW n \in DOMAIN u
      PROVE  \/ n \in DOMAIN s /\ u[n] = s[n]
             \/ n - k \in DOMAIN t /\ n \notin DOMAIN s /\ u[n] = t[n - k] /\ n > k
  <2>1. CASE n \in DOMAIN s
        BY <1>3, <2>1
  <2>2. CASE n \notin DOMAIN s
        BY <1>3, <2>2
  <2> QED BY <2>1, <2>2
<1>5. ASSUME NEW n \in DOMAIN u PROVE Tells(u[n].text, Said(u[n].text))
      BY <1>1, <1>2, <1>4
<1>6. \A m \in DOMAIN s : Said(s[m].text) \subseteq V
      BY <1>1
<1>7. \A m \in DOMAIN t : Said(t[m].text) \subseteq W
      BY <1>2
<1>8. ASSUME NEW l \in DOMAIN u, NEW m \in DOMAIN u, l < m
      PROVE  Said(u[l].text) \cap Said(u[m].text) = {}
  <2>0. l \in Nat /\ m \in Nat
        BY <1>3
  <2>1. CASE l \in DOMAIN s /\ m \in DOMAIN s
    <3>1. u[l] = s[l] /\ u[m] = s[m]
          BY <1>3, <2>1
    <3> QED BY <1>1, <1>8, <2>1, <3>1
  <2>2. CASE l \in DOMAIN s /\ m \notin DOMAIN s
    <3>1. u[l] = s[l] /\ u[m] = t[m - k] /\ m - k \in DOMAIN t
          BY <1>4, <2>2
    <3>2. Said(s[l].text) \subseteq V /\ Said(t[m - k].text) \subseteq W
          BY <1>6, <1>7, <2>2, <3>1
    <3>3. Said(s[l].text) \cap Said(t[m - k].text) = {}
          BY <3>2
    <3> QED BY <3>1, <3>3
  <2>3. CASE l \notin DOMAIN s
    <3>1. u[l] = t[l - k] /\ l - k \in DOMAIN t /\ l > k
          BY <1>4, <2>3
    <3>2. m \notin DOMAIN s
          BY <1>3, <1>8, <2>0, <3>1
    <3>3. u[m] = t[m - k] /\ m - k \in DOMAIN t
          BY <1>4, <3>2
    <3>4. l - k < m - k
          BY <1>3, <1>8, <2>0
    <3>5. Said(t[l - k].text) \cap Said(t[m - k].text) = {}
          BY <1>2, <3>1, <3>3, <3>4
    <3> QED BY <3>1, <3>3, <3>5
  <2> QED BY <2>1, <2>2, <2>3
<1>9. ASSUME NEW w PROVE w \in V \cup W <=> \E n \in DOMAIN u : w \in Said(u[n].text)
  <2>1. ASSUME NEW m \in DOMAIN s, w \in Said(s[m].text) PROVE \E n \in DOMAIN u : w \in Said(u[n].text)
        BY <1>3, <2>1
  <2>2. ASSUME NEW m \in DOMAIN t, w \in Said(t[m].text) PROVE \E n \in DOMAIN u : w \in Said(u[n].text)
    <3>1. k + m \in DOMAIN u /\ u[k + m] = t[m]
          BY <1>3
    <3> QED BY <2>2, <3>1
  <2>3. ASSUME NEW n \in DOMAIN u, w \in Said(u[n].text) PROVE w \in V \cup W
        BY <1>4, <1>6, <1>7, <2>3
  <2> QED BY <1>1, <1>2, <2>1, <2>2, <2>3
<1> QED BY <1>3, <1>5, <1>8, <1>9 DEF u, CellsTell

(* The cells of many rows.                                                   *)
LEMMA FlattenCells ==
    ASSUME NEW n \in Nat, NEW lines, DOMAIN lines = 1..n, lines = [m \in 1..n |-> lines[m]], NEW W,
           \A m \in 1..n : CellsTell(lines[m], W[m]),
           \A l, m \in 1..n : l < m => W[l] \cap W[m] = {}
    PROVE  CellsTell(FlattenSeq(lines), Total(W, n))
<1> DEFINE Good == [k \in 0..n |-> {s \in Seq(Cells) : CellsTell(s, Total(W, k))}]
<1>1. lines \in [1..n -> Seq(Cells)]
      BY DEF CellsTell
<1>2. <<>> \in Good[0]
  <2>1. Total(W, 0) = {}
        BY DEF Total
  <2>2. CellsTell(<<>>, Total(W, 0))
        BY <2>1, NoCells
  <2>3. <<>> \in Seq(Cells) /\ 0 \in 0..n
        OBVIOUS
  <2> QED BY <2>2, <2>3
<1>3. ASSUME NEW k \in 1..n, NEW s \in Good[k - 1] PROVE s \o lines[k] \in Good[k]
  <2>1. k - 1 \in 0..n /\ k \in 0..n
        OBVIOUS
  <2>2. Total(W, k) = Total(W, k - 1) \cup W[k]
    <3>1. \A m : m \in 1..k <=> m \in 1..k - 1 \/ m = k
          OBVIOUS
    <3> QED BY <3>1 DEF Total
  <2>3. Total(W, k - 1) \cap W[k] = {}
    <3>1. \A m \in 1..k - 1 : m \in 1..n /\ m < k
          OBVIOUS
    <3> QED BY <3>1 DEF Total
  <2>4. CellsTell(s, Total(W, k - 1)) /\ s \in Seq(Cells)
        BY <2>1
  <2>5. CellsTell(s \o lines[k], Total(W, k))
        BY <2>2, <2>3, <2>4, JoinCells
  <2>6. s \o lines[k] \in Seq(Cells)
        BY <2>5 DEF CellsTell
  <2> QED BY <2>1, <2>5, <2>6
<1>4. FlattenSeq(lines) \in Good[n]
  <2> HIDE DEF Good
  <2> QED BY <1>1, <1>2, <1>3, FlattenInduction
<1>5. n \in 0..n
      OBVIOUS
<1>6. CellsTell(FlattenSeq(lines), Total(W, n))
      BY <1>4, <1>5
<1> QED BY <1>6

(* What cells say, as the words of a document are taken from them.           *)
LEMMA CellsRecite ==
    ASSUME NEW cs, NEW W, CellsTell(cs, W)
    PROVE  Recites(FlattenSeq([n \in DOMAIN cs |-> Words(cs[n].text)]), W)
<1> DEFINE n == Len(cs)
           seqs == [m \in DOMAIN cs |-> Words(cs[m].text)]
           V == [m \in DOMAIN cs |-> Said(cs[m].text)]
<1>1. n \in Nat /\ DOMAIN cs = 1..n
      BY DEF CellsTell
<1>2. DOMAIN seqs = 1..n /\ seqs = [m \in 1..n |-> seqs[m]]
      BY <1>1
<1>3. ASSUME NEW m \in 1..n PROVE Recites(seqs[m], V[m])
  <2>1. Tells(cs[m].text, Said(cs[m].text))
        BY <1>1 DEF CellsTell
  <2>2. Recites(Words(cs[m].text), Said(cs[m].text))
        BY <2>1, WordsRecite
  <2>3. seqs[m] = Words(cs[m].text) /\ V[m] = Said(cs[m].text)
        BY <1>1
  <2> HIDE DEF seqs, V
  <2> QED BY <2>2, <2>3
<1>4. \A l, m \in 1..n : l < m => V[l] \cap V[m] = {}
      BY <1>1 DEF CellsTell
<1>5. Total(V, n) = W
  <2>1. \A m \in 1..n : V[m] = Said(cs[m].text)
        BY <1>1
  <2> HIDE DEF V
  <2>2. \A w : w \in Total(V, n) <=> \E m \in 1..n : w \in Said(cs[m].text)
        BY <2>1 DEF Total
  <2>3. \A w : w \in W <=> \E m \in 1..n : w \in Said(cs[m].text)
        BY <1>1 DEF CellsTell
  <2> QED BY <2>2, <2>3
<1> HIDE DEF seqs, V, n
<1>6. Recites(FlattenSeq(seqs), Total(V, n))
      BY <1>1, <1>2, <1>3, <1>4, FlattenRecites
<1> QED BY <1>5, <1>6 DEF seqs

(* Each place of one sequence is a place of the other, with the same there.  *)
SameMembers(t, s) ==
    \E f \in [DOMAIN t -> DOMAIN s] :
       /\ \A n \in DOMAIN t : t[n] = s[f[n]]
       /\ \A m, n \in DOMAIN t : m < n => f[m] # f[n]
       /\ \A x \in DOMAIN s : \E n \in DOMAIN t : f[n] = x

(* A sequence split in two by where its members stand has the same members.  *)
LEMMA SplitFacts ==
    ASSUME NEW X, NEW s \in Seq(X), NEW P \in SUBSET DOMAIN s, NEW Q \in SUBSET DOMAIN s,
           P \cap Q = {}, P \cup Q = DOMAIN s, NEW t, t = Picked(s, P) \o Picked(s, Q)
    PROVE  t \in Seq(X) /\ SameMembers(t, s)
<1> DEFINE p == Picked(s, P)
           q == Picked(s, Q)
           k == Cardinality(P)
           e == Cardinality(Q)
           g == InOrder(P)
           h == InOrder(Q)
           f == [n \in DOMAIN t |-> IF n \in DOMAIN p THEN g[n] ELSE h[n - k]]
<1>1. /\ k \in Nat /\ g \in [1..k -> P] /\ \A m, n \in 1..k : m < n => g[m] < g[n]
      /\ \A x \in P : \E n \in 1..k : g[n] = x
      /\ p \in Seq(X) /\ Len(p) = k /\ \A n \in 1..k : p[n] = s[g[n]]
      BY PickedFacts
<1>2. /\ e \in Nat /\ h \in [1..e -> Q] /\ \A m, n \in 1..e : m < n => h[m] < h[n]
      /\ \A x \in Q : \E n \in 1..e : h[n] = x
      /\ q \in Seq(X) /\ Len(q) = e /\ \A n \in 1..e : q[n] = s[h[n]]
      BY PickedFacts
<1>3. P \in SUBSET Nat /\ Q \in SUBSET Nat
      OBVIOUS
<1>0. t = p \o q
      OBVIOUS
<1> HIDE DEF p, q, k, e, g, h
<1>4. /\ t \in Seq(X) /\ DOMAIN p = 1..k /\ DOMAIN q = 1..e
      /\ \A n \in DOMAIN p : n \in DOMAIN t /\ t[n] = p[n]
      /\ \A n \in DOMAIN q : k + n \in DOMAIN t /\ t[k + n] = q[n]
      /\ \A n \in DOMAIN t : n \in DOMAIN p \/ (n > k /\ n - k \in DOMAIN q)
      /\ \A n \in DOMAIN t : n \in Nat /\ t[n] = IF n \in DOMAIN p THEN p[n] ELSE q[n - k]
  <2>1. DOMAIN p = 1..k /\ DOMAIN q = 1..e
        BY <1>1, <1>2
  <2>2. /\ t \in Seq(X)
        /\ \A n \in DOMAIN p : n \in DOMAIN t /\ t[n] = p[n]
        /\ \A n \in DOMAIN q : k + n \in DOMAIN t /\ t[k + n] = q[n]
        /\ \A n \in DOMAIN t : n \in DOMAIN p \/ (n > k /\ n - k \in DOMAIN q)
        /\ \A n \in DOMAIN t : t[n] = IF n \in DOMAIN p THEN p[n] ELSE q[n - k]
        BY <1>0, <1>1, <1>2, ConcatFacts
  <2>3. \A n \in DOMAIN t : n \in Nat
        BY <2>2
  <2> QED BY <2>1, <2>2, <2>3
<1>5. ASSUME NEW n \in DOMAIN t
      PROVE  \/ n \in 1..k /\ f[n] = g[n] /\ g[n] \in P /\ t[n] = s[g[n]]
             \/ /\ n - k \in 1..e /\ n \notin 1..k /\ f[n] = h[n - k] /\ h[n - k] \in Q
                /\ t[n] = s[h[n - k]]
  <2>1. CASE n \in DOMAIN p
    <3>1. n \in 1..k /\ f[n] = g[n] /\ t[n] = p[n]
          BY <1>4, <2>1
    <3> HIDE DEF f
    <3>2. g[n] \in P /\ p[n] = s[g[n]]
          BY <1>1, <3>1
    <3> QED BY <3>1, <3>2
  <2>2. CASE n \notin DOMAIN p
    <3>1. n - k \in 1..e /\ n \notin 1..k /\ f[n] = h[n - k] /\ t[n] = q[n - k]
          BY <1>4, <2>2
    <3> HIDE DEF f
    <3>2. h[n - k] \in Q /\ q[n - k] = s[h[n - k]]
          BY <1>2, <3>1
    <3> QED BY <3>1, <3>2
  <2> QED BY <2>1, <2>2
<1>6. f = [n \in DOMAIN t |-> f[n]]
      OBVIOUS
<1> HIDE DEF f
<1>7. f \in [DOMAIN t -> DOMAIN s]
      BY <1>5, <1>6
<1>8. \A n \in DOMAIN t : t[n] = s[f[n]]
      BY <1>5
<1>9. ASSUME NEW m \in DOMAIN t, NEW n \in DOMAIN t, m < n PROVE f[m] # f[n]
  <2>0. m \in Nat /\ n \in Nat
        BY <1>4
  <2>1. CASE m \in 1..k /\ n \in 1..k
    <3>1. f[m] = g[m] /\ f[n] = g[n] /\ g[m] \in P /\ g[n] \in P
          BY <1>1, <1>5, <2>1
    <3>2. g[m] < g[n]
          BY <1>1, <1>9, <2>1
    <3>3. g[m] \in Nat /\ g[n] \in Nat
          BY <1>3, <3>1
    <3> QED BY <3>1, <3>2, <3>3
  <2>2. CASE m \in 1..k /\ n \notin 1..k
    <3>1. f[m] \in P /\ f[n] \in Q
          BY <1>1, <1>5, <2>2
    <3> QED BY <3>1
  <2>3. CASE m \notin 1..k
    <3>1. n \notin 1..k
          BY <1>1, <1>5, <1>9, <2>0, <2>3
    <3>2. /\ m - k \in 1..e /\ f[m] = h[m - k] /\ h[m - k] \in Q
          /\ n - k \in 1..e /\ f[n] = h[n - k] /\ h[n - k] \in Q
          BY <1>5, <2>3, <3>1
    <3>3. m - k < n - k
          BY <1>1, <1>9, <2>0
    <3>4. h[m - k] < h[n - k]
          BY <1>2, <3>2, <3>3
    <3>5. h[m - k] \in Nat /\ h[n - k] \in Nat
          BY <1>3, <3>2
    <3> QED BY <3>2, <3>4, <3>5
  <2> QED BY <2>1, <2>2, <2>3
<1>10. ASSUME NEW x \in DOMAIN s PROVE \E n \in DOMAIN t : f[n] = x
  <2>1. CASE x \in P
    <3>1. PICK n \in 1..k : g[n] = x
          BY <1>1, <2>1
    <3>2. n \in DOMAIN t
          BY <1>4
    <3>3. f[n] = g[n]
          BY <1>1, <1>5, <3>2
    <3> QED BY <3>1, <3>2, <3>3
  <2>2. CASE x \in Q
    <3>1. PICK n \in 1..e : h[n] = x
          BY <1>2, <2>2
    <3>2. k + n \in DOMAIN t
          BY <1>4
    <3>4. n \in Nat \ {0} /\ k \in Nat
          BY <1>1, <1>2
    <3>5. k + n \notin 1..k /\ (k + n) - k = n
          BY <3>4
    <3>3. f[k + n] = h[(k + n) - k]
          BY <1>5, <3>2, <3>5
    <3> QED BY <3>1, <3>2, <3>3, <3>5
  <2> QED BY <2>1, <2>2
<1>11. SameMembers(t, s)
      BY <1>7, <1>8, <1>9, <1>10 DEF SameMembers
<1> QED BY <1>4, <1>11

(* The cells of a row say all that is in it.                                 *)
LEMMA RowTells ==
    ASSUME NEW pg, Nested(pg), Childless(pg), NEW r \in 1..Len(pg), ~pg[r].text,
           \A k \in ChildSet(pg, r) : pg[k].tag \in {"td", "th"}
    PROVE  /\ CellsTell(RowCells(pg, r), SpokenIn(pg, Subtree(pg, r)))
           /\ ChildSet(pg, r) # {} => RowCells(pg, r) # <<>>
<1> DEFINE nodes == OfTags(pg, Children(pg, r), {"td", "th"})
           texts == TextsAt(pg, nodes)
           V == SpokenAt(pg, nodes)
           cs == RowCells(pg, r)
<1>1. /\ nodes \in Seq(1..Len(pg)) /\ DOMAIN texts = DOMAIN nodes /\ TextsTell(texts, V)
      /\ \A w : w \in SpokenIn(pg, Subtree(pg, r)) <=> \E m \in DOMAIN nodes : w \in V[m]
  <2> HIDE DEF nodes
  <2> QED BY ChosenTell DEF nodes
<1>2. cs \in Seq(Cells)
  <2>1. pg \in Seq(Elements)
        BY DEF Nested
  <2> QED BY <2>1, RowCellsType
<1>3. /\ DOMAIN cs = DOMAIN nodes
      /\ \A m \in DOMAIN nodes : cs[m].text = TextOf(pg, nodes[m])
      BY DEF RowCells
<1>4. \A m \in DOMAIN nodes : texts[m] = TextOf(pg, nodes[m])
      BY DEF TextsAt
<1>5. ChildSet(pg, r) # {} => DOMAIN nodes # {}
  <2> HIDE DEF texts, V, cs, nodes
  <2>1. pg \in Seq(Elements) /\ r \in 0..Len(pg)
        BY DEF Nested
  <2>2. ASSUME NEW some, some = OfTags(pg, Children(pg, r), {"td", "th"})
        PROVE  /\ DOMAIN some = 1..Len(some) /\ some \in Seq(1..Len(pg))
               /\ \A x \in ChildSet(pg, r) : pg[x].tag \in {"td", "th"} =>
                     \E n \in DOMAIN some : some[n] = x
        BY <2>1, <2>2, ChosenFacts
  <2>4. \A x \in ChildSet(pg, r) : pg[x].tag \in {"td", "th"} => \E n \in DOMAIN nodes : nodes[n] = x
        BY <2>2 DEF nodes
  <2>3. \A x \in ChildSet(pg, r) : \E n \in DOMAIN nodes : nodes[n] = x
        BY <2>4
  <2> QED BY <2>3
<1> HIDE DEF nodes, texts, V, cs
<1>6. DOMAIN nodes = 1..Len(nodes) /\ Len(nodes) \in Nat
      BY <1>1
<1>7. ASSUME NEW m \in DOMAIN cs PROVE Tells(cs[m].text, Said(cs[m].text)) /\ Said(cs[m].text) = V[m]
  <2>1. cs[m].text = texts[m] /\ m \in DOMAIN texts
        BY <1>1, <1>3, <1>4
  <2>2. Tells(texts[m], V[m])
        BY <1>1, <2>1 DEF TextsTell
  <2>3. Said(texts[m]) = V[m]
        BY <2>2 DEF Tells
  <2>4. Tells(texts[m], Said(texts[m]))
        BY <2>2, <2>3
  <2> QED BY <2>1, <2>3, <2>4
<1>8. ASSUME NEW l \in DOMAIN cs, NEW m \in DOMAIN cs, l < m
      PROVE  Said(cs[l].text) \cap Said(cs[m].text) = {}
  <2>1. l \in DOMAIN texts /\ m \in DOMAIN texts /\ l # m
        BY <1>1, <1>3, <1>6, <1>8
  <2>2. V[l] \cap V[m] = {}
        BY <1>1, <2>1 DEF TextsTell
  <2>3. Said(cs[l].text) = V[l] /\ Said(cs[m].text) = V[m]
        BY <1>7
  <2> QED BY <2>2, <2>3
<1>9. ASSUME NEW w
      PROVE  w \in SpokenIn(pg, Subtree(pg, r)) <=> \E m \in DOMAIN cs : w \in Said(cs[m].text)
      BY <1>1, <1>3, <1>7
<1>10. CellsTell(cs, SpokenIn(pg, Subtree(pg, r)))
      BY <1>2, <1>7, <1>8, <1>9 DEF CellsTell
<1>11. ChildSet(pg, r) # {} => cs # <<>>
      BY <1>3, <1>5
<1> QED BY <1>10, <1>11 DEF cs

(* Elements with neither in the other have nothing in common.                *)
LEMMA SubtreesApart ==
    ASSUME NEW pg, Nested(pg), NEW p \in 1..Len(pg), NEW q \in 1..Len(pg), p # q,
           p \notin Within(pg, q), q \notin Within(pg, p)
    PROVE  Subtree(pg, p) \cap Subtree(pg, q) = {}
<1>1. ASSUME NEW x \in Subtree(pg, p), x \in Subtree(pg, q) PROVE FALSE
  <2>0. p \in 0..Len(pg) /\ q \in 0..Len(pg) /\ p \in Nat /\ q \in Nat
        BY DEF Nested
  <2>1. x \in Within(pg, p) /\ x \in Within(pg, q)
        BY <1>1 DEF Subtree
  <2>2. p < q => q \in Within(pg, p)
        BY <2>0, <2>1, WithinChain
  <2>3. q < p => p \in Within(pg, q)
        BY <2>0, <2>1, WithinChain
  <2> QED BY <2>0, <2>2, <2>3
<1> QED BY <1>1

TableTags == {"table", "thead", "tr", "th", "td", "caption"}

(* Tables of rows of cells, none in another, with a caption first if at all  *)
(* and not without a cell.                                                   *)
PlainTables(pg) ==
    /\ Legal(pg, TableTags)
    /\ \A i \in 1..Len(pg) : pg[i].tag = "table" => \A k \in Within(pg, i) : pg[k].tag # "table"
    /\ \A i \in 1..Len(pg) : pg[i].tag = "caption" =>
          /\ i - 1 \in 1..Len(pg) /\ pg[i - 1].tag = "table"
          /\ \E j \in Within(pg, i - 1) : pg[j].tag \in {"th", "td"}

(* All that is known of a page of tables.                                    *)
LEMMA TablePageFacts ==
    ASSUME PageNodes \in Nat, NEW pg \in TablePages
    PROVE  PlainTables(pg) /\ Childless(pg) /\ AfterDrop(pg) = pg
<1>1. TableTags \in SUBSET Tags
      BY DEF Tags, BlockTags, TableTags
<1>2. /\ pg \in PagesOf(TableTags, PageNodes + 2)
      /\ \A i \in DOMAIN pg :
            /\ pg[i].tag = "table" => \A j \in Above(pg, i) : pg[j].tag # "table"
            /\ pg[i].tag = "caption" =>
                  /\ pg[i - 1].tag = "table"
                  /\ \E j \in Below(pg, i - 1) : pg[j].tag \in {"th", "td"}
      BY DEF TablePages, TableTags
<1>3. Legal(pg, TableTags)
      BY <1>1, <1>2, LegalPages
<1>4. /\ Nested(pg) /\ pg \in Seq(Elements) /\ DOMAIN pg = 1..Len(pg) /\ Len(pg) \in Nat
      /\ \A i \in 1..Len(pg) : pg[i].tag \in TableTags
      BY <1>3 DEF Legal, Nested
<1>5. ASSUME NEW i \in 1..Len(pg), pg[i].tag = "table", NEW k \in Within(pg, i)
      PROVE  pg[k].tag # "table"
  <2>1. k \in 1..Len(pg)
    <3>1. i \in 0..Len(pg)
          OBVIOUS
    <3>2. Within(pg, i) \in SUBSET (i + 1..Len(pg))
          BY <1>4, <3>1, WithinFacts
    <3> QED BY <3>2
  <2>2. i \in Above(pg, k)
        BY <1>4, <1>5, <2>1, AboveWithin
  <2> QED BY <1>2, <1>4, <1>5, <2>1, <2>2
<1>6. ASSUME NEW i \in 1..Len(pg), pg[i].tag = "caption"
      PROVE  /\ i - 1 \in 1..Len(pg) /\ pg[i - 1].tag = "table"
             /\ \E j \in Within(pg, i - 1) : pg[j].tag \in {"th", "td"}
  <2>1. i # 1
    <3>1. ASSUME i = 1 PROVE FALSE
      <4>1. pg[1].depth \in 1..Depth(pg, 1 - 1) + 1
            BY <1>4, <3>1 DEF Nested
      <4>2. Depth(pg, 1 - 1) = 0
            BY DEF Depth
      <4>3. pg[1].depth = 1
            BY <4>1, <4>2
      <4>4. 1 \in ChildSet(pg, 0) /\ 0 \in 0..Len(pg)
            BY <1>4, <3>1, <4>3 DEF ChildSet
      <4>5. pg[1].tag \in MayHold(Tag(pg, 0), TableTags)
            BY <1>3, <4>4 DEF Legal
      <4>6. MayHold("body", TableTags) \subseteq {"table"}
            BY DEF MayHold, Flow, ItemTags, TableTags, HeadingTags, Level
      <4> QED BY <1>6, <3>1, <4>5, <4>6 DEF Tag
    <3> QED BY <3>1
  <2>2. i - 1 \in 1..Len(pg) /\ i - 1 \in 0..Len(pg) /\ i - 1 # 0
        BY <1>4, <2>1
  <2>3. Within(pg, i - 1) = Below(pg, i - 1)
        BY <1>4, <2>2, WithinFacts
  <2> QED BY <1>2, <1>4, <1>6, <2>2, <2>3
<1>7. PlainTables(pg)
      BY <1>3, <1>5, <1>6 DEF PlainTables
<1>8. \A i \in 1..Len(pg) : pg[i].tag \notin {"script", "dropped"}
      BY <1>4 DEF TableTags
<1>9. AfterDrop(pg) = pg
      BY <1>4, <1>8, NothingDropped DEF DroppedTags
<1>10. Childless(pg)
      BY <1>8 DEF Childless
<1> QED BY <1>7, <1>9, <1>10

(* How such a table is built.                                                *)
LEMMA TableParts ==
    ASSUME NEW pg, PlainTables(pg), NEW i \in 1..Len(pg), pg[i].tag = "table"
    PROVE  /\ \A j \in Within(pg, i) :
                 pg[j].tag \in {"td", "th", "caption"} => Within(pg, j) = {}
           /\ \A j \in Within(pg, i) : pg[j].tag \in {"td", "th"} =>
                 \E r \in Within(pg, i) : pg[r].tag = "tr" /\ j \in ChildSet(pg, r)
           /\ \A r \in Within(pg, i) : pg[r].tag = "tr" =>
                 /\ \A k \in ChildSet(pg, r) : pg[k].tag \in {"td", "th"}
                 /\ \A j \in Within(pg, r) : pg[j].tag \in {"td", "th"}
<1>1. /\ Nested(pg) /\ i \in 0..Len(pg) /\ Len(pg) \in Nat
      /\ \A j \in 1..Len(pg) : pg[j].tag \in TableTags
      BY DEF PlainTables, Legal, Nested
<1>2. Within(pg, i) \in SUBSET (1..Len(pg)) /\ ChildSet(pg, i) \subseteq Within(pg, i)
      BY <1>1, WithinFacts
<1>3. ASSUME NEW j \in 1..Len(pg), NEW k \in ChildSet(pg, j)
      PROVE  /\ pg[j].tag = "table" => pg[k].tag \in {"tr", "thead", "caption"}
             /\ pg[j].tag = "thead" => pg[k].tag = "tr"
             /\ pg[j].tag = "tr" => pg[k].tag \in {"td", "th"}
             /\ pg[j].tag \in {"td", "th"} => pg[k].tag = "table"
             /\ pg[j].tag # "caption"
  <2>1. j \in 0..Len(pg) /\ j # 0
        BY <1>1
  <2>2. pg[k].tag \in MayHold(pg[j].tag, TableTags)
        BY <2>1 DEF PlainTables, Legal, Tag
  <2>3. /\ MayHold("table", TableTags) \subseteq {"tr", "thead", "caption"}
        /\ MayHold("thead", TableTags) \subseteq {"tr"}
        /\ MayHold("tr", TableTags) \subseteq {"td", "th"}
        BY DEF MayHold, HeadingTags, Level
  <2>4. /\ MayHold("td", TableTags) \subseteq {"table"}
        /\ MayHold("th", TableTags) \subseteq {"table"}
        BY DEF MayHold, Flow, ItemTags, TableTags, HeadingTags, Level
  <2>5. MayHold("caption", TableTags) = {}
        BY DEF MayHold, TableTags, HeadingTags, Level
  <2> QED BY <2>2, <2>3, <2>4, <2>5
<1>4. ASSUME NEW j \in Within(pg, i), pg[j].tag \in {"td", "th", "caption"} PROVE Within(pg, j) = {}
  <2>1. j \in 1..Len(pg) /\ j \in 0..Len(pg)
        BY <1>1, <1>2
  <2>2. ASSUME NEW k \in ChildSet(pg, j) PROVE FALSE
    <3>1. k \in Within(pg, j)
          BY <1>1, <2>1, WithinFacts
    <3>2. k \in Within(pg, i)
          BY <1>1, <3>1, WithinWithin
    <3>3. pg[k].tag # "table"
          BY <3>2 DEF PlainTables
    <3> QED BY <1>3, <1>4, <2>1, <3>3
  <2> QED BY <1>1, <2>1, <2>2, ChildOver
<1>5. ASSUME NEW r \in Within(pg, i), pg[r].tag = "tr"
      PROVE  /\ \A k \in ChildSet(pg, r) : pg[k].tag \in {"td", "th"}
             /\ \A j \in Within(pg, r) : pg[j].tag \in {"td", "th"} /\ j \in ChildSet(pg, r)
  <2>1. r \in 1..Len(pg) /\ r \in 0..Len(pg)
        BY <1>1, <1>2
  <2>2. \A k \in ChildSet(pg, r) : pg[k].tag \in {"td", "th"}
        BY <1>3, <1>5, <2>1
  <2>3. ASSUME NEW j \in Within(pg, r) PROVE j \in ChildSet(pg, r)
    <3>1. PICK z \in ChildSet(pg, r) : j = z \/ j \in Within(pg, z)
          BY <1>1, <2>1, ChildOver
    <3>2. z \in Within(pg, r)
          BY <1>1, <2>1, WithinFacts
    <3>3. z \in Within(pg, i)
          BY <1>1, <3>2, WithinWithin
    <3>4. Within(pg, z) = {}
          BY <1>4, <2>2, <3>3
    <3> QED BY <3>1, <3>4
  <2> QED BY <2>2, <2>3
<1>6. ASSUME NEW j \in Within(pg, i), pg[j].tag \in {"td", "th"}
      PROVE  \E r \in Within(pg, i) : pg[r].tag = "tr" /\ j \in ChildSet(pg, r)
  <2>1. PICK x \in ChildSet(pg, i) : j = x \/ j \in Within(pg, x)
        BY <1>1, ChildOver
  <2>2. x \in Within(pg, i) /\ x \in 1..Len(pg) /\ x \in 0..Len(pg)
        BY <1>1, <1>2
  <2>3. pg[x].tag \in {"tr", "thead", "caption"}
        BY <1>3
  <2>4. j \in Within(pg, x)
        BY <1>6, <2>1, <2>3
  <2>5. CASE pg[x].tag = "tr"
        BY <1>5, <2>2, <2>4, <2>5
  <2>6. CASE pg[x].tag = "thead"
    <3>1. PICK y \in ChildSet(pg, x) : j = y \/ j \in Within(pg, y)
          BY <1>1, <2>2, <2>4, ChildOver
    <3>2. pg[y].tag = "tr"
          BY <1>3, <2>2, <2>6
    <3>3. y \in Within(pg, x)
          BY <1>1, <2>2, WithinFacts
    <3>4. y \in Within(pg, i)
          BY <1>1, <2>2, <3>3, WithinWithin
    <3>5. j \in Within(pg, y)
          BY <1>6, <3>1, <3>2
    <3> QED BY <1>5, <3>2, <3>4, <3>5
  <2>7. CASE pg[x].tag = "caption"
        BY <1>4, <2>2, <2>4, <2>7
  <2> QED BY <2>3, <2>5, <2>6, <2>7
<1> QED BY <1>4, <1>5, <1>6

(* The rows of a table that have cells, and what is said in some elements.   *)
FullRows(pg, i) == {j \in Below(pg, i) : pg[j].tag = "tr" /\ RowCells(pg, j) # <<>>}
SaidIn(pg, R)   == UNION {SpokenIn(pg, Subtree(pg, r)) : r \in R}

(* What a table says in its cells is what is in its rows.                    *)
LEMMA RowsTell ==
    ASSUME NEW pg, PlainTables(pg), Childless(pg), NEW i \in 1..Len(pg), pg[i].tag = "table"
    PROVE  /\ CellsTell(CellsOf(TableOf(pg, i)), SaidIn(pg, FullRows(pg, i)))
           /\ FullRows(pg, i) # {} => TableOf(pg, i).rows # <<>> \/ TableOf(pg, i).headers # <<>>
<1> DEFINE R == FullRows(pg, i)
           all == InOrder(R)
           inHead(r) == \E j \in Above(pg, r) : pg[j].tag = "thead"
           plain(r)  == ~inHead(r) /\ \E c \in ToSet(RowCells(pg, r)) : ~c.header
           isHeader(n) == inHead(all[n]) \/ (n = 1 /\ ~plain(all[n]))
           cells == [n \in DOMAIN all |-> RowCells(pg, all[n])]
           heads == {n \in DOMAIN all : isHeader(n)}
           rest  == {n \in DOMAIN all : ~isHeader(n)}
           both  == Picked(cells, heads) \o Picked(cells, rest)
           size  == Cardinality(R)
<1>1. /\ Nested(pg) /\ pg \in Seq(Elements) /\ i \in 0..Len(pg) /\ i # 0 /\ Len(pg) \in Nat
      /\ \A j \in 1..Len(pg) : pg[j].tag \in TableTags /\ pg[j].text \in TextOptions(pg[j].tag)
      BY DEF PlainTables, Legal, Nested
<1>2. Within(pg, i) = Below(pg, i) /\ Within(pg, i) \in SUBSET (i + 1..Len(pg))
      BY <1>1, WithinFacts
<1>3. \A r : r \in R <=> r \in Within(pg, i) /\ pg[r].tag = "tr" /\ RowCells(pg, r) # <<>>
      BY <1>2 DEF FullRows
<1>4. R \in SUBSET (1..Len(pg))
      BY <1>2, <1>3
<1>5. TableOf(pg, i).headers = Picked(cells, heads) /\ TableOf(pg, i).rows = Picked(cells, rest)
      BY DEF TableOf, FullRows
<1>6. /\ size \in Nat /\ all \in [1..size -> R]
      /\ \A m, n \in 1..size : m < n => all[m] < all[n]
      /\ \A x \in R : \E n \in 1..size : all[n] = x
  <2>1. IsFiniteSet(1..Len(pg))
        BY <1>1, FS_Interval
  <2> HIDE DEF R
  <2>2. IsFiniteSet(R)
        BY <1>4, <2>1, FS_Subset
  <2>3. R \in SUBSET Nat
        BY <1>4
  <2> QED BY <2>2, <2>3, InOrderFacts
<1>7. heads \in SUBSET DOMAIN all /\ rest \in SUBSET DOMAIN all /\ heads \cap rest = {}
      /\ heads \cup rest = DOMAIN all
      OBVIOUS
<1> HIDE DEF R, all, heads, rest, size
<1>8. cells \in Seq(Seq(Cells)) /\ DOMAIN cells = 1..size
  <2>1. ASSUME NEW n \in 1..size PROVE RowCells(pg, all[n]) \in Seq(Cells)
    <3>1. all[n] \in 1..Len(pg)
          BY <1>4, <1>6
    <3> QED BY <1>1, <3>1, RowCellsType
  <2>2. cells \in [1..size -> Seq(Cells)]
        BY <1>6, <2>1
  <2> QED BY <1>6, <2>2
<1>9. \A n \in 1..size : cells[n] = RowCells(pg, all[n]) /\ all[n] \in R
      BY <1>6
<1>10. heads \in SUBSET DOMAIN cells /\ rest \in SUBSET DOMAIN cells /\ heads \cup rest = DOMAIN cells
      BY <1>6, <1>7, <1>8
<1>23. both = Picked(cells, heads) \o Picked(cells, rest)
      OBVIOUS
<1> HIDE DEF cells, both
<1>11. both \in Seq(Seq(Cells)) /\ SameMembers(both, cells)
       BY <1>7, <1>8, <1>10, <1>23, SplitFacts
<1>12. CellsOf(TableOf(pg, i)) = FlattenSeq(both)
      BY <1>5, <1>23 DEF CellsOf
<1>13. both # <<>> => Picked(cells, heads) # <<>> \/ Picked(cells, rest) # <<>>
      BY <1>23
<1>14. PICK f \in [DOMAIN both -> 1..size] :
             /\ \A n \in DOMAIN both : both[n] = cells[f[n]]
             /\ \A m, n \in DOMAIN both : m < n => f[m] # f[n]
             /\ \A x \in 1..size : \E n \in DOMAIN both : f[n] = x
      BY <1>8, <1>11 DEF SameMembers
<1> DEFINE k == Len(both)
           W == [n \in 1..k |-> SpokenIn(pg, Subtree(pg, all[f[n]]))]
<1>15. k \in Nat /\ DOMAIN both = 1..k /\ both = [m \in 1..k |-> both[m]]
      BY <1>11
<1>16. ASSUME NEW r \in R
       PROVE  CellsTell(RowCells(pg, r), SpokenIn(pg, Subtree(pg, r)))
  <2>1. r \in Within(pg, i) /\ pg[r].tag = "tr" /\ r \in 1..Len(pg)
        BY <1>3, <1>4
  <2>2. \A x \in ChildSet(pg, r) : pg[x].tag \in {"td", "th"}
        BY <2>1, TableParts
  <2>3. ~pg[r].text
    <3>1. pg[r].text \in TextOptions("tr")
          BY <1>1, <2>1
    <3>2. TextOptions("tr") = {FALSE}
          BY DEF TextOptions
    <3>3. pg[r].text = FALSE
          BY <3>1, <3>2
    <3> QED BY <3>3, Zenon
  <2> QED BY <1>1, <2>1, <2>2, <2>3, RowTells
<1>17. ASSUME NEW m \in 1..k
       PROVE  /\ f[m] \in 1..size /\ all[f[m]] \in R /\ W[m] = SpokenIn(pg, Subtree(pg, all[f[m]]))
              /\ both[m] = RowCells(pg, all[f[m]])
  <2>1. f[m] \in 1..size /\ both[m] = cells[f[m]]
        BY <1>14, <1>15
  <2>2. W[m] = SpokenIn(pg, Subtree(pg, all[f[m]]))
        OBVIOUS
  <2> QED BY <1>9, <2>1, <2>2
<1> HIDE DEF W, k
<1>18. \A m \in 1..k : CellsTell(both[m], W[m])
      BY <1>16, <1>17
<1>19. ASSUME NEW l \in 1..k, NEW m \in 1..k, l < m PROVE W[l] \cap W[m] = {}
  <2> DEFINE p == all[f[l]]
             q == all[f[m]]
  <2>1. p \in R /\ q \in R /\ f[l] \in 1..size /\ f[m] \in 1..size
        BY <1>17
  <2>2. f[l] # f[m]
        BY <1>14, <1>15, <1>19
  <2>3. p # q
    <3>1. f[l] < f[m] \/ f[m] < f[l]
          BY <1>6, <2>1, <2>2
    <3>2. p < q \/ q < p
          BY <1>6, <2>1, <3>1
    <3> HIDE DEF p, q
    <3>3. p \in 1..Len(pg) /\ q \in 1..Len(pg)
          BY <1>4, <2>1
    <3> QED BY <3>2, <3>3
  <2> HIDE DEF p, q
  <2>4. p \in 1..Len(pg) /\ q \in 1..Len(pg) /\ p \in Within(pg, i) /\ q \in Within(pg, i)
        /\ pg[p].tag = "tr" /\ pg[q].tag = "tr"
        BY <1>3, <1>4, <2>1
  <2>5. p \notin Within(pg, q) /\ q \notin Within(pg, p)
    <3>1. \A x \in Within(pg, p) : pg[x].tag \in {"td", "th"}
          BY <2>4, TableParts
    <3>2. \A x \in Within(pg, q) : pg[x].tag \in {"td", "th"}
          BY <2>4, TableParts
    <3> QED BY <2>4, <3>1, <3>2
  <2>6. Subtree(pg, p) \cap Subtree(pg, q) = {}
        BY <1>1, <2>3, <2>4, <2>5, SubtreesApart
  <2>7. SpokenIn(pg, Subtree(pg, p)) \cap SpokenIn(pg, Subtree(pg, q)) = {}
        BY <2>6, SpokenTogether
  <2>8. W[l] = SpokenIn(pg, Subtree(pg, p)) /\ W[m] = SpokenIn(pg, Subtree(pg, q))
        BY <1>17 DEF p, q
  <2> QED BY <2>7, <2>8
<1>20. CellsTell(FlattenSeq(both), Total(W, k))
      BY <1>15, <1>18, <1>19, FlattenCells
<1>21. Total(W, k) = SaidIn(pg, R)
  <2>1. ASSUME NEW w, w \in Total(W, k) PROVE w \in SaidIn(pg, R)
    <3>1. PICK m \in 1..k : w \in W[m]
          BY <2>1 DEF Total
    <3> QED BY <1>17, <3>1 DEF SaidIn
  <2>2. ASSUME NEW w, w \in SaidIn(pg, R) PROVE w \in Total(W, k)
    <3>1. PICK r \in R : w \in SpokenIn(pg, Subtree(pg, r))
          BY <2>2 DEF SaidIn
    <3>2. PICK n \in 1..size : all[n] = r
          BY <1>6
    <3>3. PICK m \in 1..k : f[m] = n
          BY <1>14, <1>15
    <3>4. w \in W[m]
          BY <1>17, <3>1, <3>2, <3>3
    <3> QED BY <3>4 DEF Total
  <2> QED BY <2>1, <2>2
<1>22. R # {} => both # <<>>
  <2>1. ASSUME NEW r \in R PROVE both # <<>>
    <3>1. PICK n \in 1..size : all[n] = r
          BY <1>6
    <3>2. PICK m \in DOMAIN both : f[m] = n
          BY <1>14
    <3> QED BY <3>2
  <2> QED BY <2>1
<1> QED BY <1>5, <1>12, <1>13, <1>20, <1>21, <1>22 DEF R

(* The words of a block, and those of a table.                               *)
BlockWords(b) ==
    Words(b.text) \o
    FlattenSeq([n \in DOMAIN b.items |-> Words(b.items[n])]) \o
    FlattenSeq([n \in DOMAIN CellsOf(b.table) |-> Words(CellsOf(b.table)[n].text)])

(* No text, no items and no table have no words.                             *)
LEMMA FlattenNothing ==
    ASSUME NEW seqs, DOMAIN seqs = {}, seqs = [n \in {} |-> seqs[n]]
    PROVE  FlattenSeq(seqs) = <<>>
<1>1. seqs \in [1..0 -> Seq(Pairs)]
      OBVIOUS
<1>2. 0 \in Nat
      OBVIOUS
<1>3. PICK f : f[0] = <<>> /\ FlattenSeq(seqs) = f[0]
      BY <1>1, <1>2, Flattening
<1> QED BY <1>3

(* So there are none in an empty text or an empty list, ...                  *)
LEMMA NoTextNoItems ==
    /\ Words(<<>>) = <<>>
    /\ \A items : items = <<>> => FlattenSeq([n \in DOMAIN items |-> Words(items[n])]) = <<>>
<1>1. Words(<<>>) = <<>>
  <2>1. Blank(<<>>)
        BY SaysNothing, WordsSay
  <2> QED BY <2>1 DEF Blank
<1>2. ASSUME NEW items, items = <<>>
      PROVE  FlattenSeq([n \in DOMAIN items |-> Words(items[n])]) = <<>>
  <2> DEFINE seqs == [n \in DOMAIN items |-> Words(items[n])]
  <2>1. DOMAIN seqs = {} /\ seqs = [n \in {} |-> seqs[n]]
        BY <1>2
  <2> HIDE DEF seqs
  <2>2. FlattenSeq(seqs) = <<>>
        BY <2>1, FlattenNothing
  <2> QED BY <2>2 DEF seqs
<1> QED BY <1>1, <1>2

(* ... and none in a block that is no table.                                 *)
LEMMA NoTableNoWords ==
    ASSUME NEW t, t = NoTable
    PROVE  FlattenSeq([n \in DOMAIN CellsOf(t) |-> Words(CellsOf(t)[n].text)]) = <<>>
<1> DEFINE lines == t.headers \o t.rows
           cs == CellsOf(t)
           seqs == [n \in DOMAIN cs |-> Words(cs[n].text)]
<1>1. lines = <<>> /\ DOMAIN lines = {} /\ lines = [n \in {} |-> lines[n]]
      BY DEF NoTable
<1>2. FlattenSeq(lines) = <<>>
  <2> HIDE DEF lines
  <2> QED BY <1>1, FlattenNothing
<1>3. cs = <<>>
      BY <1>2 DEF CellsOf
<1> HIDE DEF cs
<1>4. DOMAIN seqs = {} /\ seqs = [n \in {} |-> seqs[n]]
      BY <1>3
<1> HIDE DEF seqs
<1>5. FlattenSeq(seqs) = <<>>
      BY <1>4, FlattenNothing
<1> QED BY <1>5 DEF seqs, cs

(* The caption stands right after the table, and apart from its rows.        *)
CaptionsOf(pg, i) == {j \in Below(pg, i) : pg[j].tag = "caption"}
CaptionWords(pg, i) == IF CaptionsOf(pg, i) = {} THEN {} ELSE SpokenIn(pg, Subtree(pg, i + 1))

(* A table has at most one caption, and it is the element after it.          *)
LEMMA OneCaption ==
    ASSUME NEW pg, PlainTables(pg), NEW i \in 1..Len(pg), pg[i].tag = "table"
    PROVE  /\ \A j \in CaptionsOf(pg, i) : j = i + 1
           /\ CaptionsOf(pg, i) \in SUBSET (1..Len(pg))
<1>1. Nested(pg) /\ i \in 0..Len(pg) /\ i # 0 /\ Len(pg) \in Nat
      BY DEF PlainTables, Legal, Nested
<1>2. Within(pg, i) = Below(pg, i) /\ Within(pg, i) \in SUBSET (i + 1..Len(pg))
      BY <1>1, WithinFacts
<1>3. ASSUME NEW j \in CaptionsOf(pg, i) PROVE j = i + 1
  <2>1. j \in Within(pg, i) /\ pg[j].tag = "caption" /\ j \in 1..Len(pg) /\ j > i
        BY <1>2 DEF CaptionsOf
  <2>2. j - 1 \in 1..Len(pg) /\ pg[j - 1].tag = "table" /\ j - 1 \in 0..Len(pg)
        BY <2>1 DEF PlainTables
  <2>3. j \in Within(pg, j - 1)
    <3>1. PICK y \in Within(pg, j - 1) : pg[y].tag \in {"th", "td"}
          BY <2>1 DEF PlainTables
    <3>2. y \in (j - 1) + 1..Len(pg) /\ \A k \in (j - 1) + 1..y : pg[k].depth > Depth(pg, j - 1)
          BY DEF Within
    <3>3. pg[j].depth > Depth(pg, j - 1)
          BY <1>1, <2>1, <3>2
    <3>4. \A k \in (j - 1) + 1..j : k = j
          BY <2>1
    <3> QED BY <1>1, <2>1, <3>3, <3>4 DEF Within
  <2>4. ASSUME j - 1 # i PROVE FALSE
    <3>1. i < j - 1
          BY <1>1, <2>1, <2>4
    <3>2. j - 1 \in Within(pg, i)
          BY <1>1, <2>1, <2>2, <2>3, <3>1, WithinChain
    <3> QED BY <2>2, <3>2 DEF PlainTables
  <2> QED BY <2>1, <2>4
<1> QED BY <1>2, <1>3 DEF CaptionsOf

(* The text of a table's block is what its caption says.                     *)
LEMMA CaptionRecites ==
    ASSUME NEW pg, PlainTables(pg), Childless(pg), NEW i \in 1..Len(pg), pg[i].tag = "table"
    PROVE  Recites(Words(TableOf(pg, i).caption), CaptionWords(pg, i))
<1> DEFINE C == CaptionsOf(pg, i)
<1>1. TableOf(pg, i).caption = IF C = {} THEN <<>> ELSE TextOf(pg, Min(C))
      BY DEF TableOf, CaptionsOf
<1>2. \A j \in C : j = i + 1 /\ j \in 1..Len(pg) /\ j \in Nat
      BY OneCaption
<1>3. CASE C = {}
  <2>1. Words(TableOf(pg, i).caption) = <<>> /\ CaptionWords(pg, i) = {}
        BY <1>1, <1>3, NoTextNoItems DEF CaptionWords
  <2> QED BY <2>1, NothingRecited
<1>4. CASE C # {}
  <2> HIDE DEF C
  <2>1. Min(C) = i + 1 /\ i + 1 \in 1..Len(pg)
    <3>1. C \in SUBSET Nat
          BY <1>2
    <3>2. Min(C) \in C
          BY <1>4, <3>1, MinFacts
    <3> QED BY <1>2, <3>2
  <2>2. Tells(TextOf(pg, i + 1), SpokenIn(pg, Subtree(pg, i + 1)))
    <3>1. Nested(pg)
          BY DEF PlainTables, Legal
    <3> QED BY <2>1, <3>1, TextSays
  <2>3. CaptionWords(pg, i) = SpokenIn(pg, Subtree(pg, i + 1))
        BY <1>4 DEF CaptionWords, C
  <2>4. TableOf(pg, i).caption = TextOf(pg, i + 1)
        BY <1>1, <1>4, <2>1
  <2> QED BY <2>2, <2>3, <2>4, WordsRecite
<1> QED BY <1>3, <1>4

(* A table says its caption and its rows, and is a block if it says anything.*)
LEMMA TableSaid ==
    ASSUME NEW pg, PlainTables(pg), Childless(pg), NEW i \in 1..Len(pg), pg[i].tag = "table"
    PROVE  /\ CaptionWords(pg, i) \cap SaidIn(pg, FullRows(pg, i)) = {}
           /\ CaptionWords(pg, i) \cup SaidIn(pg, FullRows(pg, i)) = SpokenIn(pg, Subtree(pg, i))
           /\ SpokenIn(pg, Subtree(pg, i)) # {} => FullRows(pg, i) # {}
<1> DEFINE R == FullRows(pg, i)
<1>1. /\ Nested(pg) /\ i \in 0..Len(pg) /\ i # 0 /\ Len(pg) \in Nat
      /\ \A j \in 1..Len(pg) : pg[j].tag \in TableTags /\ pg[j].text \in TextOptions(pg[j].tag)
      BY DEF PlainTables, Legal, Nested
<1>2. Within(pg, i) = Below(pg, i) /\ Within(pg, i) \in SUBSET (1..Len(pg)) /\ i \notin Within(pg, i)
      BY <1>1, WithinFacts
<1>3. \A r : r \in R <=> r \in Within(pg, i) /\ pg[r].tag = "tr" /\ RowCells(pg, r) # <<>>
      BY <1>2 DEF FullRows
<1>4. \A j : j \in CaptionsOf(pg, i) <=> j \in Within(pg, i) /\ pg[j].tag = "caption"
      BY <1>2 DEF CaptionsOf
<1>5. \A j \in 1..Len(pg) : pg[j].tag \in {"table", "thead", "tr"} => ~pg[j].text
  <2>1. \A tag \in {"table", "thead", "tr"} : TextOptions(tag) = {FALSE}
        BY DEF TextOptions
  <2>2. ASSUME NEW j \in 1..Len(pg), pg[j].tag \in {"table", "thead", "tr"} PROVE pg[j].text = FALSE
        BY <1>1, <2>1, <2>2
  <2>3. ASSUME NEW j \in 1..Len(pg), pg[j].tag \in {"table", "thead", "tr"} PROVE ~pg[j].text
    <3>1. pg[j].text = FALSE
          BY <2>2, <2>3
    <3> QED BY <3>1, Zenon
  <2> QED BY <2>3
<1>6. ASSUME NEW j \in Within(pg, i), pg[j].tag \in {"td", "th"}
      PROVE  \E r \in R : j \in Subtree(pg, r)
  <2>1. PICK r \in Within(pg, i) : pg[r].tag = "tr" /\ j \in ChildSet(pg, r)
        BY <1>6, TableParts
  <2>2. r \in 1..Len(pg) /\ r \in 0..Len(pg) /\ ~pg[r].text
        BY <1>1, <1>2, <1>5, <2>1
  <2>3. \A k \in ChildSet(pg, r) : pg[k].tag \in {"td", "th"}
        BY <2>1, TableParts
  <2>4. RowCells(pg, r) # <<>>
        BY <1>1, <2>1, <2>2, <2>3, RowTells
  <2>5. j \in Within(pg, r)
        BY <1>1, <2>1, <2>2, WithinFacts
  <2> QED BY <1>3, <2>1, <2>4, <2>5 DEF Subtree
<1>7. ASSUME NEW j \in CaptionsOf(pg, i), NEW r \in R PROVE Subtree(pg, j) \cap Subtree(pg, r) = {}
  <2>1. j \in Within(pg, i) /\ pg[j].tag = "caption" /\ r \in Within(pg, i) /\ pg[r].tag = "tr"
        BY <1>3, <1>4
  <2>2. Within(pg, j) = {} /\ \A k \in Within(pg, r) : pg[k].tag \in {"td", "th"}
        BY <2>1, TableParts
  <2> QED BY <2>1, <2>2 DEF Subtree
<1>8. \A j \in CaptionsOf(pg, i) : j = i + 1
      BY OneCaption
<1> HIDE DEF R
<1>9. ASSUME NEW w, w \in CaptionWords(pg, i), w \in SaidIn(pg, R) PROVE FALSE
  <2>1. PICK r \in R : w \in SpokenIn(pg, Subtree(pg, r))
        BY <1>9 DEF SaidIn
  <2>2. CaptionsOf(pg, i) # {} /\ w \in SpokenIn(pg, Subtree(pg, i + 1))
        BY <1>9 DEF CaptionWords
  <2>3. PICK j \in CaptionsOf(pg, i) : j = i + 1
        BY <1>8, <2>2
  <2>4. Subtree(pg, j) \cap Subtree(pg, r) = {}
        BY <1>7
  <2>5. SpokenIn(pg, Subtree(pg, j)) \cap SpokenIn(pg, Subtree(pg, r)) = {}
        BY <2>4, SpokenTogether
  <2> QED BY <2>1, <2>2, <2>3, <2>5
<1>10. ASSUME NEW x \in Within(pg, i) PROVE Subtree(pg, x) \subseteq Subtree(pg, i)
      BY <1>1, WithinWithin DEF Subtree
<1>11. ASSUME NEW w, w \in CaptionWords(pg, i) \cup SaidIn(pg, R) PROVE w \in SpokenIn(pg, Subtree(pg, i))
  <2>1. CASE w \in CaptionWords(pg, i)
    <3>1. CaptionsOf(pg, i) # {} /\ w \in SpokenIn(pg, Subtree(pg, i + 1))
          BY <2>1 DEF CaptionWords
    <3>2. i + 1 \in Within(pg, i)
          BY <1>4, <1>8, <3>1
    <3>3. SpokenIn(pg, Subtree(pg, i + 1)) \subseteq SpokenIn(pg, Subtree(pg, i))
          BY <1>10, <3>2, SpokenTogether
    <3> QED BY <3>1, <3>3
  <2>2. CASE w \in SaidIn(pg, R)
    <3>1. PICK r \in R : w \in SpokenIn(pg, Subtree(pg, r))
          BY <2>2 DEF SaidIn
    <3>2. SpokenIn(pg, Subtree(pg, r)) \subseteq SpokenIn(pg, Subtree(pg, i))
          BY <1>3, <1>10, SpokenTogether
    <3> QED BY <3>1, <3>2
  <2> QED BY <1>11, <2>1, <2>2
<1>12. ASSUME NEW w, w \in SpokenIn(pg, Subtree(pg, i))
       PROVE  w \in CaptionWords(pg, i) \cup SaidIn(pg, R) /\ R # {}
  <2>1. PICK j \in Subtree(pg, i) : /\ pg[j].text /\ pg[j].tag # "dropped"
                                    /\ \E k \in {j} \cup ChildSet(pg, j) : w = Word(j, k)
        BY <1>12, SpokenFacts
  <2>2. j \in 1..Len(pg)
        BY <1>2 DEF Subtree
  <2>3. pg[j].tag \in {"td", "th", "caption"}
        BY <1>1, <1>5, <2>1, <2>2 DEF TableTags
  <2>4. j \in Within(pg, i)
        BY <2>3 DEF Subtree
  <2>5. CASE pg[j].tag \in {"td", "th"}
    <3>1. PICK r \in R : j \in Subtree(pg, r)
          BY <1>6, <2>4, <2>5
    <3>2. w \in SpokenIn(pg, Subtree(pg, r))
          BY <2>1, <3>1, SpokenFacts
    <3> QED BY <3>2 DEF SaidIn
  <2>6. CASE pg[j].tag = "caption"
    <3>1. j \in CaptionsOf(pg, i) /\ j = i + 1
          BY <1>4, <1>8, <2>4, <2>6
    <3>2. w \in SpokenIn(pg, Subtree(pg, i + 1))
          BY <2>1, <3>1, SpokenFacts DEF Subtree
    <3>3. w \in CaptionWords(pg, i)
          BY <3>1, <3>2 DEF CaptionWords
    <3>4. i + 1 - 1 = i
          BY <1>1
    <3>5. PICK y \in Within(pg, i) : pg[y].tag \in {"th", "td"}
          BY <2>2, <2>6, <3>1, <3>4 DEF PlainTables
    <3>6. R # {}
          BY <1>6, <3>5
    <3> QED BY <3>3, <3>6
  <2> QED BY <2>3, <2>5, <2>6
<1> DEFINE A == CaptionWords(pg, i)
           B == SaidIn(pg, R)
           D == SpokenIn(pg, Subtree(pg, i))
<1>13. A \cap B = {} /\ A \cup B = D /\ (D # {} => R # {})
  <2> HIDE DEF A, B, D
  <2>1. \A w : w \in A \cup B <=> w \in D
        BY <1>11, <1>12 DEF A, B, D
  <2>2. \A w : ~(w \in A /\ w \in B)
        BY <1>9 DEF A, B
  <2>3. \A w \in D : R # {}
        BY <1>12 DEF D
  <2> QED BY <2>1, <2>2, <2>3
<1> QED BY <1>13 DEF R

(* The block of a table has every word of the table, once.                   *)
LEMMA TableRecites ==
    ASSUME NEW pg, PlainTables(pg), Childless(pg), NEW i \in 1..Len(pg), pg[i].tag = "table",
           NEW b, b.text = TableOf(pg, i).caption, b.items = <<>>, b.table = TableOf(pg, i)
    PROVE  Recites(BlockWords(b), SpokenIn(pg, Subtree(pg, i)))
<1> DEFINE A == CaptionWords(pg, i)
           B == SaidIn(pg, FullRows(pg, i))
           cs == CellsOf(b.table)
           cw == FlattenSeq([n \in DOMAIN cs |-> Words(cs[n].text)])
           iw == FlattenSeq([n \in DOMAIN b.items |-> Words(b.items[n])])
<1>1. Recites(Words(b.text), A)
      BY CaptionRecites
<1>2. iw = <<>>
      BY NoTextNoItems
<1>3. CellsTell(cs, B)
      BY RowsTell
<1> HIDE DEF cs, iw
<1>4. Recites(cw, B)
  <2> HIDE DEF B
  <2> QED BY <1>3, CellsRecite
<1>5. BlockWords(b) = Words(b.text) \o iw \o cw
      BY DEF BlockWords, cs, iw
<1> HIDE DEF cw
<1>6. Words(b.text) \o iw = Words(b.text)
  <2>1. Words(b.text) \in Seq(Pairs)
        BY <1>1 DEF Recites, Tells
  <2> QED BY <1>2, <2>1
<1>7. A \cap B = {} /\ A \cup B = SpokenIn(pg, Subtree(pg, i))
      BY TableSaid
<1> HIDE DEF A, B
<1>8. Recites(Words(b.text) \o cw, A \cup B)
      BY <1>1, <1>4, <1>7, JoinRecites
<1> QED BY <1>5, <1>6, <1>7, <1>8

-----------------------------------------------------------------------------
(* All the words of a page *)

(* What a block is made from: all of an element, or its bare text.           *)
BlockRegion(pg, k) == IF pg[k].tag \in BlockTags THEN Subtree(pg, k) ELSE {k}

(* Every block of a page says its element, and no element that says          *)
(* something goes without one.                                               *)
BlocksTell(pg) ==
    \A k \in 1..Len(pg) : pg[k].tag \in BlockTags =>
        /\ \A b : b.node = k /\ Made(pg, b) => Recites(BlockWords(b), SpokenIn(pg, Subtree(pg, k)))
        /\ SpokenIn(pg, Subtree(pg, k)) # {} => Speaks(pg, k)

(* The words of a block with a text and nothing else are those of the text.  *)
LEMMA PlainBlockWords ==
    ASSUME NEW b, b.items = <<>>, b.table = NoTable, NEW W, Tells(b.text, W)
    PROVE  Recites(BlockWords(b), W)
<1> DEFINE cs == CellsOf(b.table)
           cw == FlattenSeq([n \in DOMAIN cs |-> Words(cs[n].text)])
           iw == FlattenSeq([n \in DOMAIN b.items |-> Words(b.items[n])])
<1>1. iw = <<>>
      BY NoTextNoItems
<1>2. cw = <<>>
      BY NoTableNoWords
<1>3. BlockWords(b) = Words(b.text) \o iw \o cw
      BY DEF BlockWords
<1>4. Recites(Words(b.text), W)
      BY WordsRecite
<1> HIDE DEF cw, iw
<1>5. Words(b.text) \o iw \o cw = Words(b.text)
  <2>1. Words(b.text) \in Seq(Pairs)
        BY <1>4 DEF Recites, Tells
  <2> QED BY <1>1, <1>2, <2>1
<1> QED BY <1>3, <1>4, <1>5

(* The words of bare text are those of the element itself.                   *)
LEMMA BareBlockWords ==
    ASSUME NEW pg, Nested(pg), NEW b, NEW k \in 1..Len(pg), b.node = k, Made(pg, b),
           pg[k].tag \notin BlockTags \cup {"dropped"}
    PROVE  Recites(BlockWords(b), SpokenIn(pg, {k}))
<1>1. b.items = <<>> /\ b.table = NoTable /\ b.text = BareText(pg, k) /\ pg[k].text
      BY DEF Made
<1>2. {Word(k, j) : j \in {k} \cup ChildSet(pg, k)} = SpokenIn(pg, {k})
  <2>1. ASSUME NEW w
        PROVE  w \in SpokenIn(pg, {k}) <=> \E j \in {k} \cup ChildSet(pg, k) : w = Word(k, j)
    <3>1. ASSUME NEW R, R = {k}
          PROVE  w \in SpokenIn(pg, R) <=>
                    /\ pg[k].text /\ pg[k].tag # "dropped"
                    /\ \E j \in {k} \cup ChildSet(pg, k) : w = Word(k, j)
      <4>1. w \in SpokenIn(pg, R) <=>
               \E i \in R : /\ pg[i].text /\ pg[i].tag # "dropped"
                            /\ \E j \in {i} \cup ChildSet(pg, i) : w = Word(i, j)
            BY SpokenFacts
      <4> QED BY <3>1, <4>1
    <3>2. pg[k].tag # "dropped"
          OBVIOUS
    <3> QED BY <1>1, <3>1, <3>2
  <2> DEFINE A == {Word(k, j) : j \in {k} \cup ChildSet(pg, k)}
             B == SpokenIn(pg, {k})
  <2>2. \A w : w \in A <=> \E j \in {k} \cup ChildSet(pg, k) : w = Word(k, j)
        OBVIOUS
  <2>3. \A w : w \in A <=> w \in B
        BY <2>1, <2>2
  <2> HIDE DEF A, B
  <2>4. A = B
        BY <2>3
  <2> QED BY <2>4 DEF A, B
<1>3. Tells(BareText(pg, k), {Word(k, j) : j \in {k} \cup ChildSet(pg, k)})
      BY BareTextSaysItself
<1>4. Tells(BareText(pg, k), SpokenIn(pg, {k}))
      BY <1>2, <1>3
<1> QED BY <1>1, <1>4, PlainBlockWords

(* Whatever an element with text is in, some block says its words.           *)
LEMMA SomeBlockSays ==
    ASSUME NEW pg, Nested(pg), Childless(pg), BlocksTell(pg),
           NEW blocks, Walked(pg, DOMAIN pg, FALSE, blocks),
           NEW j \in 1..Len(pg), pg[j].text, pg[j].tag # "dropped"
    PROVE  \E n \in DOMAIN blocks : /\ blocks[n].node \in 1..Len(pg)
                                    /\ j \in BlockRegion(pg, blocks[n].node)
<1>1. DOMAIN pg = 1..Len(pg) /\ Len(pg) \in Nat /\ \A i \in 1..Len(pg) : i \in 0..Len(pg)
      BY DEF Nested
<1>2. \A i \in 1..Len(pg) : Within(pg, i) \in SUBSET (i + 1..Len(pg))
      BY <1>1, WithinFacts
<1>3. \A k \in 1..Len(pg) : Heard(pg, DOMAIN pg, k) /\ Speaks(pg, k) =>
         \E n \in DOMAIN blocks : blocks[n].node = k
      BY <1>1 DEF Walked
<1> DEFINE B == {k \in 1..Len(pg) : j \in Subtree(pg, k) /\ pg[k].tag \in BlockTags}
<1>4. CASE B = {}
  <2>1. pg[j].tag \notin BlockTags
        BY <1>4 DEF Subtree
  <2>2. Heard(pg, DOMAIN pg, j)
        BY <1>1, <1>4 DEF Heard, Subtree, Childless
  <2>3. Speaks(pg, j)
    <3>1. Lists \cup {"table"} \subseteq BlockTags
          BY DEF Lists, BlockTags
    <3>2. pg[j].tag \notin Lists /\ pg[j].tag # "table"
          BY <2>1, <3>1
    <3> QED BY <2>1, <3>2 DEF Speaks
  <2>4. j \in BlockRegion(pg, j)
        BY <2>1 DEF BlockRegion
  <2> QED BY <1>3, <2>2, <2>3, <2>4
<1>5. CASE B # {}
  <2>1. B \in SUBSET Nat
        BY <1>1
  <2>2. PICK k \in B : \A y \in B : k <= y
    <3> HIDE DEF B
    <3> QED BY <1>5, <2>1, FirstExists
  <2>3. k \in 1..Len(pg) /\ j \in Subtree(pg, k) /\ pg[k].tag \in BlockTags /\ k \in 0..Len(pg)
        BY <1>1
  <2>4. ASSUME NEW i \in 1..Len(pg), k \in Within(pg, i) PROVE pg[i].tag \notin BlockTags \cup {"dropped"}
    <3>1. pg[i].tag # "dropped"
          BY <2>4 DEF Childless
    <3>2. i < k /\ i \in 0..Len(pg)
          BY <1>1, <1>2, <2>4
    <3>3. j \in Subtree(pg, i)
      <4>1. CASE j = k
            BY <2>4, <4>1 DEF Subtree
      <4>2. CASE j \in Within(pg, k)
        <5>1. j \in Within(pg, i)
              BY <2>4, <3>2, <4>2, WithinWithin
        <5> QED BY <5>1 DEF Subtree
      <4> QED BY <2>3, <4>1, <4>2 DEF Subtree
    <3>4. i \notin B
          BY <1>1, <2>2, <3>2
    <3> QED BY <3>1, <3>3, <3>4
  <2>5. pg[k].tag # "dropped"
    <3>1. "dropped" \notin BlockTags
          BY DEF BlockTags, HeadingTags, Level
    <3> QED BY <2>3, <3>1
  <2>6. Heard(pg, DOMAIN pg, k)
        BY <1>1, <2>4, <2>5 DEF Heard
  <2>7. Word(j, j) \in SpokenIn(pg, Subtree(pg, k))
        BY <2>3, SpokenFacts
  <2>8. Speaks(pg, k)
        BY <2>3, <2>7 DEF BlocksTell
  <2>9. j \in BlockRegion(pg, k)
        BY <2>3 DEF BlockRegion
  <2> QED BY <1>3, <2>3, <2>6, <2>8, <2>9
<1> QED BY <1>4, <1>5

(* The blocks of a page say all its words.                                   *)
LEMMA PageRecites ==
    ASSUME NEW pg, Nested(pg), Childless(pg), BlocksTell(pg),
           NEW blocks, Walked(pg, DOMAIN pg, FALSE, blocks)
    PROVE  Recites(FlattenSeq([n \in DOMAIN blocks |-> BlockWords(blocks[n])]),
                   SpokenIn(pg, DOMAIN pg))
<1> DEFINE k == Len(blocks)
           seqs == [n \in DOMAIN blocks |-> BlockWords(blocks[n])]
           W == [n \in DOMAIN blocks |-> SpokenIn(pg, BlockRegion(pg, blocks[n].node))]
<1>1. DOMAIN pg = 1..Len(pg) /\ Len(pg) \in Nat
      BY DEF Nested
<1>2. /\ blocks \in Seq(Blocks) /\ k \in Nat /\ DOMAIN blocks = 1..k
      /\ \A n \in DOMAIN blocks : Sound(pg, DOMAIN pg, FALSE, blocks[n])
      /\ \A m, n \in DOMAIN blocks : m < n => blocks[m].node # blocks[n].node
  <2> HIDE DEF seqs, W
  <2>1. /\ blocks \in Seq(Blocks)
        /\ \A n \in DOMAIN blocks : Sound(pg, DOMAIN pg, FALSE, blocks[n])
        /\ \A m, n \in DOMAIN blocks : m < n => blocks[m].node # blocks[n].node
        BY DEF Walked
  <2>2. k \in Nat /\ DOMAIN blocks = 1..k
        BY <2>1
  <2> QED BY <2>1, <2>2
<1>3. ASSUME NEW n \in DOMAIN blocks
      PROVE  /\ blocks[n].node \in 1..Len(pg) /\ Made(pg, blocks[n])
             /\ pg[blocks[n].node].tag # "dropped"
      BY <1>1, <1>2 DEF Sound
<1>4. DOMAIN seqs = 1..k /\ seqs = [m \in 1..k |-> seqs[m]]
      BY <1>2
<1>5. /\ \A n \in 1..k : seqs[n] = BlockWords(blocks[n])
      /\ \A n \in 1..k : W[n] = SpokenIn(pg, BlockRegion(pg, blocks[n].node))
      BY <1>2
<1> HIDE DEF seqs, W, k
<1>6. ASSUME NEW n \in 1..k PROVE Recites(seqs[n], W[n])
  <2>1. n \in DOMAIN blocks
        BY <1>2
  <2>2. CASE pg[blocks[n].node].tag \in BlockTags
    <3>1. Recites(BlockWords(blocks[n]), SpokenIn(pg, Subtree(pg, blocks[n].node)))
          BY <1>3, <2>1, <2>2 DEF BlocksTell
    <3>2. BlockRegion(pg, blocks[n].node) = Subtree(pg, blocks[n].node)
          BY <2>2 DEF BlockRegion
    <3> QED BY <1>5, <3>1, <3>2
  <2>3. CASE pg[blocks[n].node].tag \notin BlockTags
    <3>1. Recites(BlockWords(blocks[n]), SpokenIn(pg, {blocks[n].node}))
          BY <1>3, <2>1, <2>3, BareBlockWords
    <3>2. BlockRegion(pg, blocks[n].node) = {blocks[n].node}
          BY <2>3 DEF BlockRegion
    <3> QED BY <1>5, <3>1, <3>2
  <2> QED BY <2>2, <2>3
<1>7. ASSUME NEW l \in 1..k, NEW m \in 1..k, l < m PROVE W[l] \cap W[m] = {}
  <2> DEFINE p == blocks[l].node
             q == blocks[m].node
  <2>1. /\ l \in DOMAIN blocks /\ m \in DOMAIN blocks /\ l # m /\ p # q
        /\ p \in 1..Len(pg) /\ q \in 1..Len(pg)
        BY <1>2, <1>3, <1>7
  <2>2. pg[p].tag \in BlockTags => q \notin Subtree(pg, p)
        BY <2>1, BlocksApart
  <2>3. pg[q].tag \in BlockTags => p \notin Subtree(pg, q)
        BY <2>1, BlocksApart
  <2>4. pg[p].tag \in BlockTags /\ pg[q].tag \in BlockTags => Subtree(pg, p) \cap Subtree(pg, q) = {}
        BY <2>1, BlocksApart
  <2>5. W[l] = SpokenIn(pg, BlockRegion(pg, p)) /\ W[m] = SpokenIn(pg, BlockRegion(pg, q))
        BY <1>5
  <2> HIDE DEF p, q
  <2>6. BlockRegion(pg, p) \cap BlockRegion(pg, q) = {}
        BY <2>1, <2>2, <2>3, <2>4 DEF BlockRegion
  <2>7. SpokenIn(pg, BlockRegion(pg, p)) \cap SpokenIn(pg, BlockRegion(pg, q)) = {}
        BY <2>6, SpokenTogether
  <2> QED BY <2>5, <2>7
<1>8. k \in Nat
      BY <1>2
<1>9. Recites(FlattenSeq(seqs), Total(W, k))
      BY <1>4, <1>6, <1>7, <1>8, FlattenRecites
<1>10. ASSUME NEW w, w \in Total(W, k) PROVE w \in SpokenIn(pg, DOMAIN pg)
  <2>1. PICK n \in 1..k : w \in W[n]
        BY <1>10 DEF Total
  <2>2. BlockRegion(pg, blocks[n].node) \subseteq DOMAIN pg
    <3>1. blocks[n].node \in 1..Len(pg) /\ blocks[n].node \in 0..Len(pg)
          BY <1>2, <1>3
    <3>2. Within(pg, blocks[n].node) \subseteq 1..Len(pg)
          BY <3>1, WithinFacts
    <3> QED BY <1>1, <3>1, <3>2 DEF BlockRegion, Subtree
  <2>3. SpokenIn(pg, BlockRegion(pg, blocks[n].node)) \subseteq SpokenIn(pg, DOMAIN pg)
        BY <2>2, SpokenTogether
  <2> QED BY <1>5, <2>1, <2>3
<1>11. ASSUME NEW w, w \in SpokenIn(pg, DOMAIN pg) PROVE w \in Total(W, k)
  <2>1. PICK j \in DOMAIN pg : /\ pg[j].text /\ pg[j].tag # "dropped"
                               /\ \E x \in {j} \cup ChildSet(pg, j) : w = Word(j, x)
        BY <1>11, SpokenFacts
  <2>2. PICK n \in DOMAIN blocks : j \in BlockRegion(pg, blocks[n].node)
        BY <1>1, <2>1, SomeBlockSays
  <2>3. w \in SpokenIn(pg, BlockRegion(pg, blocks[n].node))
        BY <2>1, <2>2, SpokenFacts
  <2> QED BY <1>2, <1>5, <2>3 DEF Total
<1> DEFINE A == Total(W, k)
           B == SpokenIn(pg, DOMAIN pg)
<1>12. A = B
  <2> HIDE DEF A, B
  <2>1. \A w : w \in A <=> w \in B
        BY <1>10, <1>11 DEF A, B
  <2> QED BY <2>1
<1> QED BY <1>9, <1>12 DEF seqs

(* The words spoken in a page are those of what is left of it.               *)
LEMMA SpokenAfterDrop ==
    ASSUME NEW pg, Nested(pg), \A i \in 1..Len(pg) : pg[i].tag # "dropped"
    PROVE  SpokenIn(AfterDrop(pg), DOMAIN AfterDrop(pg)) = Spoken(pg)
<1> DEFINE after == AfterDrop(pg)
           left == {j \in DOMAIN pg : pg[j].text /\ pg[j].tag \notin DroppedTags}
<1>1. pg \in Seq(Elements) /\ DOMAIN pg = 1..Len(pg) /\ \A i \in 1..Len(pg) : i \in 0..Len(pg)
      BY DEF Nested
<1>2. /\ DOMAIN after = DOMAIN pg
      /\ \A i \in 1..Len(pg) : ChildSet(after, i) = ChildSet(pg, i)
      BY <1>1, DroppedNested
<1>3. \A i \in 1..Len(pg) :
         /\ after[i].text = pg[i].text
         /\ after[i].tag = IF pg[i].tag \in DroppedTags THEN "dropped" ELSE pg[i].tag
      BY <1>1, AfterDropFacts
<1>4. ASSUME NEW i \in 1..Len(pg) PROVE ToSet(Children(pg, i)) = ChildSet(pg, i)
  <2>1. /\ Children(pg, i) \in [1..Cardinality(ChildSet(pg, i)) -> ChildSet(pg, i)]
        /\ \A k \in ChildSet(pg, i) : \E n \in DOMAIN Children(pg, i) : Children(pg, i)[n] = k
        BY <1>1, ChildrenFacts
  <2> DEFINE ks == Children(pg, i)
             C == ChildSet(pg, i)
  <2> HIDE DEF ks, C
  <2>2. ks \in [1..Cardinality(C) -> C] /\ \A k \in C : \E n \in DOMAIN ks : ks[n] = k
        BY <2>1 DEF ks, C
  <2>3. \A k : k \in ToSet(ks) <=> k \in C
        BY <2>2 DEF ToSet
  <2>4. ToSet(ks) = C
        BY <2>3
  <2> QED BY <2>4 DEF ks, C
<1>5. ASSUME NEW w
      PROVE  w \in Spoken(pg) <=> \E i \in left : \E k \in {i} \cup ChildSet(pg, i) : w = Word(i, k)
  <2>1. w \in Spoken(pg) <=> \E i \in left : \E k \in {i} \cup ToSet(Children(pg, i)) : w = Word(i, k)
        BY DEF Spoken
  <2>2. \A i \in left : i \in 1..Len(pg)
        BY <1>1
  <2> HIDE DEF left
  <2> QED BY <1>4, <2>1, <2>2
<1>6. ASSUME NEW i \in 1..Len(pg) PROVE i \in left <=> after[i].text /\ after[i].tag # "dropped"
      BY <1>1, <1>3
<1> DEFINE A == SpokenIn(after, DOMAIN after)
           B == Spoken(pg)
<1>7. ASSUME NEW w PROVE w \in A <=> w \in B
  <2>1. w \in A <=> \E j \in DOMAIN after : /\ after[j].text /\ after[j].tag # "dropped"
                                            /\ \E k \in {j} \cup ChildSet(after, j) : w = Word(j, k)
        BY SpokenFacts
  <2>2. \A i \in left : i \in 1..Len(pg)
        BY <1>1
  <2> HIDE DEF left, after, A, B
  <2>3. w \in A <=> \E j \in 1..Len(pg) : /\ j \in left
                                          /\ \E k \in {j} \cup ChildSet(pg, j) : w = Word(j, k)
        BY <1>1, <1>2, <1>6, <2>1
  <2> QED BY <1>5, <2>2, <2>3 DEF B
<1>8. A = B
  <2> HIDE DEF A, B
  <2> QED BY <1>7
<1> QED BY <1>8

(* The words of a document are those of its blocks, one after the other.     *)
LEMMA DocumentWords ==
    ASSUME NEW pg
    PROVE  WordsOf(ParseHtml(pg)) =
              FlattenSeq([n \in DOMAIN BlocksOf(pg) |-> BlockWords(BlocksOf(pg)[n])])
BY DEF WordsOf, ParseHtml, DocumentOf, BlockWords

(* A page whose blocks say their elements keeps every word, once.            *)
LEMMA PageSaysOnce ==
    ASSUME NEW pg, Nested(pg), \A i \in 1..Len(pg) : pg[i].tag # "dropped",
           Childless(AfterDrop(pg)), BlocksTell(AfterDrop(pg))
    PROVE  SaysOnce(WordsOf(ParseHtml(pg)), pg)
<1> DEFINE after == AfterDrop(pg)
           blocks == BlocksOf(pg)
           words == WordsOf(ParseHtml(pg))
<1>1. Nested(after)
      BY DroppedNested
<1>2. Walked(after, DOMAIN after, FALSE, blocks)
  <2> HIDE DEF after
  <2>1. Walked(after, DOMAIN after, FALSE, Walk(after, 0, "none", FALSE))
        BY <1>1, PageWalked
  <2> QED BY <2>1 DEF BlocksOf, after
<1>3. SpokenIn(after, DOMAIN after) = Spoken(pg)
      BY SpokenAfterDrop
<1>4. words = FlattenSeq([n \in DOMAIN blocks |-> BlockWords(blocks[n])])
      BY DocumentWords
<1>5. Childless(after) /\ BlocksTell(after)
      OBVIOUS
<1> HIDE DEF after, blocks, words
<1>6. Recites(words, Spoken(pg))
      BY <1>1, <1>2, <1>3, <1>4, <1>5, PageRecites
<1> QED BY <1>6, RecitesOnce DEF SaysOnce, words

(* Tables.                                                                   *)
LEMMA TableBlocksTell ==
    ASSUME NEW pg, PlainTables(pg), Childless(pg)
    PROVE  BlocksTell(pg)
<1> SUFFICES ASSUME NEW k \in 1..Len(pg), pg[k].tag \in BlockTags
             PROVE  /\ \A b : b.node = k /\ Made(pg, b) =>
                          Recites(BlockWords(b), SpokenIn(pg, Subtree(pg, k)))
                    /\ SpokenIn(pg, Subtree(pg, k)) # {} => Speaks(pg, k)
    BY DEF BlocksTell
<1>1. pg[k].tag = "table"
  <2>1. pg[k].tag \in TableTags
        BY DEF PlainTables, Legal
  <2> QED BY <2>1 DEF TableTags, BlockTags, HeadingTags, Level
<1>2. ASSUME NEW b, b.node = k, Made(pg, b) PROVE Recites(BlockWords(b), SpokenIn(pg, Subtree(pg, k)))
  <2>1. b.items = <<>> /\ b.table = TableOf(pg, k) /\ b.text = TableOf(pg, k).caption
        BY <1>1, <1>2 DEF Made
  <2> QED BY <1>1, <2>1, TableRecites
<1>3. ASSUME SpokenIn(pg, Subtree(pg, k)) # {} PROVE Speaks(pg, k)
  <2>1. FullRows(pg, k) # {}
        BY <1>1, <1>3, TableSaid
  <2>2. TableOf(pg, k).rows # <<>> \/ TableOf(pg, k).headers # <<>>
        BY <1>1, <2>1, RowsTell
  <2> QED BY <1>1, <2>2 DEF Speaks, Lists
<1> QED BY <1>2, <1>3

(* Paragraphs, lists and scripts.                                            *)
TextTags == {"div", "p", "ul", "li", "script", "noscript"}

(* All that is known of a page of text and of what is left of it.            *)
LEMMA TextPageFacts ==
    ASSUME PageNodes \in Nat, NEW pg \in TextPages
    PROVE  /\ Legal(pg, TextTags) /\ \A i \in 1..Len(pg) : pg[i].tag \in TextTags
           /\ Nested(pg) /\ Nested(AfterDrop(pg)) /\ Len(AfterDrop(pg)) = Len(pg)
           /\ Childless(AfterDrop(pg))
           /\ \A i \in 1..Len(pg) : AfterDrop(pg)[i].tag =
                                       IF pg[i].tag = "script" THEN "dropped" ELSE pg[i].tag
<1> DEFINE after == AfterDrop(pg)
<1>1. TextTags \in SUBSET Tags
      BY DEF Tags, BlockTags, ItemTags, DroppedTags, TextTags
<1>2. Legal(pg, TextTags)
      BY <1>1, LegalPages DEF TextPages, TextTags
<1>3. Nested(pg) /\ pg \in Seq(Elements) /\ \A i \in 1..Len(pg) : pg[i].tag \in TextTags /\ i \in 0..Len(pg)
      BY <1>2 DEF Legal, Nested
<1>4. /\ Nested(after) /\ Len(after) = Len(pg)
      /\ \A i \in 0..Len(pg) : Within(after, i) = Within(pg, i)
      BY <1>3, DroppedNested
<1>5. \A i \in 1..Len(pg) : after[i].tag = IF pg[i].tag = "script" THEN "dropped" ELSE pg[i].tag
      BY <1>3, AfterDropFacts DEF DroppedTags
<1>6. ASSUME NEW i \in 1..Len(pg), after[i].tag = "dropped" PROVE Within(after, i) = {}
  <2>1. pg[i].tag = "script"
        BY <1>3, <1>5, <1>6 DEF TextTags
  <2>2. MayHold("script", TextTags) = {}
        BY DEF MayHold, HeadingTags, Level
  <2>3. \A k \in ChildSet(pg, i) : FALSE
    <3>1. i \in 0..Len(pg) /\ i # 0
          OBVIOUS
    <3>2. \A k \in ChildSet(pg, i) : pg[k].tag \in MayHold(pg[i].tag, TextTags)
          BY <1>2, <3>1 DEF Legal, Tag
    <3> QED BY <2>1, <2>2, <3>2
  <2>4. Within(pg, i) = {}
        BY <1>3, <2>3, ChildOver
  <2> QED BY <1>3, <1>4, <2>4
<1>7. Childless(after)
      BY <1>4, <1>6 DEF Childless
<1> QED BY <1>2, <1>3, <1>4, <1>5, <1>7

(* Every paragraph and list of it says all that is in it.                    *)
LEMMA TextBlocksTell ==
    ASSUME PageNodes \in Nat, NEW pg \in TextPages
    PROVE  BlocksTell(AfterDrop(pg))
<1> DEFINE after == AfterDrop(pg)
<1>1. /\ Legal(pg, TextTags) /\ \A i \in 1..Len(pg) : pg[i].tag \in TextTags
      /\ Nested(pg) /\ Nested(after) /\ Len(after) = Len(pg) /\ Childless(after)
      /\ \A i \in 1..Len(pg) : after[i].tag = IF pg[i].tag = "script" THEN "dropped" ELSE pg[i].tag
      BY TextPageFacts
<1>2. pg \in Seq(Elements) /\ Len(pg) \in Nat
      BY <1>1 DEF Nested
<1>3. /\ \A i \in 1..Len(pg) : after[i].text = pg[i].text
      /\ \A i \in 1..Len(pg) : ChildSet(after, i) = ChildSet(pg, i) /\ i \in 0..Len(pg) /\ i # 0
  <2>1. \A i \in 1..Len(pg) : after[i].text = pg[i].text
        BY <1>2, AfterDropFacts
  <2>2. \A i \in 0..Len(pg) : ChildSet(after, i) = ChildSet(pg, i)
        BY <1>1, DroppedNested
  <2> QED BY <2>1, <2>2
<1> HIDE DEF after
<1> SUFFICES ASSUME NEW k \in 1..Len(pg), after[k].tag \in BlockTags
             PROVE  /\ \A b : b.node = k /\ Made(after, b) =>
                          Recites(BlockWords(b), SpokenIn(after, Subtree(after, k)))
                    /\ SpokenIn(after, Subtree(after, k)) # {} => Speaks(after, k)
    BY <1>1 DEF BlocksTell, after
<1>4. after[k].tag = pg[k].tag /\ pg[k].tag \in {"p", "ul", "noscript"}
  <2>1. "dropped" \notin BlockTags /\ BlockTags \cap TextTags \subseteq {"p", "ul", "noscript"}
        BY DEF BlockTags, HeadingTags, Level, TextTags
  <2> QED BY <1>1, <2>1
<1>5. Tells(TextOf(after, k), SpokenIn(after, Subtree(after, k)))
      BY <1>1, TextSays
<1>6. CASE pg[k].tag \in {"p", "noscript"}
  <2>1. after[k].tag \in BlockTags \ (Lists \cup {"table"})
        BY <1>4, <1>6 DEF BlockTags, Lists
  <2>2. ASSUME NEW b, b.node = k, Made(after, b)
        PROVE  Recites(BlockWords(b), SpokenIn(after, Subtree(after, k)))
    <3>1. b.items = <<>> /\ b.table = NoTable /\ b.text = TextOf(after, k)
          BY <2>1, <2>2 DEF Made
    <3> QED BY <1>5, <3>1, PlainBlockWords
  <2>3. ASSUME SpokenIn(after, Subtree(after, k)) # {} PROVE Speaks(after, k)
    <3>1. ~Blank(TextOf(after, k))
          BY <1>5, <2>3, WordsSay
    <3> QED BY <2>1, <3>1 DEF Speaks
  <2> QED BY <2>2, <2>3
<1>7. CASE pg[k].tag = "ul"
  <2> DEFINE items == ItemsOf(after, ListItems(after, k))
  <2>1. after[k].tag \in Lists /\ after[k].tag = "ul"
        BY <1>4, <1>7 DEF Lists
  <2>2. \A x \in ChildSet(after, k) : after[x].tag = "li"
    <3>1. \A x \in ChildSet(pg, k) : pg[x].tag \in MayHold(pg[k].tag, TextTags) /\ x \in 1..Len(pg)
      <4>1. ChildSet(pg, k) \subseteq k + 1..Len(pg)
            BY <1>1, <1>3, WithinFacts
      <4> QED BY <1>1, <1>2, <1>3, <4>1 DEF Legal, Tag
    <3>2. MayHold("ul", TextTags) \subseteq {"li"}
          BY DEF MayHold, HeadingTags, Level
    <3> QED BY <1>1, <1>3, <1>7, <3>1, <3>2
  <2>3. ~after[k].text
    <3>1. pg[k].text \in TextOptions("ul")
          BY <1>1, <1>7 DEF Legal
    <3>2. TextOptions("ul") = {FALSE}
          BY DEF TextOptions
    <3>3. after[k].text = FALSE
          BY <1>3, <3>1, <3>2
    <3> QED BY <3>3, Zenon
  <2>4. ASSUME NEW some, some = items
        PROVE  Recites(FlattenSeq([n \in DOMAIN some |-> Words(some[n])]),
                       SpokenIn(after, Subtree(after, k)))
    <3>1. k \in 1..Len(after)
          BY <1>1
    <3> QED BY <1>1, <2>1, <2>2, <2>3, <2>4, <3>1, ListRecites
  <2> HIDE DEF items
  <2>5. ASSUME NEW b, b.node = k, Made(after, b)
        PROVE  Recites(BlockWords(b), SpokenIn(after, Subtree(after, k)))
    <3> DEFINE cs == CellsOf(b.table)
               cw == FlattenSeq([n \in DOMAIN cs |-> Words(cs[n].text)])
               iw == FlattenSeq([n \in DOMAIN b.items |-> Words(b.items[n])])
    <3>1. b.text = <<>> /\ b.table = NoTable /\ b.items = items
          BY <2>1, <2>5 DEF Made, items
    <3>2. cw = <<>> /\ Words(b.text) = <<>>
          BY <3>1, NoTableNoWords, NoTextNoItems
    <3>3. Recites(iw, SpokenIn(after, Subtree(after, k)))
          BY <2>4, <3>1
    <3>4. BlockWords(b) = Words(b.text) \o iw \o cw
          BY DEF BlockWords
    <3> HIDE DEF iw, cw
    <3>5. Words(b.text) \o iw \o cw = iw
      <4>1. iw \in Seq(Pairs)
            BY <3>3 DEF Recites, Tells
      <4> QED BY <3>2, <4>1
    <3> QED BY <3>3, <3>4, <3>5
  <2>6. ASSUME SpokenIn(after, Subtree(after, k)) # {} PROVE Speaks(after, k)
    <3>1. ASSUME items = <<>> PROVE FALSE
      <4>1. FlattenSeq([n \in DOMAIN items |-> Words(items[n])]) = <<>>
            BY <3>1, NoTextNoItems
      <4>2. Recites(FlattenSeq([n \in DOMAIN items |-> Words(items[n])]),
                    SpokenIn(after, Subtree(after, k)))
            BY <2>4
      <4>3. Recites(<<>>, SpokenIn(after, Subtree(after, k)))
            BY <4>1, <4>2
      <4> QED BY <2>6, <4>3 DEF Recites, Tells, Said
    <3>2. BlockTags \cap {"ul"} \subseteq BlockTags /\ "ul" \in BlockTags /\ "ul" # "table"
          BY DEF BlockTags
    <3> QED BY <2>1, <3>1, <3>2 DEF Speaks, items
  <2> QED BY <2>5, <2>6
<1> QED BY <1>4, <1>6, <1>7

(* Every page of text, and every page of tables, keeps its words.            *)
LEMMA AllSaidOnce ==
    ASSUME PageNodes \in Nat
    PROVE  EveryWordOnce
<1>1. ASSUME NEW pg \in TablePages PROVE SaysOnce(WordsOf(ParseHtml(pg)), pg)
  <2>1. PlainTables(pg) /\ Childless(pg) /\ AfterDrop(pg) = pg
        BY TablePageFacts
  <2>2. Nested(pg) /\ \A i \in 1..Len(pg) : pg[i].tag # "dropped"
        BY <2>1 DEF PlainTables, Legal, TableTags
  <2>3. BlocksTell(pg)
        BY <2>1, TableBlocksTell
  <2> QED BY <2>1, <2>2, <2>3, PageSaysOnce
<1>2. ASSUME NEW pg \in TextPages PROVE SaysOnce(WordsOf(ParseHtml(pg)), pg)
  <2>1. /\ Nested(pg) /\ Childless(AfterDrop(pg)) /\ \A i \in 1..Len(pg) : pg[i].tag \in TextTags
        BY TextPageFacts
  <2>2. \A i \in 1..Len(pg) : pg[i].tag # "dropped"
        BY <2>1 DEF TextTags
  <2>3. BlocksTell(AfterDrop(pg))
        BY TextBlocksTell
  <2> QED BY <2>1, <2>2, <2>3, PageSaysOnce
<1> QED BY <1>1, <1>2 DEF EveryWordOnce

(* What follows a removed element in a text follows a space.                 *)
Apart(pg, t) ==
    /\ t \in Seq(Pairs)
    /\ \A n \in DOMAIN t : t[n][2] \in Doomed(pg) => n > 1 /\ t[n - 1] = Space

(* Then it is no neighbour of a word.                                        *)
LEMMA ApartStays ==
    ASSUME NEW pg, NEW t, Apart(pg, t)
    PROVE  StayApart(pg, t)
<1> SUFFICES ASSUME NEW n \in 1..Len(t) - 1, t[n] # Space, t[n + 1] # Space,
                    t[n + 1][2] \in Doomed(pg)
             PROVE  FALSE
    BY DEF StayApart
<1>1. t \in Seq(Pairs) /\ n + 1 \in DOMAIN t /\ (n + 1) - 1 = n
      BY DEF Apart
<1>2. t[(n + 1) - 1] = Space
      BY <1>1 DEF Apart
<1> QED BY <1>1, <1>2

(* It is so of the empty text, ...                                           *)
LEMMA NothingApart ==
    ASSUME NEW pg, NEW t, t = <<>>
    PROVE  Apart(pg, t)
BY DEF Apart

(* ... of two texts of which it is so, ...                                   *)
LEMMA JoinApart ==
    ASSUME NEW pg, NEW s, NEW t, Apart(pg, s), Apart(pg, t)
    PROVE  Apart(pg, s \o t)
<1> DEFINE u == s \o t
           k == Len(s)
<1>1. s \in Seq(Pairs) /\ t \in Seq(Pairs)
      BY DEF Apart
<1>2. k \in Nat /\ DOMAIN s = 1..k /\ \A n \in DOMAIN t : n \in Nat
      BY <1>1
<1>3. /\ u \in Seq(Pairs)
      /\ \A n \in DOMAIN s : n \in DOMAIN u /\ u[n] = s[n]
      /\ \A n \in DOMAIN t : k + n \in DOMAIN u /\ u[k + n] = t[n]
      /\ \A n \in DOMAIN u : n \in DOMAIN s \/ (n > k /\ n - k \in DOMAIN t)
      /\ \A n \in DOMAIN u : u[n] = IF n \in DOMAIN s THEN s[n] ELSE t[n - k]
      BY <1>1, ConcatFacts
<1>4. \A n \in DOMAIN u : n \in Nat
      BY <1>3
<1> HIDE DEF u, k
<1>5. ASSUME NEW n \in DOMAIN u, u[n][2] \in Doomed(pg) PROVE n > 1 /\ u[n - 1] = Space
  <2>1. CASE n \in DOMAIN s
    <3>1. u[n] = s[n]
          BY <1>3, <2>1
    <3>2. n > 1 /\ s[n - 1] = Space
          BY <1>5, <2>1, <3>1 DEF Apart
    <3>3. n - 1 \in DOMAIN s
          BY <1>2, <2>1, <3>2
    <3> QED BY <1>3, <3>2, <3>3
  <2>2. CASE n \notin DOMAIN s
    <3>1. n > k /\ n - k \in DOMAIN t /\ u[n] = t[n - k] /\ n \in Nat
          BY <1>3, <1>4, <2>2
    <3>2. n - k > 1 /\ t[(n - k) - 1] = Space
          BY <1>5, <3>1 DEF Apart
    <3>3. (n - k) - 1 \in DOMAIN t
      <4>1. DOMAIN t = 1..Len(t) /\ Len(t) \in Nat
            BY <1>1
      <4> QED BY <1>2, <3>1, <3>2, <4>1
    <3>4. u[k + ((n - k) - 1)] = t[(n - k) - 1]
          BY <1>3, <3>3
    <3>5. k + ((n - k) - 1) = n - 1 /\ n > 1
          BY <1>2, <3>1, <3>2
    <3> QED BY <3>2, <3>4, <3>5
  <2> QED BY <2>1, <2>2
<1> QED BY <1>3, <1>5 DEF Apart, u

(* ... and of many.                                                          *)
LEMMA FlattenApart ==
    ASSUME NEW pg, NEW n \in Nat, NEW seqs, DOMAIN seqs = 1..n, seqs = [m \in 1..n |-> seqs[m]],
           \A m \in 1..n : Apart(pg, seqs[m])
    PROVE  Apart(pg, FlattenSeq(seqs))
<1> DEFINE Good == {t \in Seq(Pairs) : Apart(pg, t)}
<1>1. seqs \in [1..n -> Good]
      BY DEF Apart
<1>2. <<>> \in Good
  <2>1. Apart(pg, <<>>)
        BY NothingApart
  <2> QED BY <2>1
<1>3. ASSUME NEW s \in Good, NEW t \in Good PROVE s \o t \in Good
  <2>1. Apart(pg, s \o t)
        BY JoinApart
  <2> QED BY <2>1 DEF Apart
<1>4. Good \in SUBSET Seq(Pairs)
      OBVIOUS
<1>5. FlattenSeq(seqs) \in Good
  <2> HIDE DEF Good
  <2> QED BY <1>1, <1>2, <1>3, <1>4, FlattenClosed
<1> QED BY <1>5

(* One word after what is left, and one after what is removed.               *)
LEMMA WordsApart ==
    ASSUME NEW pg, Nested(pg), NEW i \in 1..Len(pg), NEW k \in 1..Len(pg)
    PROVE  /\ Apart(pg, <<Space>>) /\ Apart(pg, <<Space, Word(i, k)>>)
           /\ k \notin Doomed(pg) => Apart(pg, <<Word(i, k)>>)
<1>1. DOMAIN pg = 1..Len(pg) /\ Len(pg) \in Nat /\ 0 \notin Doomed(pg)
      BY DEF Nested, Doomed
<1>2. Space \in Pairs /\ Word(i, k) \in Pairs /\ Space[2] = 0 /\ Word(i, k)[2] = k
      BY <1>1 DEF Pairs, Space, Word
<1> DEFINE w == Word(i, k)
           z == Space
<1>3. z \in Pairs /\ w \in Pairs /\ z[2] \notin Doomed(pg) /\ w[2] = k
      BY <1>1, <1>2
<1> HIDE DEF w, z
<1>4. /\ <<z>> \in Seq(Pairs) /\ <<z, w>> \in Seq(Pairs) /\ <<w>> \in Seq(Pairs)
      /\ DOMAIN <<z>> = {1} /\ DOMAIN <<z, w>> = {1, 2} /\ DOMAIN <<w>> = {1}
      /\ <<z>>[1] = z /\ <<z, w>>[1] = z /\ <<z, w>>[2] = w /\ <<w>>[1] = w
      BY <1>3
<1>5. ASSUME NEW n \in DOMAIN <<z, w>>, <<z, w>>[n][2] \in Doomed(pg)
      PROVE  n > 1 /\ <<z, w>>[n - 1] = z
  <2>1. n = 2
        BY <1>3, <1>4, <1>5
  <2> QED BY <1>4, <2>1
<1> QED BY <1>3, <1>4, <1>5 DEF Apart, z, w

(* The text of an element of what is left of a page.                         *)
LEMMA TextsApart ==
    ASSUME NEW pg, Nested(pg), \A i \in 1..Len(pg) : pg[i].tag # "dropped"
    PROVE  \A i \in 1..Len(pg) : Apart(pg, TextOf(AfterDrop(pg), i))
<1> DEFINE after == AfterDrop(pg)
           G == {i \in 0..Len(pg) : i # 0 => Apart(pg, TextOf(after, i))}
<1>1. pg \in Seq(Elements) /\ DOMAIN pg = 1..Len(pg) /\ Len(pg) \in Nat
      BY DEF Nested
<1>2. /\ after \in Seq(Elements) /\ Len(after) = Len(pg)
      /\ \A i \in 1..Len(pg) : after[i].tag = IF pg[i].tag \in DroppedTags THEN "dropped" ELSE pg[i].tag
      BY <1>1, AfterDropFacts
<1>3. \A i \in 1..Len(pg) : after[i].tag = "dropped" <=> i \in Doomed(pg)
      BY <1>1, <1>2 DEF Doomed
<1> HIDE DEF after
<1>4. ASSUME NEW i \in 1..Len(pg), NEW k \in 1..Len(pg), k \notin Doomed(pg)
      PROVE  Apart(pg, OwnWord(after, i, k))
      BY <1>4, WordsApart, NothingApart DEF OwnWord
<1>5. ASSUME NEW i \in 1..Len(pg), \A j \in i + 1..Len(pg) : Apart(pg, TextOf(after, j))
      PROVE  Apart(pg, TextOf(after, i))
  <2> DEFINE ks == Children(after, i)
             size == Cardinality(ChildSet(after, i))
             seqs == [n \in DOMAIN ks |-> TextOf(after, ks[n]) \o OwnWord(after, i, ks[n])]
  <2>1. i \in 0..Len(after) /\ i \in 1..Len(after)
        BY <1>2
  <2>2. size \in Nat /\ DOMAIN ks = 1..size /\ \A n \in DOMAIN ks : ks[n] \in i + 1..Len(pg)
    <3>1. /\ size \in Nat /\ ks \in [1..size -> ChildSet(after, i)]
          /\ \A n \in DOMAIN ks : ks[n] \in i + 1..Len(after)
          BY <1>2, <2>1, ChildrenFacts
    <3> QED BY <1>2, <3>1
  <2>3. TextOf(after, i) = IF after[i].tag = "dropped" THEN <<Space>>
                           ELSE OwnWord(after, i, i) \o FlattenSeq(seqs)
        BY <1>2, <2>1, TextSteps
  <2>4. CASE after[i].tag = "dropped"
        BY <2>3, <2>4, WordsApart
  <2>5. CASE after[i].tag # "dropped"
    <3>1. ASSUME NEW n \in DOMAIN ks PROVE Apart(pg, TextOf(after, ks[n]) \o OwnWord(after, i, ks[n]))
      <4> DEFINE k == ks[n]
      <4>1. k \in i + 1..Len(pg) /\ k \in 1..Len(pg)
            BY <2>2
      <4>2. Apart(pg, TextOf(after, k))
            BY <1>5, <4>1
      <4> HIDE DEF k
      <4>3. CASE k \notin Doomed(pg)
        <5>1. Apart(pg, OwnWord(after, i, k))
              BY <1>4, <4>1, <4>3
        <5>2. Apart(pg, TextOf(after, k) \o OwnWord(after, i, k))
              BY <4>2, <5>1, JoinApart
        <5> QED BY <5>2 DEF k
      <4>4. CASE k \in Doomed(pg)
        <5>1. TextOf(after, k) = <<Space>>
              BY <1>2, <1>3, <4>1, <4>4, TextSteps
        <5>2. OwnWord(after, i, k) = <<>> \/ OwnWord(after, i, k) = <<Word(i, k)>>
              BY DEF OwnWord
        <5>3. <<Space>> \o <<>> = <<Space>> /\ <<Space>> \o <<Word(i, k)>> = <<Space, Word(i, k)>>
          <6>1. \A x : <<x>> \o <<>> = <<x>>
                OBVIOUS
          <6> QED BY <6>1, TwoOfOne
        <5>4. Apart(pg, TextOf(after, k) \o OwnWord(after, i, k))
          <6>1. Apart(pg, <<Space>>) /\ Apart(pg, <<Space, Word(i, k)>>)
                BY <4>1, WordsApart
          <6>2. CASE OwnWord(after, i, k) = <<>>
                BY <5>1, <5>3, <6>1, <6>2
          <6>3. CASE OwnWord(after, i, k) = <<Word(i, k)>>
                BY <5>1, <5>3, <6>1, <6>3
          <6> QED BY <5>2, <6>2, <6>3
        <5> QED BY <5>4 DEF k
      <4> QED BY <4>3, <4>4
    <3>2. /\ DOMAIN seqs = 1..size /\ seqs = [m \in 1..size |-> seqs[m]]
          /\ \A n \in 1..size : Apart(pg, seqs[n])
          BY <2>2, <3>1
    <3> HIDE DEF seqs, size
    <3>3. Apart(pg, FlattenSeq(seqs))
          BY <2>2, <3>2, FlattenApart
    <3>4. Apart(pg, OwnWord(after, i, i))
          BY <1>3, <1>4, <2>5
    <3>5. Apart(pg, OwnWord(after, i, i) \o FlattenSeq(seqs))
          BY <3>3, <3>4, JoinApart
    <3> QED BY <2>3, <2>5, <3>5
  <2> QED BY <2>4, <2>5
<1>6. ASSUME NEW i \in 0..Len(pg), \A j \in i + 1..Len(pg) : j \in G PROVE i \in G
  <2>1. CASE i = 0
        BY <2>1
  <2>2. CASE i # 0
    <3>1. i \in 1..Len(pg)
          BY <1>1, <2>2
    <3>2. \A j \in i + 1..Len(pg) : Apart(pg, TextOf(after, j))
          BY <1>6
    <3> QED BY <1>5, <3>1, <3>2
  <2> QED BY <2>1, <2>2
<1>7. \A i \in 0..Len(pg) : i \in G
  <2> HIDE DEF G
  <2> QED BY <1>1, <1>6, DownInduction
<1>8. ASSUME NEW i \in 1..Len(pg) PROVE Apart(pg, TextOf(after, i))
  <2>1. i \in 0..Len(pg) /\ i # 0
        BY <1>1
  <2> QED BY <1>7, <2>1
<1> QED BY <1>8 DEF after

(* Nor does bare text weld what a script stood between.                      *)
LEMMA BareTextApart ==
    ASSUME NEW pg, Nested(pg), NEW i \in 1..Len(pg), i \notin Doomed(pg)
    PROVE  Apart(pg, BareText(AfterDrop(pg), i))
<1> DEFINE after == AfterDrop(pg)
           ks == Children(after, i)
           size == Cardinality(ChildSet(after, i))
           seqs == [n \in DOMAIN ks |-> <<Space, Word(i, ks[n])>>]
<1>1. pg \in Seq(Elements)
      BY DEF Nested
<1>2. after \in Seq(Elements) /\ Len(after) = Len(pg)
      BY <1>1, AfterDropFacts
<1>3. size \in Nat /\ DOMAIN ks = 1..size /\ \A n \in DOMAIN ks : ks[n] \in 1..Len(pg)
  <2>1. i \in 0..Len(after)
        BY <1>2
  <2>2. /\ size \in Nat /\ ks \in [1..size -> ChildSet(after, i)]
        /\ \A n \in DOMAIN ks : ks[n] \in i + 1..Len(after)
        BY <1>2, <2>1, ChildrenFacts
  <2> QED BY <1>2, <2>2
<1>4. BareText(after, i) = <<Word(i, i)>> \o FlattenSeq(seqs)
      BY DEF BareText
<1>5. ASSUME NEW n \in DOMAIN ks PROVE Apart(pg, <<Space, Word(i, ks[n])>>)
      BY <1>3, WordsApart
<1>6. /\ DOMAIN seqs = 1..size /\ seqs = [m \in 1..size |-> seqs[m]]
      /\ \A n \in 1..size : Apart(pg, seqs[n])
      BY <1>3, <1>5
<1> HIDE DEF seqs, size, ks
<1>7. Apart(pg, FlattenSeq(seqs))
      BY <1>3, <1>6, FlattenApart
<1>8. Apart(pg, <<Word(i, i)>>)
      BY WordsApart
<1> QED BY <1>4, <1>7, <1>8, JoinApart

(* What a block of text, a list or bare text shows.                          *)
LEMMA AllApart ==
    ASSUME PageNodes \in Nat
    PROVE  WordsStayApart
<1> SUFFICES ASSUME NEW pg \in TextPages, NEW b \in ToSet(ParseHtml(pg).blocks),
                    NEW text \in {b.text} \cup ToSet(b.items)
             PROVE  Apart(pg, text)
  <2>1. ASSUME \A pg \in TextPages : \A b \in ToSet(ParseHtml(pg).blocks) :
                  \A text \in {b.text} \cup ToSet(b.items) : Apart(pg, text)
        PROVE  WordsStayApart
        BY <2>1, ApartStays DEF WordsStayApart
  <2> QED BY <2>1
<1> DEFINE after == AfterDrop(pg)
           k == b.node
<1>1. /\ \A i \in 1..Len(pg) : pg[i].tag \in TextTags
      /\ Nested(pg) /\ Nested(after) /\ Len(after) = Len(pg) /\ Childless(after)
      /\ \A i \in 1..Len(pg) : after[i].tag = IF pg[i].tag = "script" THEN "dropped" ELSE pg[i].tag
      BY TextPageFacts
<1>2. DOMAIN pg = 1..Len(pg) /\ DOMAIN after = DOMAIN pg /\ after \in Seq(Elements)
      BY <1>1 DEF Nested
<1>3. Sound(after, DOMAIN after, FALSE, b)
  <2> HIDE DEF after
  <2>1. Walked(after, DOMAIN after, FALSE, Walk(after, 0, "none", FALSE))
        BY <1>1, PageWalked
  <2>2. ParseHtml(pg).blocks = Walk(after, 0, "none", FALSE)
        BY DEF ParseHtml, DocumentOf, BlocksOf, after
  <2>3. PICK n \in DOMAIN ParseHtml(pg).blocks : b = ParseHtml(pg).blocks[n]
        BY DEF ToSet
  <2> QED BY <2>1, <2>2, <2>3 DEF Walked
<1>4. Made(after, b) /\ k \in 1..Len(pg) /\ after[k].tag # "dropped"
      BY <1>2, <1>3 DEF Sound
<1>5. /\ \A i \in 1..Len(pg) : pg[i].tag # "dropped"
      /\ after[k].tag \in TextTags
      /\ k \notin Doomed(pg)
      BY <1>1, <1>4 DEF TextTags, Doomed, DroppedTags
<1>6. \A i \in 1..Len(pg) : Apart(pg, TextOf(after, i))
      BY <1>1, <1>5, TextsApart
<1>7. Apart(pg, BareText(after, k))
      BY <1>1, <1>4, <1>5, BareTextApart
<1> HIDE DEF after, k
<1>8. CASE after[k].tag = "ul"
  <2>1. b.text = <<>> /\ b.items = ItemsOf(after, ListItems(after, k))
        BY <1>4, <1>8 DEF Made, Lists, k
  <2>2. k \in 1..Len(after)
        BY <1>1, <1>4
  <2>3. \A m \in DOMAIN b.items : \E x \in ChildSet(after, k) : b.items[m] = TextOf(after, x)
        BY <1>2, <1>8, <2>1, <2>2, ItemFacts
  <2>4. \A x \in ChildSet(after, k) : x \in 1..Len(pg)
    <3>1. ChildSet(after, k) \in SUBSET (k + 1..Len(after)) /\ k \in Nat
          BY <1>2, <2>2, ChildrenFacts
    <3> QED BY <1>1, <3>1
  <2>5. CASE text = b.text
        BY <2>1, <2>5, NothingApart
  <2>6. CASE text \in ToSet(b.items)
    <3>1. PICK m \in DOMAIN b.items : text = b.items[m]
          BY <2>6 DEF ToSet
    <3> QED BY <1>6, <2>3, <2>4, <3>1
  <2> QED BY <2>5, <2>6
<1>9. CASE after[k].tag # "ul"
  <2>1. b.items = <<>> /\ (b.text = TextOf(after, k) \/ b.text = BareText(after, k))
    <3>1. CASE after[k].tag \in BlockTags
      <4>1. after[k].tag \in BlockTags \ (Lists \cup {"table"})
            BY <1>5, <1>9, <3>1 DEF Lists, TextTags
      <4> QED BY <1>4, <4>1 DEF Made, k
    <3>2. CASE after[k].tag \notin BlockTags
          BY <1>4, <3>2 DEF Made, k
    <3> QED BY <3>1, <3>2
  <2>2. text = b.text
        BY <2>1 DEF ToSet
  <2> QED BY <1>4, <1>6, <1>7, <2>1, <2>2
<1> QED BY <1>8, <1>9

-----------------------------------------------------------------------------
(* What is said of documents and their claims, for pages of any size.        *)

(* A claim of any extractor or model, from any page, points at the wording   *)
(* it quotes (Locator, resolve), and no two claims of one rule share a       *)
(* pointer.                                                                  *)
THEOREM ClaimsPointAtTheirWording == Spec => []ClaimsAreLocated
<1>1. ClaimsAreLocated
      BY EveryClaimPoints, PageNodesAssumption DEF ClaimsAreLocated
<1> QED BY <1>1, PTL

(* A document has every word of its page but the code, each once, and none   *)
(* welded to another (parse_html_document): pages of text, lists and scripts,*)
(* and pages of tables, however long and deep.                               *)
THEOREM NoWordIsLostOrRepeated == Spec => []NothingLostNorTwice
<1>1. NothingLostNorTwice
      BY AllSaidOnce, AllApart, PageNodesAssumption DEF NothingLostNorTwice
<1> QED BY <1>1, PTL

(* The heading path of a block is the headings the page puts it under        *)
(* (heading_path_for).                                                       *)
THEOREM BlocksStandUnderTheirHeadings == Spec => []HeadingsGovern
<1>1. HeadingsGovern
      BY AllGoverned, PageNodesAssumption DEF HeadingsGovern
<1> QED BY <1>1, PTL

(* Programmes and admission requirements are read from the content of a page *)
(* and never from the label of a link (extract_program, admission.extract).  *)
THEOREM NavigationIsNotRead == Spec => []FurnitureIsNotContent
<1>1. FurnitureIsNotContent
      BY ContentIsRead, LabelsLeftOut, PageNodesAssumption DEF FurnitureIsNotContent
<1> QED BY <1>1, PTL
=============================================================================
