------------------------------- MODULE Claims -------------------------------
(***************************************************************************)
(* Candidate claims and the decisions people take about them               *)
(* (domains/claims, revisions 0027 to 0030 and 0037): passes that read the *)
(* current documents and insert candidates, versions of the rules and of   *)
(* the documents that make earlier candidates history, and reviewers who   *)
(* accept a candidate, scope it, or settle the group it belongs to, from a *)
(* preview and in a transaction that locks nothing it read.                *)
(*                                                                         *)
(* A statement is a located piece of evidence on the page of one source;   *)
(* a candidate is what one version of the rules made of it in one version  *)
(* of the document. Only what a group compares is kept of a value.         *)
(***************************************************************************)
EXTENDS Naturals, Sequences, FiniteSets, FiniteSetsExt

CONSTANTS
    Sources, Statements,
    SourceOf,        \* the source a statement is on
    ContextOf,       \* what a statement is about (context_key_for), or Unkeyed
    Thin,            \* the contexts that contain an unknown (has_sentinel)
    Comparable,      \* the statements of a field kind outside NEVER_GROUPED
    Scopeable,       \* the statements of a field kind in SCOPED_FIELD_KINDS
    Says,            \* the value each version of the rules reads in a statement
    Requests,        \* what reviewers may ask for
    Refs,            \* the pilot rows (source_ref) a page may be collected for
    Passes, Reviewers,
    MaxDeploys,      \* bound: versions deployed after the first
    MaxDecisions,    \* bound: transactions of reviewers
    MaxEvents,       \* bound: review decisions and changes of eligibility
    Unkeyed, None

Versions == 1..(MaxDeploys + 1)

ScopeStates == {"UNSCOPED", "APPLICANT_JURISDICTION", "QUALIFICATION_SYSTEM",
                "JURISDICTION_AND_QUALIFICATION", "UNIVERSAL_EXPLICIT", "NOT_APPLICABLE"}
ConflictActions == {"RESOLVED_DUPLICATE", "SELECTED_SUPPORTED_CLAIM", "REJECTED_CONFLICTING",
                    "LEFT_UNRESOLVED"}
Dimensions == {"jurisdiction", "qualification"}

(* A scope request names the criteria selected by the two families of        *)
(* dimensions they belong to.                                                *)
ScopeRequests    == [kind : {"scope"}, state : ScopeStates, criteria : SUBSET Dimensions]
ConflictRequests == [kind : {"conflict"}, action : ConflictActions]

ASSUME ClaimsAssumption ==
    /\ SourceOf \in [Statements -> Sources]
    /\ Says \in [Statements -> [Versions -> Nat]]
    /\ Requests \subseteq ScopeRequests \cup ConflictRequests
    /\ Refs \subseteq Nat /\ \E r \in Refs : \A q \in Refs : q <= r
    /\ MaxDeploys \in Nat /\ MaxDecisions \in Nat /\ MaxEvents \in Nat

VARIABLES
    deployed,   \* the versions of the rules and of the document the code has
    parsed,     \* extractions: the sources parsed under each document version
    refs,       \* pilot_collected_source: the rows of each source
    rows,       \* field_claim_candidate
    passes,     \* the claim passes under way, with the versions they started with
    eligible,   \* the sources whose publication_eligibility would do
    accepted,   \* the candidates whose latest review decision is ACCEPTED
    desk,       \* what each reviewer has open
    begun,      \* transactions begun: decided_at is the begin of a transaction
    log,        \* candidate_scope_resolution and candidate_conflict_resolution
    events

reading  == <<deployed, parsed, refs, rows, passes>>
judging  == <<eligible, accepted, events>>
deciding == <<desk, begun, log>>
vars == <<reading, judging, deciding>>

Idle    == [rule |-> 0, document |-> 0, todo |-> {}]
NoEntry == [request |-> None, on |-> None, chosen |-> None, shown |-> None, began |-> 0,
            after |-> 0, phase |-> "away"]

Init ==
    /\ deployed = [rule |-> 1, document |-> 1]
    /\ parsed = {}
    /\ refs = [s \in Sources |-> {Max(Refs)}]
    /\ rows = {}
    /\ passes = [p \in Passes |-> Idle]
    /\ eligible = {}
    /\ accepted = {}
    /\ events = 0
    /\ desk = [r \in Reviewers |-> NoEntry]
    /\ begun = 0
    /\ log = <<>>

----------------------------------------------------------------------------
(* Versions, documents and passes *)

(* A deployment changes a rule or the document normaliser; what a reviewer   *)
(* has in the middle of a request ends with the process that served it, a    *)
(* pass that runs goes on with the code it has loaded. Preview tokens stay   *)
(* good.                                                                     *)
Deploy ==
    /\ deployed.rule + deployed.document < 2 + MaxDeploys
    /\ \/ deployed' = [deployed EXCEPT !.rule = @ + 1]
       \/ deployed' = [deployed EXCEPT !.document = @ + 1]
    /\ desk' = [r \in Reviewers |-> IF desk[r].phase = "open" THEN NoEntry ELSE desk[r]]
    /\ UNCHANGED <<parsed, refs, rows, passes, judging, begun, log>>

(* The extraction pass stores the document of a page (module Extraction).    *)
Parse(s) ==
    /\ [source |-> s, document |-> deployed.document] \notin parsed
    /\ parsed' = parsed \cup {[source |-> s, document |-> deployed.document]}
    /\ UNCHANGED <<deployed, refs, rows, passes, judging, deciding>>

(* A page is collected for another responsibility.                           *)
Collect(s, ref) ==
    /\ ref \notin refs[s]
    /\ refs' = [refs EXCEPT ![s] = @ \cup {ref}]
    /\ UNCHANGED <<deployed, parsed, rows, passes, judging, deciding>>

(* Mutant: documents that were read before are left out. *)
UnreadTargets ==
    {[source |-> e.source, claim |-> Min(refs[e.source])] :
        e \in {x \in parsed : /\ x.document = deployed.document
                              /\ \A r \in rows : SourceOf[r.at] # x.source}}

(* targets_for_claims: the extractions of the current document version, each *)
(* attributed to the first of its responsibilities.                          *)
Targets ==
    {[source |-> e.source, claim |-> Min(refs[e.source])] :
        e \in {x \in parsed : x.document = deployed.document}}

StartPass(p) ==
    /\ passes[p] = Idle
    /\ Targets # {}
    /\ passes' = [passes EXCEPT ![p] = [rule |-> deployed.rule, document |-> deployed.document,
                                        todo |-> Targets]]
    /\ UNCHANGED <<deployed, parsed, refs, rows, judging, deciding>>

(* Mutant: the identity of a candidate includes the row it was collected for. *)
FingerprintWithClaim(r) == r

(* Candidate.fingerprint: neither the value nor the responsibility.          *)
Fingerprint(r) == [at |-> r.at, rule |-> r.rule, document |-> r.document]

(* The candidates a pass makes of a document.                                *)
ClaimsFor(p, t) ==
    {[at |-> x, rule |-> passes[p].rule, document |-> passes[p].document, claim |-> t.claim] :
        x \in {y \in Statements : SourceOf[y] = t.source}}

(* Past the last document the pass ends.                                     *)
Done(p, t) ==
    LET left == passes[p].todo \ {t}
    IN  passes' = [passes EXCEPT ![p] = IF left = {} THEN Idle ELSE [@ EXCEPT !.todo = left]]

(* One transaction per document; the unique fingerprint decides, whoever     *)
(* else is inserting.                                                        *)
ReadDocument(p, t) ==
    /\ t \in passes[p].todo
    /\ rows' = rows \cup {c \in ClaimsFor(p, t) :
                             \A r \in rows : Fingerprint(r) # Fingerprint(c)}
    /\ Done(p, t)
    /\ UNCHANGED <<deployed, parsed, refs, judging, deciding>>

(* The artifact cannot be read now: the pass reports it and goes on.         *)
SkipDocument(p, t) ==
    /\ t \in passes[p].todo
    /\ Done(p, t)
    /\ UNCHANGED <<deployed, parsed, refs, rows, judging, deciding>>

KillPass(p) ==
    /\ passes[p] # Idle
    /\ passes' = [passes EXCEPT ![p] = Idle]
    /\ UNCHANGED <<deployed, parsed, refs, rows, judging, deciding>>

----------------------------------------------------------------------------
(* The queue and its groups *)

(* queue: the current candidates, by the versions of the code that asks.     *)
Queue == {r \in rows : r.rule = deployed.rule /\ r.document = deployed.document}

(* The context key, and the candidate itself where there is none.            *)
KeyOf(r) == IF ContextOf[r.at] = Unkeyed THEN r ELSE ContextOf[r.at]

Members(k) == {r \in Queue : KeyOf(r) = k}

(* group_candidates *)
Verdict(k) ==
    LET values  == {Says[r.at][r.rule] : r \in Members(k)}
        sources == {SourceOf[r.at] : r \in Members(k)}
    IN  IF \E r \in Members(k) : KeyOf(r) = r
          THEN IF \E r \in Members(k) : r.at \in Comparable
                 THEN "INSUFFICIENT_CONTEXT" ELSE "NOT_COMPARABLE"
        ELSE IF Cardinality(values) > 1
          THEN IF k \in Thin THEN "INSUFFICIENT_CONTEXT" ELSE "CONFLICTS"
        ELSE IF Cardinality(Members(k)) = 1 THEN "SINGLE"
        ELSE IF Cardinality(sources) > 1 THEN "AGREES" ELSE "POSSIBLE_DUPLICATE"

Disputed(k) == Verdict(k) \in {"CONFLICTS", "POSSIBLE_DUPLICATE", "INSUFFICIENT_CONTEXT"}

(* The entry of a candidate or of a group that is in force among the first n *)
(* committed: the latest by decided_at.                                      *)
InForce(kind, x, n) ==
    LET of == {i \in 1..n : log[i].request.kind = kind /\ log[i].on = x}
        latest == {i \in of : \A j \in of : log[j].began <= log[i].began}
    IN  IF of = {} THEN NoEntry ELSE log[CHOOSE i \in latest : TRUE]

(* human_scope_state: silence is UNSCOPED, never everyone.                   *)
ScopeAfter(r, n) ==
    LET e == InForce("scope", r, n)
    IN  IF e # NoEntry THEN e.request.state
        ELSE IF r.at \in Scopeable THEN "UNSCOPED" ELSE "NOT_APPLICABLE"

ActionAfter(k, n) ==
    LET e == InForce("conflict", k, n) IN IF e = NoEntry THEN "none" ELSE e.request.action

ScopeOf(r)  == ScopeAfter(r, Len(log))
ActionOn(k) == ActionAfter(k, Len(log))

(* conflict_resolved *)
Settled(k) == Disputed(k) => ActionOn(k) \notin {"none", "LEFT_UNRESOLVED"}

(* blockers_for finds nothing.                                               *)
Ready(r) ==
    /\ r \in Queue /\ r \in accepted
    /\ SourceOf[r.at] \in eligible
    /\ ScopeOf(r) # "UNSCOPED"
    /\ Settled(KeyOf(r))

----------------------------------------------------------------------------
(* Decisions *)

Event == events < MaxEvents /\ events' = events + 1

(* record_decision: a superseded candidate may still be decided on, and the  *)
(* latest decision counts.                                                   *)
RecordDecision(c) ==
    /\ accepted' \in {accepted \cup {c}, accepted \ {c}}
    /\ accepted' # accepted
    /\ Event /\ UNCHANGED <<reading, eligible, deciding>>

(* Promotion, or the loss of trust (module TrustChain).                      *)
ChangeEligibility(s) ==
    /\ eligible' \in {eligible \cup {s}, eligible \ {s}}
    /\ eligible' # eligible
    /\ Event /\ UNCHANGED <<reading, accepted, deciding>>

(* state_for *)
StateFor(criteria) ==
    CASE criteria = Dimensions        -> "JURISDICTION_AND_QUALIFICATION"
      [] criteria = {"jurisdiction"}  -> "APPLICANT_JURISDICTION"
      [] criteria = {"qualification"} -> "QUALIFICATION_SYSTEM"
      [] OTHER                        -> "UNSCOPED"

(* What preview_scope refuses to issue a token for.                          *)
ScopeValid(q, c) ==
    /\ c \in Queue
    /\ c.at \notin Scopeable => q.state = "NOT_APPLICABLE"
    /\ q.state \in {"UNSCOPED", "UNIVERSAL_EXPLICIT"} => q.criteria = {}
    /\ q.state \notin {"UNSCOPED", "UNIVERSAL_EXPLICIT", "NOT_APPLICABLE"} =>
          q.state = StateFor(q.criteria)

ConflictValid(q, k, chosen) ==
    /\ Members(k) # {}
    /\ IF q.action = "SELECTED_SUPPORTED_CLAIM" THEN chosen \in Members(k) ELSE chosen = None

Valid(d) == IF d.request.kind = "scope" THEN ScopeValid(d.request, d.on)
            ELSE ConflictValid(d.request, d.on, d.chosen)

ScopeFacts(c)    == [before |-> ScopeOf(c), verdict |-> Verdict(KeyOf(c)),
                     eligible |-> SourceOf[c.at] \in eligible]
ConflictFacts(k) == [before |-> ActionOn(k), verdict |-> Verdict(k), members |-> Members(k)]

(* Mutant: the fingerprint of a preview leaves out what was decided before.  *)
FactsWithoutBefore(d) ==
    IF d.request.kind = "scope" THEN [ScopeFacts(d.on) EXCEPT !.before = d.shown.before]
    ELSE [ConflictFacts(d.on) EXCEPT !.before = d.shown.before]

(* What a token is a fingerprint of, computed again.                         *)
FactsNow(d) == IF d.request.kind = "scope" THEN ScopeFacts(d.on) ELSE ConflictFacts(d.on)

(* preview_scope, preview_conflict *)
Preview(r) ==
    /\ desk[r] = NoEntry
    /\ \E q \in Requests :
          \E x \in IF q.kind = "scope" THEN Queue ELSE {KeyOf(c) : c \in Queue} :
             \E chosen \in IF q.kind = "scope" THEN {None} ELSE Queue \cup {None} :
                LET d == [NoEntry EXCEPT !.request = q, !.on = x, !.chosen = chosen]
                IN  /\ Valid(d)
                    /\ desk' = [desk EXCEPT ![r] =
                          [d EXCEPT !.phase = "previewed",
                                    !.shown = IF q.kind = "scope" THEN ScopeFacts(x)
                                              ELSE ConflictFacts(x)]]
    /\ UNCHANGED <<reading, judging, begun, log>>

(* The token expires, or the reviewer looks again.                           *)
Leave(r) ==
    /\ desk[r].phase = "previewed"
    /\ desk' = [desk EXCEPT ![r] = NoEntry]
    /\ UNCHANGED <<reading, judging, begun, log>>

(* apply_scope, apply_conflict: the transaction begins, computes the preview *)
(* again from what is committed, and refuses (409 or 422) unless it is the   *)
(* same. No row is locked.                                                   *)
BeginApply(r) ==
    /\ desk[r].phase = "previewed"
    /\ begun < MaxDecisions
    /\ IF Valid(desk[r]) /\ FactsNow(desk[r]) = desk[r].shown
         THEN /\ begun' = begun + 1
              /\ desk' = [desk EXCEPT ![r] = [@ EXCEPT !.phase = "open", !.began = begun + 1,
                                                       !.after = Len(log)]]
         ELSE desk' = [desk EXCEPT ![r] = NoEntry] /\ UNCHANGED begun
    /\ UNCHANGED <<reading, judging, log>>

(* ... appends its row and its audit entry, and commits.                     *)
CommitApply(r) ==
    /\ desk[r].phase = "open"
    /\ log' = Append(log, desk[r])
    /\ desk' = [desk EXCEPT ![r] = NoEntry]
    /\ UNCHANGED <<reading, judging, begun>>

Next ==
    \/ Deploy
    \/ \E s \in Sources : Parse(s) \/ ChangeEligibility(s) \/ \E ref \in Refs : Collect(s, ref)
    \/ \E p \in Passes :
          \/ StartPass(p) \/ KillPass(p)
          \/ \E t \in passes[p].todo : ReadDocument(p, t) \/ SkipDocument(p, t)
    \/ \E c \in rows : RecordDecision(c)
    \/ \E r \in Reviewers : Preview(r) \/ Leave(r) \/ BeginApply(r) \/ CommitApply(r)

Spec == Init /\ [][Next]_vars

(* An operator keeps extracting and keeps starting passes, a pass is not     *)
(* killed for ever, and a document is readable in some pass.                 *)
Reads(p, s) == \E t \in passes[p].todo : t.source = s /\ ReadDocument(p, t)

FairSpec ==
    /\ Spec
    /\ \A s \in Sources : WF_vars(Parse(s))
    /\ \A p \in Passes : WF_vars(StartPass(p))
                         /\ \A s \in Sources : SF_vars(Reads(p, s))

----------------------------------------------------------------------------
(* Properties *)

Candidates == [at : Statements, rule : Versions, document : Versions, claim : Refs]
Keys == Candidates \cup {ContextOf[x] : x \in Statements}
Verdicts == {"INSUFFICIENT_CONTEXT", "NOT_COMPARABLE", "CONFLICTS", "SINGLE", "AGREES",
             "POSSIBLE_DUPLICATE"}
ShownScopes    == [before : ScopeStates, verdict : Verdicts, eligible : BOOLEAN]
ShownConflicts == [before : ConflictActions \cup {"none"}, verdict : Verdicts,
                   members : SUBSET Candidates]
Entries == [request : Requests \cup {None}, on : Keys \cup {None},
            chosen : Candidates \cup {None}, shown : ShownScopes \cup ShownConflicts \cup {None},
            began : 0..MaxDecisions, after : Nat, phase : {"away", "previewed", "open"}]

(* The CHECKs of revision 0037: a scope is of a candidate, and a selection,  *)
(* and nothing else, names a member of the group its reviewer was shown.     *)
Fits(e) ==
    /\ e.request \in Requests
    /\ IF e.request.kind = "scope" THEN e.on \in rows /\ e.shown \in ShownScopes
       ELSE /\ e.shown \in ShownConflicts
            /\ IF e.request.action = "SELECTED_SUPPORTED_CLAIM" THEN e.chosen \in e.shown.members
               ELSE e.chosen = None

(* The rows have the columns of their tables, and what reviewers have open   *)
(* and what they decided fits.                                               *)
TypeOK ==
    /\ deployed \in [rule : Versions, document : Versions]
    /\ parsed \subseteq [source : Sources, document : Versions]
    /\ refs \in [Sources -> (SUBSET Refs) \ {{}}]
    /\ rows \subseteq Candidates
    /\ passes \in [Passes -> [rule : Versions \cup {0}, document : Versions \cup {0},
                             todo : SUBSET [source : Sources, claim : Refs]]]
    /\ \A p \in Passes :
          passes[p].todo # {} => passes[p].rule \in Versions /\ passes[p].document \in Versions
    /\ eligible \subseteq Sources /\ accepted \subseteq rows
    /\ begun \in 0..MaxDecisions /\ events \in 0..MaxEvents
    /\ desk \in [Reviewers -> Entries]
    /\ \A r \in Reviewers : desk[r].phase # "away" => Fits(desk[r])
    /\ log \in Seq(Entries)
    /\ \A i \in 1..Len(log) : Fits(log[i])

(* One statement is one current candidate, however many passes read its      *)
(* document at once and whatever responsibilities are added to its page      *)
(* between them (runner.py:114-126 and 417-466).                             *)
OneCandidatePerStatement ==
    \A r, s \in rows :
        r.at = s.at /\ r.rule = s.rule /\ r.document = s.document => r = s

(* What the first n committed say about what an entry decides.               *)
Decided(e, n) == IF e.request.kind = "scope" THEN ScopeAfter(e.on, n) ELSE ActionAfter(e.on, n)

(* The decisions an entry did not meet: about the same thing, committed      *)
(* between the begin and the commit of its transaction.                      *)
Overlapping(e) == {j \in (e.after + 1)..Len(log) :
                      log[j].request.kind = e.request.kind /\ log[j].on = e.on}

(* What is in force when a decision commits is what its reviewer was shown,  *)
(* unless another decision about the same thing committed within its         *)
(* transaction: nothing decided between the preview and the apply goes       *)
(* unseen (resolution.py:704-763, 1049-1103). And however long ago its       *)
(* preview was taken, no scope is decided for a candidate that the deployed  *)
(* rules and documents have made history                                     *)
(* (tests/integration/test_candidate_resolution.py:322 and 447).             *)
OnlyOverlapsAreBlind ==
    [][\A i \in (Len(log) + 1)..Len(log') :
          LET entry == log'[i] IN
          /\ entry.shown.before # Decided(entry, Len(log)) => Overlapping(entry) # {}
          /\ entry.request.kind = "scope" =>
                /\ entry.on.rule = deployed.rule
                /\ entry.on.document = deployed.document]_vars

(* Every statement of every current document that was parsed becomes a       *)
(* candidate of the current rules (runner.py:337-414).                       *)
EveryStatementClaimed ==
    <>[](\A x \in Statements : \E r \in Queue : r.at = x)

(* Formulas the code does not satisfy (README, Disagreements).               *)

(* A decision is recorded only while the facts are still the previewed ones  *)
(* (resolution.py:704). Two transactions that overlap lock nothing and each  *)
(* see what was committed when they began.                                   *)
NoBlindOverride ==
    [][\A i \in (Len(log) + 1)..Len(log') :
          log'[i].shown.before = Decided(log'[i], Len(log))]_vars

(* No candidate of a group in dispute is ready but on the word of somebody   *)
(* who was shown the members of the group (resolution.py:92-95: the verdicts *)
(* "that need a human before anything downstream may rely on the group";     *)
(* revision 0037: "a decision about one question must not silently transfer  *)
(* to a different one").                                                     *)
ReadyAsShown ==
    \A r \in Queue :
        Ready(r) /\ Disputed(KeyOf(r)) =>
            InForce("conflict", KeyOf(r), Len(log)).shown.members = Members(KeyOf(r))

=============================================================================
