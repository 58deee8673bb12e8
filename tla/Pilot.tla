-------------------------------- MODULE Pilot --------------------------------
(***************************************************************************)
(* The staging plane of the pilot (domains/pilot/official_sources.py,      *)
(* import_workbook.py and verification.py, domains/acquisition/            *)
(* registration.py): submissions, the responsibilities they claim, what    *)
(* reviewers decide about the claims, the pages registered for fetching,   *)
(* and the facts a knowledge run stages.                                   *)
(*                                                                         *)
(* An import is one transaction started by hand at a terminal, one at a    *)
(* time; validation that refuses a file changes nothing and is left out.   *)
(* Of a row's columns those remain that an operation reads.                *)
(***************************************************************************)
EXTENDS Naturals, Sequences, FiniteSets

CONSTANTS
    Institutions, Pages,
    Categories,      \* source categories, Unclassified among them
    Unclassified,
    Files,           \* the workbooks an operator may import
    Kind,            \* "LIST" (official source list) or "WORKBOOK" (collected facts)
    Rows,            \* the data rows of a file that name a page
    MaxSubmissions,  \* bound: submissions stored
    MaxDecisions,    \* bound: decisions of reviewers
    MaxReviewed,     \* bound: submissions, oldest first, that reviewers work on
    None

ASSUME PilotAssumption ==
    /\ Unclassified \in Categories
    /\ Kind \in [Files -> {"LIST", "WORKBOOK"}]
    /\ Rows \in [Files -> Seq([institution : Institutions, page : Pages, category : Categories])]
    /\ MaxSubmissions \in Nat /\ MaxDecisions \in Nat /\ MaxReviewed \in Nat
    /\ None \notin Files \cup Pages

VARIABLES
    submissions,  \* pilot_submission with its pilot_collected_source rows, oldest first
    wave,         \* target_institution.pilot_wave is set
    sources,      \* pages with a source row
    earned,       \* sources that hold an eligibility class
    mappings,     \* source_mapping rows made from claims
    facts,        \* pilot_collected_fact rows of knowledge runs
    reading,      \* the claim a reviewer is registering, with the category that was read
    decisions

pilotVars == <<submissions, wave, sources, earned, mappings, facts, reading, decisions>>

Validated == {s \in DOMAIN submissions : submissions[s].status = "VALIDATED"}
Physical(s) == {r \in DOMAIN submissions[s].claims : submissions[s].claims[r].repeats = 0}

Claim(row, first) ==
    [institution |-> row.institution, page |-> row.page, category |-> row.category,
     repeats |-> first, state |-> "PENDING", mapped |-> FALSE, target |-> None]

(* The first row of the file with the URL of row r for the same institution. *)
FirstOf(rows, r) ==
    LET same == {q \in DOMAIN rows : /\ rows[q].institution = rows[r].institution
                                     /\ rows[q].page = rows[r].page}
    IN CHOOSE q \in same : \A p \in same : q <= p

PilotInit ==
    /\ submissions = <<>>
    /\ wave = {} /\ sources = {} /\ earned = {} /\ mappings = {} /\ facts = {}
    /\ reading = None
    /\ decisions = 0

Store(kind, file, claims, superseded) ==
    submissions' =
        Append([s \in DOMAIN submissions |->
                   IF s \in superseded THEN [submissions[s] EXCEPT !.status = "SUPERSEDED"]
                   ELSE submissions[s]],
               [kind |-> kind, file |-> file, status |-> "VALIDATED", claims |-> claims])

Known(file) == \E s \in DOMAIN submissions : submissions[s].file = file

(* import_official_source_list: repeats point at the physical row, the file  *)
(* sets the scope, earlier lists are superseded. Bytes seen before: nothing. *)
ImportList(file, keepWave, keepPrevious) ==
    /\ Kind[file] = "LIST" /\ ~Known(file)
    /\ Len(submissions) < MaxSubmissions
    /\ LET rows == Rows[file]
           claims == [r \in DOMAIN rows |->
                        Claim(rows[r], IF FirstOf(rows, r) = r THEN 0 ELSE FirstOf(rows, r))]
           lists == {s \in Validated : submissions[s].kind = "LIST"}
       IN /\ Store("LIST", file, claims, IF keepPrevious THEN {} ELSE lists)
          /\ wave' = IF keepWave THEN wave ELSE {rows[r].institution : r \in DOMAIN rows}
    /\ UNCHANGED <<sources, earned, mappings, facts, reading, decisions>>

(* import_pilot_workbook: every row is a page of its own, which the partial  *)
(* unique index allows once, and every earlier submission is superseded.     *)
ImportWorkbook(file, keepPrevious) ==
    /\ Kind[file] = "WORKBOOK" /\ ~Known(file)
    /\ Len(submissions) < MaxSubmissions
    /\ \A r \in DOMAIN Rows[file] : FirstOf(Rows[file], r) = r
    /\ Store("WORKBOOK", file, [r \in DOMAIN Rows[file] |-> Claim(Rows[file][r], 0)],
             IF keepPrevious THEN {} ELSE Validated)
    /\ UNCHANGED <<wave, sources, earned, mappings, facts, reading, decisions>>

-----------------------------------------------------------------------------
(* register_acquisition_targets.                                             *)

Registrable(scoped) ==
    {q \in UNION {{s} \X Physical(s) : s \in Validated} :
        scoped => submissions[q[1]].claims[q[2]].institution \in wave}

Rides(s, c, chosen) ==
    \E q \in chosen :
        /\ q[1] = s
        /\ submissions[s].claims[q[2]].institution = c.institution
        /\ submissions[s].claims[q[2]].page = c.page

(* Mutant: the rows registered, without their repeats.                       *)
LinkedAlone(chosen) ==
    [s \in DOMAIN submissions |->
        LET claims == submissions[s].claims
        IN [submissions[s] EXCEPT !.claims =
              [r \in DOMAIN claims |->
                  IF <<s, r>> \in chosen THEN [claims[r] EXCEPT !.target = claims[r].page]
                  ELSE claims[r]]]]

(* Every claim on the page, the repeats too.                                 *)
Linked(chosen) ==
    [s \in DOMAIN submissions |->
        LET claims == submissions[s].claims
        IN [submissions[s] EXCEPT !.claims =
              [r \in DOMAIN claims |->
                  IF Rides(s, claims[r], chosen) THEN [claims[r] EXCEPT !.target = claims[r].page]
                  ELSE claims[r]]]]

RegisterTargets(scoped) ==
    LET chosen == Registrable(scoped)
    IN /\ sources' = sources \cup {submissions[q[1]].claims[q[2]].page : q \in chosen}
       /\ submissions' = Linked(chosen)
       /\ UNCHANGED <<wave, earned, mappings, facts, reading, decisions>>

NothingPublishable(linked) ==
    \A s \in DOMAIN linked : \A r \in DOMAIN linked[s].claims : linked[s].claims[r].target \notin earned

(* `acquisition.py register`: its transaction ends with the assertion that   *)
(* nothing became publishable, and is rolled back when that fails.           *)
RegisterByHand(scoped) ==
    /\ RegisterTargets(scoped)
    /\ NothingPublishable(submissions')

(* A promotion (TrustChain) makes a source eligible.                         *)
Earn(p) ==
    /\ p \in sources \ earned
    /\ earned' = earned \cup {p}
    /\ UNCHANGED <<submissions, wave, sources, mappings, facts, reading, decisions>>

-----------------------------------------------------------------------------
(* Triage. Each is a transaction that locks the claim before it looks.       *)

Act == decisions < MaxDecisions /\ decisions' = decisions + 1
Set(s, r, f, v) == submissions' = [submissions EXCEPT ![s].claims[r][f] = v]

Record(s, r, state) ==
    LET c == submissions[s].claims[r]
    IN /\ state = "VERIFIED" => c.category # Unclassified
       /\ c.mapped => state = "VERIFIED"
       /\ Act /\ Set(s, r, "state", state)
       /\ UNCHANGED <<wave, sources, earned, mappings, facts, reading>>

Classify(s, r, category) ==
    /\ category # Unclassified
    /\ Act /\ Set(s, r, "category", category)
    /\ UNCHANGED <<wave, sources, earned, mappings, facts, reading>>

(* `source_review.py register` reads the claim without a lock ... A command  *)
(* given before the claim is verified is left out: it is refused.            *)
ReadClaim(s, r) ==
    /\ reading = None /\ ~submissions[s].claims[r].mapped
    /\ submissions[s].claims[r].state = "VERIFIED"
    /\ reading' = [claim |-> <<s, r>>, category |-> submissions[s].claims[r].category]
    /\ UNCHANGED <<submissions, wave, sources, earned, mappings, facts, decisions>>

Mapping(c, category) == [institution |-> c.institution, category |-> category, page |-> c.page]

(* ... and register_verified_candidate, which locks it, takes the category   *)
(* that was read. The host is trusted; uq_source_mapping_target_category_url.*)
RegisterMapping ==
    /\ reading # None
    /\ LET s == reading.claim[1]
           r == reading.claim[2]
           c == submissions[s].claims[r]
       IN /\ c.state = "VERIFIED" /\ ~c.mapped
          /\ Mapping(c, reading.category) \notin mappings
          /\ mappings' = mappings \cup {Mapping(c, reading.category)}
          /\ Set(s, r, "mapped", TRUE)
    /\ reading' = None
    /\ UNCHANGED <<wave, sources, earned, facts, decisions>>

(* The claim is not verified, mapped already, on a host nobody trusts, ...   *)
RefuseMapping ==
    /\ reading # None /\ reading' = None
    /\ UNCHANGED <<submissions, wave, sources, earned, mappings, facts, decisions>>

Triage ==
    \/ \E s \in DOMAIN submissions \cap 1 .. MaxReviewed : \E r \in DOMAIN submissions[s].claims :
          \/ \E state \in {"VERIFIED", "REJECTED", "NEEDS_REVIEW"} : Record(s, r, state)
          \/ \E category \in Categories : Classify(s, r, category)
          \/ ReadClaim(s, r)
    \/ RegisterMapping
    \/ RefuseMapping

Import ==
    \E file \in Files, keepPrevious \in BOOLEAN :
       \/ \E keepWave \in BOOLEAN : ImportList(file, keepWave, keepPrevious)
       \/ ImportWorkbook(file, keepPrevious)

PilotNext ==
    \/ Import
    \/ Triage
    \/ \E scoped \in BOOLEAN : RegisterByHand(scoped)
    \/ \E p \in Pages : Earn(p)
=============================================================================
