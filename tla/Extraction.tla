----------------------------- MODULE Extraction -----------------------------
(***************************************************************************)
(* Extraction passes over the snapshots of one page, while the page goes   *)
(* on being fetched (extraction/runner.py). A pass picks its targets once, *)
(* asks for each whether a result exists, parses without a transaction and *)
(* records in a transaction of its own. One extractor at one version: the  *)
(* results of others do not meet.                                          *)
(***************************************************************************)
EXTENDS Observation

CONSTANTS
    Passes,       \* processes that run run_extraction
    NoTarget

VARIABLES
    extractions,  \* rows of extraction: snapshot and status
    stage,        \* each pass: "idle", "picked", "parsing" or "raised"
    target        \* the snapshot it works on

extractionVars == <<extractions, stage, target>>
vars == <<observationVars, extractionVars>>

InitAll ==
    /\ Init
    /\ extractions = {}
    /\ stage  = [p \in Passes |-> "idle"]
    /\ target = [p \in Passes |-> NoTarget]

(* targets_for_extraction *)
Pick(p) ==
    /\ stage[p] = "idle"
    /\ snapshots # {}
    /\ stage'  = [stage EXCEPT ![p] = "picked"]
    /\ target' = [target EXCEPT ![p] = ExtractionTarget]
    /\ UNCHANGED <<observationVars, extractions>>

Leave(p) ==
    /\ stage'  = [stage EXCEPT ![p] = "idle"]
    /\ target' = [target EXCEPT ![p] = NoTarget]

(* Mutant: a failure counts as a result. *)
TriedIsExtracted(sn) == \E x \in extractions : x.snapshot = sn

(* already_extracted: some result at this version, a failure being none.     *)
AlreadyExtracted(sn) == \E x \in extractions : x.snapshot = sn /\ x.status # "FAILED"

(* On to the next page: this one is done. *)
Skip(p) ==
    /\ stage[p] = "picked"
    /\ AlreadyExtracted(target[p])
    /\ Leave(p)
    /\ UNCHANGED <<observationVars, extractions>>

(* The stored object is missing, the process dies, or an exception ends it.  *)
GiveUp(p) ==
    /\ stage[p] # "idle"
    /\ Leave(p)
    /\ UNCHANGED <<observationVars, extractions>>

(* No result yet: the payload is read and the transaction ends. *)
Parse(p) ==
    /\ stage[p] = "picked"
    /\ ~AlreadyExtracted(target[p])
    /\ stage' = [stage EXCEPT ![p] = "parsing"]
    /\ UNCHANGED <<observationVars, extractions, target>>

(* The document could not be parsed. *)
RecordFailed(p) ==
    /\ stage[p] = "parsing"
    /\ extractions' = extractions \cup {[snapshot |-> target[p], status |-> "FAILED"]}
    /\ Leave(p)
    /\ UNCHANGED observationVars

(* uq_extraction_result_per_version *)
IndexHolds(sn) == \E x \in extractions : x.snapshot = sn /\ x.status # "FAILED"

(* The document is stored and recorded, OK or PARTIAL alike; the index       *)
(* refuses a second result, and run_extraction does not catch that.          *)
RecordResult(p) ==
    /\ stage[p] = "parsing"
    /\ IF ~IndexHolds(target[p])
         THEN /\ extractions' = extractions \cup {[snapshot |-> target[p], status |-> "OK"]}
              /\ Leave(p)
         ELSE /\ stage' = [stage EXCEPT ![p] = "raised"]
              /\ UNCHANGED <<extractions, target>>
    /\ UNCHANGED observationVars

Next ==
    \/ ObservationNext /\ UNCHANGED extractionVars
    \/ \E p \in Passes :
          \/ Pick(p) \/ Skip(p) \/ Parse(p)
          \/ RecordFailed(p) \/ RecordResult(p) \/ GiveUp(p)

Spec == InitAll /\ [][Next]_vars

(* Passes go on being run, some of them reach the parser, and a document     *)
(* that is tried again and again parses in the end.                          *)
ExtractionFairness ==
    \A p \in Passes :
        /\ WF_vars(Pick(p)) /\ WF_vars(Skip(p) \/ (stage[p] = "raised" /\ GiveUp(p)))
        /\ SF_vars(Parse(p)) /\ SF_vars(RecordResult(p))

(* A request is answered.                                                    *)
FetchFairness ==
    \A w \in Workers : WF_vars((Follow(w) \/ Serve(w)) /\ UNCHANGED extractionVars)

FairSpec == Spec /\ ExtractionFairness /\ FetchFairness
----------------------------------------------------------------------------
(* Properties *)

(* Every variable holds a value of its type, and what is extracted or about  *)
(* to be is a recorded snapshot.                                             *)
TypeOK ==
    /\ ObservationTypeOK
    /\ extractions \subseteq [snapshot : snapshots, status : {"OK", "FAILED"}]
    /\ stage \in [Passes -> {"idle", "picked", "parsing", "raised"}]
    /\ target \in [Passes -> snapshots \cup {NoTarget}]

(* The newest evidence gets a result in the end, failures, lost objects and  *)
(* killed passes before it notwithstanding: no page is "permanently reported *)
(* as done" for a failure (extraction/runner.py:194-197).                    *)
NewestGetsAResult ==
    [](snapshots # {} => <>(\E x \in extractions : /\ x.snapshot = ExtractionTarget
                                                   /\ x.status # "FAILED"))

(* "A second run over the same snapshot at the same version does nothing"    *)
(* (extraction/runner.py:32-33), so it does not end in an exception either.  *)
SecondPassDoesNothing == \A p \in Passes : stage[p] # "raised"
============================================================================
