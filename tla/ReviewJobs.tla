----------------------------- MODULE ReviewJobs -----------------------------
(***************************************************************************)
(* The two jobs the review API runs in its own process after it has        *)
(* answered a POST (api/review/routes.py): the knowledge collection        *)
(* (domains/pilot/ai_knowledge.py) and the acquisition fill (domains/      *)
(* acquisition/online_fill.py), over the staging plane of Pilot. A job's   *)
(* status is a dictionary of the module; a task is a background thread.    *)
(***************************************************************************)
EXTENDS Pilot

CONSTANTS
    Tasks,            \* background tasks, one per accepted POST
    FailureLimit      \* CONSECUTIVE_FAILURE_LIMIT

Jobs == {"knowledge", "fill"}

ASSUME JobsAssumption == FailureLimit \in Nat \ {0}

VARIABLES
    status,   \* _ai_knowledge_job["status"], _acquisition_fill_job["status"]
    task      \* where each background task is

jobVars == <<status, task>>
vars == <<pilotVars, jobVars>>

NoTask == [job |-> "none", at |-> "free", submission |-> 0, catalog |-> <<>>,
           left |-> {}, strikes |-> 0, failed |-> FALSE]

Init ==
    /\ PilotInit
    /\ status = [j \in Jobs |-> "idle"]
    /\ task = [t \in Tasks |-> NoTask]

Staged(s) == {f \in facts : f.submission = s}

(* ai_knowledge_start, acquisition_fill_start: refused while the status says *)
(* running, and it says so only once the task has begun.                     *)
Post(t, job) ==
    /\ task[t] = NoTask
    /\ status[job] # "running"
    /\ task' = [task EXCEPT ![t] = [NoTask EXCEPT !.job = job, !.at = "posted"]]
    /\ UNCHANGED <<pilotVars, status>>

At(t, job, at) == task[t].job = job /\ task[t].at = at

Ends(t, as) ==
    /\ task' = [task EXCEPT ![t] = [NoTask EXCEPT !.at = "done"]]
    /\ status' = [status EXCEPT ![task[t].job] = as]

Begin(t) ==
    /\ task[t].at = "posted"
    /\ task' = [task EXCEPT ![t].at = "begun"]
    /\ status' = [status EXCEPT ![task[t].job] = "running"]
    /\ UNCHANGED pilotVars

(* Mutant: the task ends and nobody is told.                                 *)
FailSilently(t) ==
    /\ task[t].at \notin {"free", "posted", "done"}
    /\ Ends(t, status[task[t].job])
    /\ UNCHANGED pilotVars

(* Any exception of the job: no API key, more institutions than the cost     *)
(* gate lets pass, an unknown institution, the database, the store.          *)
Fail(t) ==
    /\ task[t].at \notin {"free", "posted", "done"}
    /\ Ends(t, "failed")
    /\ UNCHANGED pilotVars

-----------------------------------------------------------------------------
(* run_collection.                                                           *)

(* list_institutions: the newest source list, whatever its status.           *)
NewestList ==
    LET lists == {s \in DOMAIN submissions : submissions[s].kind = "LIST"}
    IN IF lists = {} THEN 0 ELSE CHOOSE s \in lists : \A q \in lists : q <= s

Listed(s) ==
    IF s = 0 THEN {} ELSE {submissions[s].claims[r].institution : r \in Physical(s)}

(* The physical rows of the institutions asked about, by their source refs.  *)
Copies(list, asked) ==
    LET claims == submissions[list].claims
    IN [r \in {q \in Physical(list) : claims[q].institution \in asked} |-> Claim(claims[r], 0)]

(* The limit takes the first institutions: any of them here.                 *)
List(t) ==
    /\ At(t, "knowledge", "begun")
    /\ \E asked \in SUBSET Listed(NewestList) :
        /\ asked # {}
        /\ task' = [task EXCEPT ![t].at = "listed", ![t].left = asked,
                                ![t].catalog = Copies(NewestList, asked)]
    /\ UNCHANGED <<pilotVars, status>>

NothingListed(t) ==
    /\ At(t, "knowledge", "begun")
    /\ Listed(NewestList) = {}
    /\ Ends(t, "empty")
    /\ UNCHANGED pilotVars

(* Mutant: the digest of a run's submission is of what it lists alone.       *)
OpenSubmissionAgain(t) ==
    /\ At(t, "knowledge", "listed")
    /\ LET same == {s \in DOMAIN submissions : /\ submissions[s].kind = "KNOWLEDGE"
                                               /\ submissions[s].claims = task[t].catalog}
       IN IF same = {}
            THEN /\ Len(submissions) < MaxSubmissions
                 /\ Store("KNOWLEDGE", t, task[t].catalog, {})
                 /\ task' = [task EXCEPT ![t].at = "open", ![t].submission = Len(submissions) + 1]
            ELSE /\ task' = [task EXCEPT ![t].at = "open",
                                         ![t].submission = CHOOSE s \in same : TRUE]
                 /\ UNCHANGED submissions
    /\ UNCHANGED <<wave, sources, earned, mappings, facts, reading, decisions, status>>

(* open_submission: a submission of its own with a copy of what was listed.  *)
(* Its digest takes in the time, so no two runs have the same.               *)
OpenSubmission(t) ==
    /\ At(t, "knowledge", "listed")
    /\ Len(submissions) < MaxSubmissions
    /\ Store("KNOWLEDGE", t, task[t].catalog, {})
    /\ task' = [task EXCEPT ![t].at = "open", ![t].submission = Len(submissions) + 1,
                            ![t].catalog = <<>>]
    /\ UNCHANGED <<wave, sources, earned, mappings, facts, reading, decisions, status>>

(* ask_institution, then one transaction with the facts that named a source  *)
(* of the catalogue.                                                         *)
Answer(t, i) ==
    LET s == task[t].submission
        refs == {r \in DOMAIN submissions[s].claims : submissions[s].claims[r].institution = i}
    IN /\ At(t, "knowledge", "open") /\ i \in task[t].left
       /\ \E kept \in SUBSET refs :
             facts' = facts \cup {[submission |-> s, ref |-> r, institution |-> i, by |-> t] : r \in kept}
       /\ task' = [task EXCEPT ![t].left = @ \ {i}, ![t].strikes = 0]
       /\ UNCHANGED <<submissions, wave, sources, earned, mappings, reading, decisions, status>>

NoAnswer(t, i) ==
    /\ At(t, "knowledge", "open") /\ i \in task[t].left
    /\ task' = [task EXCEPT ![t].strikes = @ + 1, ![t].failed = TRUE,
                            ![t].left = IF task[t].strikes + 1 >= FailureLimit THEN {} ELSE @ \ {i}]
    /\ UNCHANGED <<pilotVars, status>>

Collected(t) ==
    /\ At(t, "knowledge", "open") /\ task[t].left = {}
    /\ Ends(t, IF Staged(task[t].submission) # {} \/ ~task[t].failed THEN "ok" ELSE "failed")
    /\ UNCHANGED pilotVars

-----------------------------------------------------------------------------
(* fill_evidence: registration in a transaction, then a cycle is enqueued,   *)
(* fetched and extracted (Acquisition, Extraction).                          *)
FillRegister(t) ==
    /\ At(t, "fill", "begun")
    /\ RegisterTargets(TRUE)
    /\ task' = [task EXCEPT ![t].at = "registered"]
    /\ UNCHANGED status

Filled(t) ==
    /\ At(t, "fill", "registered")
    /\ Ends(t, "completed")
    /\ UNCHANGED pilotVars

-----------------------------------------------------------------------------
TaskStep(t) ==
    \/ Begin(t)
    \/ List(t) \/ NothingListed(t) \/ OpenSubmission(t)
    \/ \E i \in Institutions : Answer(t, i) \/ NoAnswer(t, i)
    \/ Collected(t)
    \/ FillRegister(t) \/ Filled(t)
    \/ Fail(t)

(* The process ends: its tasks are gone and the dictionaries are as new.     *)
Restart ==
    /\ status' = [j \in Jobs |-> "idle"]
    /\ task' = [t \in Tasks |-> IF task[t] = NoTask THEN NoTask ELSE [NoTask EXCEPT !.at = "done"]]
    /\ UNCHANGED pilotVars

Next ==
    \/ PilotNext /\ UNCHANGED jobVars
    \/ \E t \in Tasks, job \in Jobs : Post(t, job)
    \/ \E t \in Tasks : TaskStep(t)
    \/ Restart

Spec == Init /\ [][Next]_vars

-----------------------------------------------------------------------------
RowNumbers == UNION {DOMAIN Rows[file] : file \in Files}

Claims == [institution : Institutions, page : Pages, category : Categories,
           repeats : RowNumbers \cup {0},
           state : {"PENDING", "VERIFIED", "REJECTED", "NEEDS_REVIEW"},
           mapped : BOOLEAN, target : Pages \cup {None}]

Tables == UNION {[refs -> Claims] : refs \in SUBSET RowNumbers}

Submissions ==
    [kind : {"LIST", "WORKBOOK", "KNOWLEDGE"}, file : Files \cup Tasks,
     status : {"VALIDATED", "SUPERSEDED"}, claims : Tables]

TaskStates ==
    [job : Jobs \cup {"none"},
     at : {"free", "posted", "begun", "listed", "open", "registered", "done"},
     submission : Nat, catalog : Tables, left : SUBSET Institutions, strikes : Nat,
     failed : BOOLEAN]

(* What the schema's checks, foreign keys and partial index say of a row.     *)
RowsFit ==
    \A s \in DOMAIN submissions : \A r \in DOMAIN submissions[s].claims :
        LET c == submissions[s].claims[r]
        IN /\ c.repeats # 0 => c.repeats \in Physical(s)
           /\ c.state = "VERIFIED" => c.category # Unclassified
           /\ c.mapped => c.state = "VERIFIED"
           /\ c.target # None => c.target \in sources

(* The rows have their columns, and fit.                                     *)
TypeOK ==
    /\ submissions \in Seq(Submissions) /\ RowsFit
    /\ wave \subseteq Institutions /\ earned \subseteq sources /\ sources \subseteq Pages
    /\ mappings \subseteq [institution : Institutions, category : Categories, page : Pages]
    /\ facts \subseteq [submission : DOMAIN submissions, ref : RowNumbers,
                        institution : Institutions, by : Tasks]
    /\ reading # None =>
          /\ reading \in [claim : Nat \X Nat, category : Categories]
          /\ reading.claim[1] \in DOMAIN submissions
          /\ reading.claim[2] \in DOMAIN submissions[reading.claim[1]].claims
    /\ decisions \in 0 .. MaxDecisions
    /\ status \in [Jobs -> {"idle", "running", "ok", "failed", "empty", "completed"}]
    /\ task \in [Tasks -> TaskStates]

(* All claims of one submission on one page of an institution ride on the    *)
(* same target or on none, the rows that repeat a page with the row they     *)
(* repeat: whoever imported the submission, or copied its pages, and whoever *)
(* registered it and when, by hand or in the fill job (registration.py:219). *)
ClaimsRideTogether ==
    \A s \in DOMAIN submissions : \A q, r \in DOMAIN submissions[s].claims :
        LET c == submissions[s].claims[q]
            d == submissions[s].claims[r]
        IN c.institution = d.institution /\ c.page = d.page => c.target = d.target

(* A staged fact belongs to the submission of the run that got it and cites  *)
(* a page of its institution there, although two runs may work at once and   *)
(* lists may be imported under them (ai_knowledge.py:128-186, 287-337).      *)
FactsOfTheirOwnRun ==
    \A f \in facts :
        LET s == submissions[f.submission]
        IN /\ s.kind = "KNOWLEDGE" /\ s.file = f.by
           /\ f.ref \in DOMAIN s.claims
           /\ s.claims[f.ref].institution = f.institution

Running(j) == {t \in Tasks : task[t].job = j /\ task[t].at \notin {"free", "posted", "done"}}

(* A job that is shown as running has a task at work: however many POSTs     *)
(* came in before the first of them began, and whatever failed, no stale     *)
(* "running" is left to refuse every later POST (routes.py:445-487, 504).    *)
ShownRunningIsRunning == \A j \in Jobs : status[j] = "running" => Running(j) # {}

-----------------------------------------------------------------------------
(* Formulas the code does not satisfy (README, Disagreements).               *)

(* Every claim on a page points at the one target, in whatever submission.   *)
ClaimsRideAcross ==
    \A s, t \in DOMAIN submissions :
        \A q \in DOMAIN submissions[s].claims, r \in DOMAIN submissions[t].claims :
            LET c == submissions[s].claims[q]
                d == submissions[t].claims[r]
            IN c.institution = d.institution /\ c.page = d.page => c.target = d.target

(* No two runs of a job at once.                                             *)
OneRunAtATime == \A j \in Jobs : Cardinality(Running(j)) <= 1

(* Only a source list takes the place of a source list.                      *)
ListStands ==
    [][\A s \in Validated : submissions[s].kind = "LIST" /\ submissions'[s].status = "SUPERSEDED"
           => submissions'[Len(submissions')].kind = "LIST"]_vars
=============================================================================
