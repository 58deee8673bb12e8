-------------------------- MODULE ReviewJobsProofs --------------------------
(***************************************************************************)
(* Proofs about ReviewJobs.                                                *)
(***************************************************************************)
EXTENDS ReviewJobs, WellFoundedInduction, TLAPS

(* A set of rows has a first one.                                            *)
LEMMA FirstExists ==
    ASSUME NEW T \in SUBSET Nat, T # {}
    PROVE  \E x \in T : \A y \in T : x <= y
<1> DEFINE R == OpToRel(<, Nat)
<1>1. IsWellFoundedOn(R, Nat)
      BY NatLessThanWellFounded
<1>2. \A x, y \in Nat : x < y => <<x, y>> \in R
      BY DEF OpToRel
<1> HIDE DEF R
<1>3. T \subseteq Nat
      OBVIOUS
<1>5. \E x \in T : \A y \in T : ~ (<<y, x>> \in R)
      BY <1>1, <1>3, WFMin, Zenon
<1>6. PICK x \in T : \A y \in T : ~ (<<y, x>> \in R)
      BY <1>5
<1>7. ASSUME NEW y \in T PROVE x <= y
  <2>1. x \in Nat /\ y \in Nat /\ ~ (<<y, x>> \in R)
        BY <1>3, <1>6
  <2>2. ~ (y < x)
        BY <1>2, <2>1, Zenon
  <2> QED BY <2>1, <2>2
<1> QED BY <1>7

(* The first row with the URL of a row has its institution and its page, and *)
(* is the first of its own.                                                  *)
LEMMA FirstOfFacts ==
    ASSUME NEW file \in Files, NEW r \in DOMAIN Rows[file]
    PROVE  /\ FirstOf(Rows[file], r) \in DOMAIN Rows[file]
           /\ FirstOf(Rows[file], FirstOf(Rows[file], r)) = FirstOf(Rows[file], r)
           /\ FirstOf(Rows[file], r) \in Nat \ {0}
<1> DEFINE rows == Rows[file]
           same(x) == {q \in DOMAIN rows : /\ rows[q].institution = rows[x].institution
                                           /\ rows[q].page = rows[x].page}
           f == FirstOf(rows, r)
<1>1. DOMAIN rows \subseteq Nat \ {0}
      BY PilotAssumption
<1>2. same(r) \in SUBSET Nat /\ r \in same(r)
      BY <1>1
<1>3. \E x \in same(r) : \A y \in same(r) : x <= y
      BY <1>2, FirstExists
<1>4. f \in same(r)
      BY <1>3 DEF FirstOf
<1>5. same(f) = same(r)
      BY <1>4
<1>6. FirstOf(rows, f) = f
      BY <1>5 DEF FirstOf
<1> QED BY <1>1, <1>4, <1>6

-----------------------------------------------------------------------------
(* The three ways a step changes the submissions: one is stored, rows are    *)
(* linked to their page, a column of one row is set. Each keeps the rows     *)
(* well formed and riding together, and what facts, tasks and reviewers hold *)
(* of a submission.                                                          *)

(* The rows that are there keep their place, their page and their run.       *)
Keeps ==
    /\ DOMAIN submissions \subseteq DOMAIN submissions'
    /\ \A s \in DOMAIN submissions :
          /\ submissions'[s].kind = submissions[s].kind
          /\ submissions'[s].file = submissions[s].file
          /\ DOMAIN submissions'[s].claims = DOMAIN submissions[s].claims
          /\ \A r \in DOMAIN submissions[s].claims :
                submissions'[s].claims[r].institution = submissions[s].claims[r].institution

(* The table of the submissions.                                             *)
Kept == submissions \in Seq(Submissions) /\ RowsFit /\ ClaimsRideTogether

LEMMA SameKept ==
    ASSUME Kept, UNCHANGED submissions, sources \subseteq sources'
    PROVE  Kept' /\ Keeps
<1>1. RowsFit'
      BY DEF Kept, RowsFit, Physical
<1>2. ClaimsRideTogether'
      BY DEF Kept, ClaimsRideTogether
<1> QED BY <1>1, <1>2 DEF Kept, Keeps

(* Rows as they are when they are stored.                                    *)
New(claims) ==
    \A r \in DOMAIN claims :
        /\ claims[r].repeats # 0 =>
              /\ claims[r].repeats \in DOMAIN claims
              /\ claims[claims[r].repeats].repeats = 0
        /\ claims[r].state = "PENDING" /\ ~claims[r].mapped /\ claims[r].target = None

LEMMA Seqs ==
    ASSUME NEW S, NEW s \in Seq(S), NEW x \in S
    PROVE  /\ Append(s, x) \in Seq(S)
           /\ Len(Append(s, x)) = Len(s) + 1
           /\ DOMAIN Append(s, x) = 1 .. Len(s) + 1
           /\ DOMAIN s = 1 .. Len(s) /\ Len(s) \in Nat
           /\ \A i \in DOMAIN s : Append(s, x)[i] = s[i] /\ s[i] \in S
           /\ Append(s, x)[Len(s) + 1] = x
OBVIOUS

LEMMA TableFacts ==
    ASSUME NEW claims \in Tables
    PROVE  /\ DOMAIN claims \subseteq RowNumbers
           /\ claims \in [DOMAIN claims -> Claims]
           /\ \A r \in DOMAIN claims : claims[r] \in Claims
BY DEF Tables

LEMMA RowNumbersAreNumbers == RowNumbers \subseteq Nat \ {0}
BY PilotAssumption DEF RowNumbers

LEMMA StoreStep ==
    ASSUME Kept, sources' = sources,
           NEW kind \in {"LIST", "WORKBOOK", "KNOWLEDGE"}, NEW file \in Files \cup Tasks,
           NEW claims \in Tables, NEW superseded, New(claims),
           Store(kind, file, claims, superseded)
    PROVE  /\ Kept' /\ Keeps
           /\ Len(submissions) + 1 \in DOMAIN submissions'
           /\ submissions'[Len(submissions) + 1] =
                 [kind |-> kind, file |-> file, status |-> "VALIDATED", claims |-> claims]
<1> DEFINE new == [kind |-> kind, file |-> file, status |-> "VALIDATED", claims |-> claims]
           old == [s \in DOMAIN submissions |->
                      IF s \in superseded THEN [submissions[s] EXCEPT !.status = "SUPERSEDED"]
                      ELSE submissions[s]]
<1>1. new \in Submissions
      BY DEF Submissions
<1>2. \A s \in DOMAIN submissions : submissions[s] \in Submissions
      BY DEF Kept
<1>3. \A s \in DOMAIN submissions :
         /\ old[s] \in Submissions
         /\ old[s].kind = submissions[s].kind /\ old[s].file = submissions[s].file
         /\ old[s].claims = submissions[s].claims
      BY <1>2 DEF Submissions
<1>4. /\ old \in Seq(Submissions) /\ DOMAIN old = DOMAIN submissions
      /\ Len(old) = Len(submissions)
  <2>1. /\ DOMAIN submissions = 1 .. Len(submissions) /\ Len(submissions) \in Nat
        /\ old \in [1 .. Len(submissions) -> Submissions]
        BY <1>3 DEF Kept
  <2> HIDE DEF old
  <2> QED BY <2>1
<1>5. submissions' = Append(old, new)
      BY DEF Store
<1> HIDE DEF old, new
<1>6. /\ submissions' \in Seq(Submissions)
      /\ DOMAIN submissions' = DOMAIN submissions \cup {Len(submissions) + 1}
      /\ submissions'[Len(submissions) + 1] = new
      /\ \A s \in DOMAIN submissions : submissions'[s] = old[s]
      /\ Len(submissions) + 1 \notin DOMAIN submissions
  <2>1. /\ DOMAIN old = 1 .. Len(old) /\ Len(old) \in Nat
        /\ \A i \in DOMAIN old : Append(old, new)[i] = old[i]
        /\ DOMAIN Append(old, new) = 1 .. Len(old) + 1
        /\ Append(old, new)[Len(old) + 1] = new
        /\ Append(old, new) \in Seq(Submissions)
        BY <1>1, <1>4, Seqs
  <2> QED BY <2>1, <1>4, <1>5
<1>7. new.claims = claims
      BY DEF new
<1>8. Keeps
      BY <1>3, <1>6 DEF Keeps
<1>9. RowsFit'
  <2> SUFFICES ASSUME NEW s \in DOMAIN submissions', NEW r \in DOMAIN submissions'[s].claims
               PROVE  LET c == submissions'[s].claims[r]
                      IN /\ c.repeats # 0 => c.repeats \in Physical(s)'
                         /\ c.state = "VERIFIED" => c.category # Unclassified
                         /\ c.mapped => c.state = "VERIFIED"
                         /\ c.target # None => c.target \in sources'
      BY DEF RowsFit
  <2>1. CASE s = Len(submissions) + 1
        BY <2>1, <1>6, <1>7 DEF New, Physical
  <2>2. CASE s \in DOMAIN submissions
    <3>1. submissions'[s].claims = submissions[s].claims
          BY <2>2, <1>3, <1>6
    <3> QED BY <3>1, <2>2 DEF Kept, RowsFit, Physical
  <2> QED BY <2>1, <2>2, <1>6
<1>10. ClaimsRideTogether'
  <2> SUFFICES ASSUME NEW s \in DOMAIN submissions',
                      NEW q \in DOMAIN submissions'[s].claims,
                      NEW r \in DOMAIN submissions'[s].claims,
                      submissions'[s].claims[q].institution = submissions'[s].claims[r].institution,
                      submissions'[s].claims[q].page = submissions'[s].claims[r].page
               PROVE  submissions'[s].claims[q].target = submissions'[s].claims[r].target
      BY DEF ClaimsRideTogether
  <2>1. CASE s = Len(submissions) + 1
        BY <2>1, <1>6, <1>7 DEF New
  <2>2. CASE s \in DOMAIN submissions
    <3>1. submissions'[s].claims = submissions[s].claims
          BY <2>2, <1>3, <1>6
    <3> QED BY <3>1, <2>2 DEF Kept, ClaimsRideTogether
  <2> QED BY <2>1, <2>2, <1>6
<1> QED BY <1>6, <1>8, <1>9, <1>10 DEF Kept, new

LEMMA LinkStep ==
    ASSUME Kept, sources \subseteq sources', NEW scoped \in BOOLEAN,
           sources' = sources \cup {submissions[q[1]].claims[q[2]].page : q \in Registrable(scoped)},
           submissions' = Linked(Registrable(scoped))
    PROVE  Kept' /\ Keeps
<1> DEFINE chosen == Registrable(scoped)
           table(s) == submissions[s].claims
           row(s, r) == IF Rides(s, table(s)[r], chosen)
                          THEN [table(s)[r] EXCEPT !.target = table(s)[r].page]
                          ELSE table(s)[r]
           linked(s) == [r \in DOMAIN table(s) |-> row(s, r)]
<1>1. \A s \in DOMAIN submissions : submissions[s] \in Submissions /\ table(s) \in Tables
  <2>1. \A s \in DOMAIN submissions : submissions[s] \in Submissions
        BY DEF Kept
  <2> QED BY <2>1 DEF Submissions
<1>2. \A s \in DOMAIN submissions : \A r \in DOMAIN table(s) : table(s)[r] \in Claims
      BY <1>1, TableFacts
<1>3. ASSUME NEW s \in DOMAIN submissions, NEW r \in DOMAIN table(s)
      PROVE  /\ row(s, r) \in Claims
             /\ row(s, r).institution = table(s)[r].institution
             /\ row(s, r).page = table(s)[r].page
             /\ row(s, r).repeats = table(s)[r].repeats
             /\ row(s, r).state = table(s)[r].state
             /\ row(s, r).mapped = table(s)[r].mapped
             /\ row(s, r).category = table(s)[r].category
             /\ row(s, r).target = IF Rides(s, table(s)[r], chosen) THEN table(s)[r].page
                                    ELSE table(s)[r].target
  <2> HIDE DEF chosen
  <2> QED BY <1>2 DEF Claims
<1> HIDE DEF row
<1>4. ASSUME NEW s \in DOMAIN submissions
      PROVE  linked(s) \in Tables
  <2>1. DOMAIN table(s) \subseteq RowNumbers
        BY <1>1, TableFacts
  <2>2. linked(s) \in [DOMAIN table(s) -> Claims]
        BY <1>3
  <2> QED BY <2>1, <2>2 DEF Tables
<1>5. /\ DOMAIN submissions' = DOMAIN submissions
      /\ \A s \in DOMAIN submissions :
            submissions'[s] = [submissions[s] EXCEPT !.claims = linked(s)]
      BY DEF Linked, row
<1> HIDE DEF linked
<1>6. \A s \in DOMAIN submissions :
         /\ submissions'[s] \in Submissions
         /\ submissions'[s].kind = submissions[s].kind
         /\ submissions'[s].file = submissions[s].file
         /\ submissions'[s].claims = linked(s)
      BY <1>1, <1>4, <1>5 DEF Submissions
<1>7. submissions' \in Seq(Submissions)
  <2>1. /\ DOMAIN submissions = 1 .. Len(submissions) /\ Len(submissions) \in Nat
        BY DEF Kept
  <2>2. submissions' = [s \in DOMAIN submissions |-> submissions'[s]]
        BY <1>5 DEF Linked
  <2>3. submissions' \in [1 .. Len(submissions) -> Submissions]
        BY <2>1, <2>2, <1>6
  <2> QED BY <2>1, <2>3
<1>8. \A s \in DOMAIN submissions :
         /\ DOMAIN submissions'[s].claims = DOMAIN table(s)
         /\ \A r \in DOMAIN table(s) : submissions'[s].claims[r] = row(s, r)
      BY <1>6 DEF linked
<1>9. Keeps
      BY <1>3, <1>5, <1>6, <1>8 DEF Keeps
<1>10. RowsFit'
  <2> SUFFICES ASSUME NEW s \in DOMAIN submissions, NEW r \in DOMAIN table(s)
               PROVE  LET c == row(s, r)
                      IN /\ c.repeats # 0 => c.repeats \in Physical(s)'
                         /\ c.state = "VERIFIED" => c.category # Unclassified
                         /\ c.mapped => c.state = "VERIFIED"
                         /\ c.target # None => c.target \in sources'
      BY <1>5, <1>8 DEF RowsFit
  <2>1. Physical(s)' = Physical(s)
        BY <1>3, <1>8 DEF Physical
  <2>2. /\ table(s)[r].repeats # 0 => table(s)[r].repeats \in Physical(s)
        /\ table(s)[r].state = "VERIFIED" => table(s)[r].category # Unclassified
        /\ table(s)[r].mapped => table(s)[r].state = "VERIFIED"
        /\ table(s)[r].target # None => table(s)[r].target \in sources
        BY DEF Kept, RowsFit
  <2>3. Rides(s, table(s)[r], chosen) => table(s)[r].page \in sources'
        BY DEF Rides
  <2> QED BY <1>3, <2>1, <2>2, <2>3
<1>11. ClaimsRideTogether'
  <2> SUFFICES ASSUME NEW s \in DOMAIN submissions,
                      NEW q \in DOMAIN table(s), NEW r \in DOMAIN table(s),
                      row(s, q).institution = row(s, r).institution,
                      row(s, q).page = row(s, r).page
               PROVE  row(s, q).target = row(s, r).target
      BY <1>5, <1>8 DEF ClaimsRideTogether
  <2>1. table(s)[q].institution = table(s)[r].institution /\ table(s)[q].page = table(s)[r].page
        BY <1>3
  <2>2. table(s)[q].target = table(s)[r].target
        BY <2>1 DEF Kept, ClaimsRideTogether
  <2>3. Rides(s, table(s)[q], chosen) = Rides(s, table(s)[r], chosen)
        BY <2>1 DEF Rides
  <2> QED BY <1>3, <2>1, <2>2, <2>3
<1> QED BY <1>7, <1>9, <1>10, <1>11 DEF Kept

(* A reviewer sets the state, the category or the mapped mark of a row.      *)
LEMMA SetStep ==
    ASSUME Kept, sources' = sources,
           NEW s \in DOMAIN submissions, NEW r \in DOMAIN submissions[s].claims,
           NEW f \in {"state", "category", "mapped"}, NEW v,
           [submissions[s].claims[r] EXCEPT ![f] = v] \in Claims,
           LET c == [submissions[s].claims[r] EXCEPT ![f] = v]
           IN /\ c.state = "VERIFIED" => c.category # Unclassified
              /\ c.mapped => c.state = "VERIFIED",
           Set(s, r, f, v)
    PROVE  Kept' /\ Keeps
<1> DEFINE claims == submissions[s].claims
           row == [claims[r] EXCEPT ![f] = v]
           table == [claims EXCEPT ![r] = row]
<1>1. submissions[s] \in Submissions /\ claims \in Tables
  <2>1. submissions[s] \in Submissions
        BY DEF Kept
  <2> QED BY <2>1 DEF Submissions
<1>2. /\ DOMAIN claims \subseteq RowNumbers /\ claims \in [DOMAIN claims -> Claims]
      /\ claims[r] \in Claims
      BY <1>1, TableFacts
<1>3. /\ row \in Claims
      /\ row.institution = claims[r].institution /\ row.page = claims[r].page
      /\ row.repeats = claims[r].repeats /\ row.target = claims[r].target
      BY <1>2 DEF Claims
<1>4. /\ row.state = "VERIFIED" => row.category # Unclassified
      /\ row.mapped => row.state = "VERIFIED"
      OBVIOUS
<1>5. submissions' = [submissions EXCEPT ![s] = [submissions[s] EXCEPT !.claims = table]]
      BY DEF Set
<1> HIDE DEF row
<1>6. /\ table \in Tables /\ DOMAIN table = DOMAIN claims /\ table[r] = row
      /\ \A q \in DOMAIN claims : q # r => table[q] = claims[q]
      BY <1>2, <1>3 DEF Tables
<1> HIDE DEF table
<1>7. [submissions[s] EXCEPT !.claims = table] \in Submissions
      BY <1>1, <1>6 DEF Submissions
<1>8. /\ submissions' \in Seq(Submissions) /\ DOMAIN submissions' = DOMAIN submissions
      /\ submissions'[s] = [submissions[s] EXCEPT !.claims = table]
      /\ \A q \in DOMAIN submissions : q # s => submissions'[q] = submissions[q]
      BY <1>5, <1>7 DEF Kept
<1>9. /\ submissions'[s].claims = table
      /\ submissions'[s].kind = submissions[s].kind /\ submissions'[s].file = submissions[s].file
      BY <1>1, <1>8 DEF Submissions
<1>10. Keeps
      BY <1>3, <1>6, <1>8, <1>9 DEF Keeps
<1>11. RowsFit'
  <2> SUFFICES ASSUME NEW p \in DOMAIN submissions, NEW q \in DOMAIN submissions'[p].claims
               PROVE  LET c == submissions'[p].claims[q]
                      IN /\ c.repeats # 0 => c.repeats \in Physical(p)'
                         /\ c.state = "VERIFIED" => c.category # Unclassified
                         /\ c.mapped => c.state = "VERIFIED"
                         /\ c.target # None => c.target \in sources'
      BY <1>8 DEF RowsFit
  <2>1. Physical(p)' = Physical(p)
    <3>1. DOMAIN submissions'[p].claims = DOMAIN submissions[p].claims
          BY <1>6, <1>8, <1>9
    <3>2. \A x \in DOMAIN submissions[p].claims :
             submissions'[p].claims[x].repeats = submissions[p].claims[x].repeats
          BY <1>3, <1>6, <1>8, <1>9
    <3> QED BY <3>1, <3>2 DEF Physical
  <2>2. CASE p # s
        BY <2>1, <2>2, <1>8 DEF Kept, RowsFit
  <2>3. CASE p = s /\ q # r
        BY <2>1, <2>3, <1>6, <1>8, <1>9 DEF Kept, RowsFit
  <2>4. CASE p = s /\ q = r
        BY <2>1, <2>4, <1>3, <1>4, <1>6, <1>8, <1>9 DEF Kept, RowsFit
  <2> QED BY <2>2, <2>3, <2>4
<1>12. ClaimsRideTogether'
  <2> SUFFICES ASSUME NEW p \in DOMAIN submissions,
                      NEW x \in DOMAIN submissions'[p].claims,
                      NEW y \in DOMAIN submissions'[p].claims,
                      submissions'[p].claims[x].institution = submissions'[p].claims[y].institution,
                      submissions'[p].claims[x].page = submissions'[p].claims[y].page
               PROVE  submissions'[p].claims[x].target = submissions'[p].claims[y].target
      BY <1>8 DEF ClaimsRideTogether
  <2>1. \A q \in DOMAIN submissions'[p].claims :
           /\ q \in DOMAIN submissions[p].claims
           /\ submissions'[p].claims[q].institution = submissions[p].claims[q].institution
           /\ submissions'[p].claims[q].page = submissions[p].claims[q].page
           /\ submissions'[p].claims[q].target = submissions[p].claims[q].target
        BY <1>3, <1>6, <1>8, <1>9
  <2> QED BY <2>1 DEF Kept, ClaimsRideTogether
<1> QED BY <1>8, <1>10, <1>11, <1>12 DEF Kept

-----------------------------------------------------------------------------
(* The inductive invariant: besides what the properties say, a task that     *)
(* collects answers works on a submission of its own, and what a task has    *)
(* listed are rows as they are when they are stored.                         *)
Owned(t) ==
    task[t].at = "open" =>
        /\ task[t].submission \in DOMAIN submissions
        /\ submissions[task[t].submission].kind = "KNOWLEDGE"
        /\ submissions[task[t].submission].file = t

IInv ==
    /\ TypeOK
    /\ ClaimsRideTogether
    /\ FactsOfTheirOwnRun
    /\ \A t \in Tasks : Owned(t) /\ New(task[t].catalog)

FactFits(f) ==
    /\ f \in [submission : DOMAIN submissions, ref : RowNumbers,
              institution : Institutions, by : Tasks]
    /\ LET s == submissions[f.submission]
       IN /\ s.kind = "KNOWLEDGE" /\ s.file = f.by
          /\ f.ref \in DOMAIN s.claims
          /\ s.claims[f.ref].institution = f.institution

Registering ==
    reading # None =>
        /\ reading \in [claim : Nat \X Nat, category : Categories]
        /\ reading.claim[1] \in DOMAIN submissions
        /\ reading.claim[2] \in DOMAIN submissions[reading.claim[1]].claims

Plain ==
    /\ wave \subseteq Institutions /\ earned \subseteq sources /\ sources \subseteq Pages
    /\ mappings \subseteq [institution : Institutions, category : Categories, page : Pages]
    /\ decisions \in 0 .. MaxDecisions
    /\ status \in [Jobs -> {"idle", "running", "ok", "failed", "empty", "completed"}]

FactsFit == \A f \in facts : FactFits(f)

TasksFit ==
    /\ task \in [Tasks -> TaskStates]
    /\ \A t \in Tasks : Owned(t) /\ New(task[t].catalog)

LEMMA Parts == IInv <=> Kept /\ Plain /\ Registering /\ FactsFit /\ TasksFit
<1> DEFINE Fact == [submission : DOMAIN submissions, ref : RowNumbers,
                    institution : Institutions, by : Tasks]
<1>1. FactsFit <=> facts \subseteq Fact /\ FactsOfTheirOwnRun
      BY DEF FactsFit, FactFits, FactsOfTheirOwnRun
<1> QED BY <1>1 DEF IInv, TypeOK, Kept, Plain, Registering, TasksFit

(* A step that keeps the submissions, and adds only facts and changes only   *)
(* tasks that fit, keeps the invariant.                                      *)
LEMMA Rebuild ==
    ASSUME IInv, Kept', Keeps, Plain', Registering' \/ reading' = reading,
           \A f \in facts' \ facts : FactFits(f)',
           task' \in [Tasks -> TaskStates],
           \A t \in Tasks : task'[t] = task[t] \/ (Owned(t)' /\ New(task'[t].catalog))
    PROVE  IInv'
<1>1. Registering'
      BY Parts DEF Registering, Keeps
<1>2. FactsFit'
  <2> SUFFICES ASSUME NEW f \in facts PROVE FactFits(f)'
      BY DEF FactsFit
  <2>1. FactFits(f)
        BY Parts DEF FactsFit
  <2>2. f.submission \in DOMAIN submissions
        BY <2>1 DEF FactFits
  <2> QED BY <2>1, <2>2 DEF FactFits, Keeps
<1>3. TasksFit'
  <2> SUFFICES ASSUME NEW t \in Tasks PROVE Owned(t)' /\ New(task[t].catalog)'
      BY DEF TasksFit
  <2>1. Owned(t) /\ New(task[t].catalog)
        BY Parts DEF TasksFit
  <2>2. CASE task'[t] = task[t]
        BY <2>1, <2>2 DEF Owned, Keeps, New
  <2> QED BY <2>2 DEF New
<1> QED BY <1>1, <1>2, <1>3, Parts, PTL

LEMMA NothingListedYet == <<>> \in Tables /\ New(<<>>)
<1>1. <<>> \in [{} -> Claims]
      OBVIOUS
<1>2. <<>> \in Tables
      BY <1>1 DEF Tables
<1>3. DOMAIN <<>> = {}
      OBVIOUS
<1> QED BY <1>2, <1>3 DEF New

LEMMA NoTaskFits == NoTask \in TaskStates /\ New(NoTask.catalog) /\ NoTask.at = "free"
BY NothingListedYet DEF NoTask, TaskStates

LEMMA InitInv == Init => IInv
<1> SUFFICES ASSUME Init PROVE IInv
    OBVIOUS
<1>1. Kept
      BY DEF Init, PilotInit, Kept, RowsFit, ClaimsRideTogether
<1>2. Plain /\ Registering
      BY PilotAssumption DEF Init, PilotInit, Plain, Registering, Jobs
<1>3. FactsFit
      BY DEF Init, PilotInit, FactsFit
<1>4. TasksFit
      BY NoTaskFits DEF Init, Owned, TasksFit
<1> QED BY <1>1, <1>2, <1>3, <1>4, Parts

-----------------------------------------------------------------------------
(* The steps of the staging plane.                                           *)

LEMMA FileRows ==
    ASSUME NEW file \in Files, NEW r \in DOMAIN Rows[file]
    PROVE  Rows[file][r] \in [institution : Institutions, page : Pages, category : Categories]
<1> DEFINE S == [institution : Institutions, page : Pages, category : Categories]
<1>1. Rows[file] \in Seq(S)
      BY PilotAssumption
<1> HIDE DEF S
<1>2. Rows[file][r] \in S
      BY <1>1
<1> QED BY <1>2 DEF S

LEMMA ImportListStep ==
    ASSUME IInv, NEW file \in Files, NEW keepWave \in BOOLEAN, NEW keepPrevious \in BOOLEAN,
           ImportList(file, keepWave, keepPrevious), UNCHANGED jobVars
    PROVE  IInv'
<1> DEFINE rows == Rows[file]
           claims == [r \in DOMAIN rows |->
                         Claim(rows[r], IF FirstOf(rows, r) = r THEN 0 ELSE FirstOf(rows, r))]
           superseded == IF keepPrevious THEN {}
                         ELSE {s \in Validated : submissions[s].kind = "LIST"}
<1>1. \A r \in DOMAIN rows :
         rows[r] \in [institution : Institutions, page : Pages, category : Categories]
      BY FileRows
<1>2. DOMAIN rows \subseteq RowNumbers
      BY DEF RowNumbers
<1>3. ASSUME NEW r \in DOMAIN rows
      PROVE  /\ claims[r] \in Claims
             /\ claims[r].repeats = IF FirstOf(rows, r) = r THEN 0 ELSE FirstOf(rows, r)
             /\ claims[r].state = "PENDING" /\ ~claims[r].mapped /\ claims[r].target = None
      BY <1>1, <1>2, FirstOfFacts DEF Claim, Claims
<1>4. DOMAIN claims = DOMAIN rows
      OBVIOUS
<1>5. claims \in Tables
  <2>1. claims \in [DOMAIN rows -> Claims]
        BY <1>3
  <2> QED BY <2>1, <1>2 DEF Tables
<1>6. Store("LIST", file, claims, superseded)
      BY DEF ImportList
<1> HIDE DEF claims
<1>7. New(claims)
      BY <1>3, <1>4, FirstOfFacts DEF New
<1> HIDE DEF superseded
<1>8. UNCHANGED <<sources, earned, mappings, facts, reading, decisions, jobVars>>
      BY DEF ImportList
<1>9. Kept' /\ Keeps
      BY <1>5, <1>6, <1>7, <1>8, Parts, StoreStep
<1>10. wave' \subseteq Institutions
  <2>1. wave' = IF keepWave THEN wave ELSE {rows[r].institution : r \in DOMAIN rows}
        BY DEF ImportList
  <2> QED BY <2>1, <1>1, Parts DEF Plain
<1>11. Plain'
      BY <1>8, <1>10, Parts DEF Plain, jobVars
<1>12. TasksFit /\ task' = task /\ facts' = facts /\ reading' = reading
      BY <1>8, Parts DEF jobVars
<1> QED BY <1>9, <1>11, <1>12, Rebuild DEF TasksFit

LEMMA ImportWorkbookStep ==
    ASSUME IInv, NEW file \in Files, NEW keepPrevious \in BOOLEAN,
           ImportWorkbook(file, keepPrevious), UNCHANGED jobVars
    PROVE  IInv'
<1> DEFINE rows == Rows[file]
           claims == [r \in DOMAIN rows |-> Claim(rows[r], 0)]
           superseded == IF keepPrevious THEN {} ELSE Validated
<1>1. \A r \in DOMAIN rows :
         rows[r] \in [institution : Institutions, page : Pages, category : Categories]
      BY FileRows
<1>2. DOMAIN rows \subseteq RowNumbers
      BY DEF RowNumbers
<1>3. ASSUME NEW r \in DOMAIN rows
      PROVE  /\ claims[r] \in Claims
             /\ claims[r].repeats = 0
             /\ claims[r].state = "PENDING" /\ ~claims[r].mapped /\ claims[r].target = None
      BY <1>1 DEF Claim, Claims
<1>4. DOMAIN claims = DOMAIN rows
      OBVIOUS
<1>5. claims \in Tables
  <2>1. claims \in [DOMAIN rows -> Claims]
        BY <1>3
  <2> QED BY <2>1, <1>2 DEF Tables
<1>6. Store("WORKBOOK", file, claims, superseded)
      BY DEF ImportWorkbook
<1> HIDE DEF claims
<1>7. New(claims)
      BY <1>3, <1>4 DEF New
<1> HIDE DEF superseded
<1>8. UNCHANGED <<wave, sources, earned, mappings, facts, reading, decisions, jobVars>>
      BY DEF ImportWorkbook
<1>9. Kept' /\ Keeps
      BY <1>5, <1>6, <1>7, <1>8, Parts, StoreStep
<1>11. Plain'
      BY <1>8, Parts DEF Plain, jobVars
<1>12. TasksFit /\ task' = task /\ facts' = facts /\ reading' = reading
      BY <1>8, Parts DEF jobVars
<1> QED BY <1>9, <1>11, <1>12, Rebuild DEF TasksFit

(* What a registration does, by hand or by the fill job.                     *)
LEMMA RegisterStep ==
    ASSUME IInv, NEW scoped \in BOOLEAN, RegisterTargets(scoped)
    PROVE  /\ Kept' /\ Keeps /\ UNCHANGED <<wave, earned, mappings, facts, reading, decisions>>
           /\ earned' \subseteq sources' /\ sources' \subseteq Pages
<1>1. /\ sources' = sources \cup {submissions[q[1]].claims[q[2]].page : q \in Registrable(scoped)}
      /\ submissions' = Linked(Registrable(scoped))
      /\ UNCHANGED <<wave, earned, mappings, facts, reading, decisions>>
      BY DEF RegisterTargets
<1>2. Kept' /\ Keeps
      BY <1>1, Parts, LinkStep
<1>3. ASSUME NEW q \in Registrable(scoped)
      PROVE  submissions[q[1]].claims[q[2]].page \in Pages
  <2>1. PICK s \in Validated : q \in {s} \X Physical(s)
        BY DEF Registrable
  <2>2. q[1] = s /\ q[2] \in DOMAIN submissions[s].claims /\ s \in DOMAIN submissions
        BY <2>1 DEF Physical, Validated
  <2>3. submissions[s] \in Submissions
        BY <2>2, Parts DEF Kept
  <2>4. submissions[s].claims \in Tables
        BY <2>3 DEF Submissions
  <2>5. submissions[s].claims[q[2]] \in Claims
        BY <2>2, <2>4, TableFacts
  <2> QED BY <2>2, <2>5 DEF Claims
<1> QED BY <1>1, <1>2, <1>3, Parts DEF Plain

LEMMA RowFacts ==
    ASSUME IInv, NEW s \in DOMAIN submissions, NEW r \in DOMAIN submissions[s].claims
    PROVE  /\ submissions[s].claims[r] \in Claims
           /\ r \in Nat /\ s \in Nat
           /\ submissions[s].claims[r].state = "VERIFIED" =>
                 submissions[s].claims[r].category # Unclassified
           /\ submissions[s].claims[r].mapped => submissions[s].claims[r].state = "VERIFIED"
<1>1. submissions[s] \in Submissions /\ s \in Nat
      BY Parts DEF Kept
<1>2. submissions[s].claims \in Tables
      BY <1>1 DEF Submissions
<1>3. submissions[s].claims[r] \in Claims /\ r \in RowNumbers
      BY <1>2, TableFacts
<1>4. RowsFit
      BY Parts DEF Kept
<1> QED BY <1>1, <1>3, <1>4, RowNumbersAreNumbers DEF RowsFit

(* A reviewer's decision about a row.                                        *)
LEMMA TriageStep ==
    ASSUME IInv, Triage, UNCHANGED jobVars
    PROVE  IInv'
<1>0. TasksFit /\ task' = task /\ UNCHANGED status
      BY Parts DEF jobVars
<1>1. ASSUME NEW s \in DOMAIN submissions, NEW r \in DOMAIN submissions[s].claims,
             NEW state \in {"VERIFIED", "REJECTED", "NEEDS_REVIEW"}, Record(s, r, state)
      PROVE  IInv'
  <2> DEFINE c == submissions[s].claims[r]
             d == [c EXCEPT !["state"] = state]
  <2>1. /\ c \in Claims
        /\ c.mapped => c.state = "VERIFIED"
        BY RowFacts
  <2>2. /\ d \in Claims /\ d.state = state /\ d.category = c.category /\ d.mapped = c.mapped
        BY <2>1 DEF Claims
  <2>3. /\ state = "VERIFIED" => c.category # Unclassified
        /\ c.mapped => state = "VERIFIED"
        /\ Set(s, r, "state", state) /\ Act
        /\ UNCHANGED <<wave, sources, earned, mappings, facts, reading>>
        BY <1>1 DEF Record
  <2>4. Kept' /\ Keeps
        BY <2>2, <2>3, Parts, SetStep
  <2>5. Plain'
        BY <2>3, <1>0, Parts, PilotAssumption DEF Plain, Act
  <2> QED BY <1>0, <2>3, <2>4, <2>5, Rebuild DEF TasksFit
<1>2. ASSUME NEW s \in DOMAIN submissions, NEW r \in DOMAIN submissions[s].claims,
             NEW category \in Categories, Classify(s, r, category)
      PROVE  IInv'
  <2> DEFINE c == submissions[s].claims[r]
             d == [c EXCEPT !["category"] = category]
  <2>1. /\ c \in Claims
        /\ c.mapped => c.state = "VERIFIED"
        BY RowFacts
  <2>2. /\ d \in Claims /\ d.state = c.state /\ d.category = category /\ d.mapped = c.mapped
        BY <2>1 DEF Claims
  <2>3. /\ category # Unclassified
        /\ Set(s, r, "category", category) /\ Act
        /\ UNCHANGED <<wave, sources, earned, mappings, facts, reading>>
        BY <1>2 DEF Classify
  <2>4. Kept' /\ Keeps
        BY <2>1, <2>2, <2>3, Parts, SetStep
  <2>5. Plain'
        BY <2>3, <1>0, Parts, PilotAssumption DEF Plain, Act
  <2> QED BY <1>0, <2>3, <2>4, <2>5, Rebuild DEF TasksFit
<1>3. ASSUME NEW s \in DOMAIN submissions, NEW r \in DOMAIN submissions[s].claims,
             ReadClaim(s, r)
      PROVE  IInv'
  <2> DEFINE read == [claim |-> <<s, r>>, category |-> submissions[s].claims[r].category]
  <2>1. /\ reading' = read
        /\ UNCHANGED <<submissions, wave, sources, earned, mappings, facts, decisions>>
        BY <1>3 DEF ReadClaim
  <2>2. submissions[s].claims[r] \in Claims /\ r \in Nat /\ s \in Nat
        BY RowFacts
  <2>3. submissions[s].claims[r].category \in Categories
        BY <2>2 DEF Claims
  <2>4. Registering'
    <3>1. read \in [claim : Nat \X Nat, category : Categories]
          BY <2>2, <2>3
    <3>2. read.claim[1] = s /\ read.claim[2] = r
          OBVIOUS
    <3> QED BY <3>1, <3>2, <2>1 DEF Registering
  <2>5. Kept' /\ Keeps /\ Plain'
        BY <2>1, <1>0, Parts, SameKept DEF Plain
  <2> QED BY <1>0, <2>1, <2>4, <2>5, Rebuild DEF TasksFit
<1>4. CASE RegisterMapping
  <2> DEFINE s == reading.claim[1]
             r == reading.claim[2]
             c == submissions[s].claims[r]
             d == [c EXCEPT !["mapped"] = TRUE]
  <2>1. /\ reading # None /\ c.state = "VERIFIED"
        /\ mappings' = mappings \cup {Mapping(c, reading.category)}
        /\ Set(s, r, "mapped", TRUE) /\ reading' = None
        /\ UNCHANGED <<wave, sources, earned, facts, decisions>>
        BY <1>4 DEF RegisterMapping
  <2>2. /\ s \in DOMAIN submissions /\ r \in DOMAIN submissions[s].claims
        /\ reading.category \in Categories
        BY <2>1, Parts DEF Registering
  <2>3. c \in Claims /\ (c.state = "VERIFIED" => c.category # Unclassified)
        BY <2>2, RowFacts
  <2>4. /\ d \in Claims /\ d.state = c.state /\ d.category = c.category
        BY <2>3 DEF Claims
  <2>5. Kept' /\ Keeps
        BY <2>1, <2>2, <2>3, <2>4, Parts, SetStep
  <2>6. Mapping(c, reading.category) \in
            [institution : Institutions, category : Categories, page : Pages]
        BY <2>2, <2>3 DEF Mapping, Claims
  <2>7. Plain' /\ Registering'
        BY <2>1, <2>6, <1>0, Parts DEF Plain, Registering
  <2> QED BY <1>0, <2>1, <2>5, <2>7, Rebuild DEF TasksFit
<1>5. CASE RefuseMapping
  <2>1. /\ reading' = None
        /\ UNCHANGED <<submissions, wave, sources, earned, mappings, facts, decisions>>
        BY <1>5 DEF RefuseMapping
  <2>2. Kept' /\ Keeps /\ Plain' /\ Registering'
        BY <2>1, <1>0, Parts, SameKept DEF Plain, Registering
  <2> QED BY <1>0, <2>1, <2>2, Rebuild DEF TasksFit
<1> QED BY <1>1, <1>2, <1>3, <1>4, <1>5 DEF Triage

LEMMA PilotStep ==
    ASSUME IInv, PilotNext, UNCHANGED jobVars
    PROVE  IInv'
<1>1. CASE Import
      BY <1>1, ImportListStep, ImportWorkbookStep DEF Import
<1>2. CASE Triage
      BY <1>2, TriageStep
<1>3. ASSUME NEW scoped \in BOOLEAN, RegisterByHand(scoped)
      PROVE  IInv'
  <2>1. /\ Kept' /\ Keeps /\ UNCHANGED <<wave, earned, mappings, facts, reading, decisions>>
        /\ earned' \subseteq sources' /\ sources' \subseteq Pages
        BY <1>3, RegisterStep DEF RegisterByHand
  <2>2. Plain'
        BY <2>1, Parts DEF Plain, jobVars
  <2> QED BY <2>1, <2>2, Parts, Rebuild DEF TasksFit, jobVars
<1>4. ASSUME NEW p \in Pages, Earn(p)
      PROVE  IInv'
  <2>1. /\ p \in sources /\ earned' = earned \cup {p}
        /\ UNCHANGED <<submissions, wave, sources, mappings, facts, reading, decisions>>
        BY <1>4 DEF Earn
  <2>2. Kept' /\ Keeps
        BY <2>1, Parts, SameKept
  <2>3. Plain'
        BY <2>1, Parts DEF Plain, jobVars
  <2> QED BY <2>1, <2>2, <2>3, Parts, Rebuild DEF TasksFit, jobVars
<1> QED BY <1>1, <1>2, <1>3, <1>4 DEF PilotNext

-----------------------------------------------------------------------------
(* The steps of the tasks.                                                   *)

(* A step of one task that leaves the staging plane alone.                   *)
LEMMA TaskOnly ==
    ASSUME IInv, UNCHANGED pilotVars, NEW t \in Tasks, NEW x \in TaskStates,
           task' = [task EXCEPT ![t] = x], New(x.catalog),
           x.at = "open" => /\ x.submission = task[t].submission /\ task[t].at = "open",
           status' \in [Jobs -> {"idle", "running", "ok", "failed", "empty", "completed"}]
    PROVE  IInv'
<1>1. UNCHANGED <<submissions, wave, sources, earned, mappings, facts, reading, decisions>>
      BY DEF pilotVars
<1>2. Kept' /\ Keeps /\ Plain'
      BY <1>1, Parts, SameKept DEF Plain
<1>3. /\ task \in [Tasks -> TaskStates] /\ Owned(t)
      BY Parts DEF TasksFit
<1>4. /\ task' \in [Tasks -> TaskStates] /\ task'[t] = x
      /\ \A u \in Tasks : u # t => task'[u] = task[u]
      BY <1>3
<1>5. Owned(t)'
      BY <1>1, <1>3, <1>4 DEF Owned
<1>6. \A u \in Tasks : task'[u] = task[u] \/ (Owned(u)' /\ New(task'[u].catalog))
      BY <1>4, <1>5
<1>7. facts' = facts /\ reading' = reading
      BY <1>1
<1> QED BY <1>2, <1>4, <1>6, <1>7, Rebuild

LEMMA TaskFacts ==
    ASSUME IInv, NEW t \in Tasks
    PROVE  task[t] \in TaskStates /\ New(task[t].catalog) /\ Owned(t)
           /\ task \in [Tasks -> TaskStates]
           /\ status \in [Jobs -> {"idle", "running", "ok", "failed", "empty", "completed"}]
BY Parts DEF TasksFit, Plain

(* A task that ends.                                                         *)
LEMMA EndStep ==
    ASSUME IInv, UNCHANGED pilotVars, NEW t \in Tasks,
           NEW as \in {"ok", "failed", "empty", "completed"}, Ends(t, as)
    PROVE  IInv'
<1> DEFINE x == [NoTask EXCEPT !.at = "done"]
<1>1. x \in TaskStates /\ x.catalog = NoTask.catalog /\ x.at = "done"
      BY NoTaskFits DEF TaskStates
<1>2. New(x.catalog)
      BY <1>1, NoTaskFits
<1>3. task' = [task EXCEPT ![t] = x]
      BY DEF Ends
<1>4. status' \in [Jobs -> {"idle", "running", "ok", "failed", "empty", "completed"}]
      BY TaskFacts DEF Ends
<1> HIDE DEF x
<1> QED BY <1>1, <1>2, <1>3, <1>4, TaskOnly

LEMMA ListStep ==
    ASSUME IInv, NEW t \in Tasks, List(t)
    PROVE  IInv'
<1>1. PICK asked \in SUBSET Listed(NewestList) :
         /\ asked # {}
         /\ task' = [task EXCEPT ![t].at = "listed", ![t].left = asked,
                                 ![t].catalog = Copies(NewestList, asked)]
      BY DEF List
<1>2. UNCHANGED <<pilotVars, status>>
      BY DEF List
<1> DEFINE l == NewestList
           claims == submissions[l].claims
           copies == Copies(l, asked)
           x == [task[t] EXCEPT !.at = "listed", !.left = asked, !.catalog = copies]
<1>3. l \in DOMAIN submissions
  <2> DEFINE lists == {s \in DOMAIN submissions : submissions[s].kind = "LIST"}
  <2>1. lists # {}
    <3>1. NewestList # 0
          BY <1>1 DEF Listed
    <3> QED BY <3>1 DEF NewestList
  <2>2. \E s \in lists : \A q \in lists : q <= s
    <3>1. /\ DOMAIN submissions = 1 .. Len(submissions) /\ Len(submissions) \in Nat
          BY Parts DEF Kept
    <3> DEFINE below == {n \in Nat : \A q \in lists : q <= n}
    <3>2. below \in SUBSET Nat /\ Len(submissions) \in below
          BY <3>1
    <3>3. PICK n \in below : \A m \in below : n <= m
          BY <3>2, FirstExists
    <3>4. n \in lists
      <4>1. \A q \in lists : q \in Nat /\ q <= n /\ q >= 1
            BY <3>1, <3>3
      <4>2. n \in Nat /\ n # 0
            BY <2>1, <3>3, <4>1
      <4>3. ASSUME n \notin lists PROVE FALSE
        <5>1. n - 1 \in below
              BY <4>1, <4>2, <4>3
        <5> QED BY <3>3, <4>2, <5>1
      <4> QED BY <4>3
    <3> QED BY <3>3, <3>4
  <2>3. NewestList \in lists
        BY <2>1, <2>2 DEF NewestList
  <2> QED BY <2>3
<1>4. /\ claims \in Tables /\ \A r \in DOMAIN claims : claims[r] \in Claims
  <2>1. submissions[l] \in Submissions
        BY <1>3, Parts DEF Kept
  <2>2. claims \in Tables
        BY <2>1 DEF Submissions
  <2> QED BY <2>2, TableFacts
<1>5. /\ DOMAIN copies \subseteq DOMAIN claims
      /\ copies = [r \in DOMAIN copies |-> Claim(claims[r], 0)]
      BY DEF Copies, Physical
<1>6. ASSUME NEW r \in DOMAIN copies
      PROVE  /\ copies[r] \in Claims /\ copies[r].repeats = 0
             /\ copies[r].state = "PENDING" /\ ~copies[r].mapped /\ copies[r].target = None
  <2>1. copies[r] = Claim(claims[r], 0) /\ claims[r] \in Claims
        BY <1>4, <1>5
  <2> QED BY <2>1 DEF Claim, Claims
<1> HIDE DEF copies
<1>7. copies \in Tables /\ New(copies)
  <2>1. DOMAIN copies \subseteq RowNumbers
        BY <1>4, <1>5, TableFacts
  <2>2. copies \in [DOMAIN copies -> Claims]
        BY <1>5, <1>6
  <2> QED BY <2>1, <2>2, <1>6 DEF Tables, New
<1>8. asked \in SUBSET Institutions
  <2>1. ASSUME NEW i \in Listed(l) PROVE i \in Institutions
    <3>1. PICK r \in Physical(l) : i = submissions[l].claims[r].institution
          BY <2>1 DEF Listed
    <3>2. claims[r] \in Claims
          BY <1>4, <3>1 DEF Physical
    <3> QED BY <3>1, <3>2 DEF Claims
  <2> QED BY <1>1, <2>1
<1>9. x \in TaskStates /\ x.catalog = copies /\ x.at = "listed"
      BY <1>7, <1>8, TaskFacts DEF TaskStates
<1>10. task' = [task EXCEPT ![t] = x]
      BY <1>1, TaskFacts DEF copies
<1> HIDE DEF x
<1>11. status' \in [Jobs -> {"idle", "running", "ok", "failed", "empty", "completed"}]
      BY <1>2, TaskFacts
<1> QED BY <1>2, <1>7, <1>9, <1>10, <1>11, TaskOnly

LEMMA OpenStep ==
    ASSUME IInv, NEW t \in Tasks, OpenSubmission(t)
    PROVE  IInv'
<1> DEFINE claims == task[t].catalog
           n == Len(submissions) + 1
           x == [task[t] EXCEPT !.at = "open", !.submission = n, !.catalog = <<>>]
<1>1. /\ Store("KNOWLEDGE", t, claims, {})
      /\ task' = [task EXCEPT ![t].at = "open", ![t].submission = Len(submissions) + 1,
                              ![t].catalog = <<>>]
      /\ UNCHANGED <<wave, sources, earned, mappings, facts, reading, decisions, status>>
      BY DEF OpenSubmission
<1>2. task[t] \in TaskStates /\ New(claims) /\ task \in [Tasks -> TaskStates]
      BY TaskFacts
<1>3. claims \in Tables
      BY <1>2 DEF TaskStates
<1>4. /\ Kept' /\ Keeps
      /\ n \in DOMAIN submissions'
      /\ submissions'[n] = [kind |-> "KNOWLEDGE", file |-> t, status |-> "VALIDATED",
                            claims |-> claims]
      BY <1>1, <1>2, <1>3, Parts, StoreStep
<1>5. n \in Nat
      BY Parts DEF Kept
<1>6. /\ x \in TaskStates /\ x.at = "open" /\ x.submission = n /\ x.catalog = <<>>
      BY <1>2, <1>5, NothingListedYet DEF TaskStates
<1>7. task' = [task EXCEPT ![t] = x]
      BY <1>1, <1>2
<1> HIDE DEF x, n
<1>8. /\ task' \in [Tasks -> TaskStates] /\ task'[t] = x
      /\ \A u \in Tasks : u # t => task'[u] = task[u]
      BY <1>2, <1>6, <1>7
<1>9. Owned(t)' /\ New(task'[t].catalog)
      BY <1>4, <1>6, <1>8, NothingListedYet DEF Owned
<1>10. Plain'
      BY <1>1, Parts DEF Plain
<1>11. \A u \in Tasks : task'[u] = task[u] \/ (Owned(u)' /\ New(task'[u].catalog))
       BY <1>8, <1>9
<1>12. facts' = facts /\ reading' = reading
       BY <1>1
<1> QED BY <1>4, <1>8, <1>10, <1>11, <1>12, Rebuild

LEMMA AnswerStep ==
    ASSUME IInv, NEW t \in Tasks, NEW i \in Institutions, Answer(t, i)
    PROVE  IInv'
<1> DEFINE s == task[t].submission
           refs == {r \in DOMAIN submissions[s].claims : submissions[s].claims[r].institution = i}
           x == [task[t] EXCEPT !.left = task[t].left \ {i}, !.strikes = 0]
<1>1. /\ At(t, "knowledge", "open")
      /\ task' = [task EXCEPT ![t].left = @ \ {i}, ![t].strikes = 0]
      /\ UNCHANGED <<submissions, wave, sources, earned, mappings, reading, decisions, status>>
      BY DEF Answer
<1>2. PICK kept \in SUBSET refs :
         facts' = facts \cup {[submission |-> s, ref |-> r, institution |-> i, by |-> t] : r \in kept}
      BY DEF Answer
<1>3. /\ task[t] \in TaskStates /\ Owned(t) /\ New(task[t].catalog)
      /\ task \in [Tasks -> TaskStates]
      BY TaskFacts
<1>4. /\ s \in DOMAIN submissions /\ submissions[s].kind = "KNOWLEDGE" /\ submissions[s].file = t
      BY <1>1, <1>3 DEF At, Owned
<1>5. DOMAIN submissions[s].claims \subseteq RowNumbers
  <2>1. submissions[s] \in Submissions
        BY <1>4, Parts DEF Kept
  <2>2. submissions[s].claims \in Tables
        BY <2>1 DEF Submissions
  <2> QED BY <2>2, TableFacts
<1>6. Kept' /\ Keeps /\ Plain'
      BY <1>1, Parts, SameKept DEF Plain
<1>7. ASSUME NEW f \in facts' \ facts PROVE FactFits(f)'
  <2>1. PICK r \in kept : f = [submission |-> s, ref |-> r, institution |-> i, by |-> t]
        BY <1>2
  <2>2. r \in DOMAIN submissions[s].claims /\ submissions[s].claims[r].institution = i
        OBVIOUS
  <2>3. UNCHANGED submissions
        BY <1>1
  <2> HIDE DEF s, refs
  <2>4. f \in [submission : DOMAIN submissions, ref : RowNumbers,
               institution : Institutions, by : Tasks]
        BY <1>4, <1>5, <2>1, <2>2
  <2>5. f.submission = s /\ f.ref = r /\ f.institution = i /\ f.by = t
        BY <2>1
  <2> QED BY <1>4, <2>2, <2>3, <2>4, <2>5 DEF FactFits
<1>8. x \in TaskStates /\ x.at = "open" /\ x.submission = s /\ x.catalog = task[t].catalog
  <2>1. task[t].left \ {i} \in SUBSET Institutions
        BY <1>3 DEF TaskStates
  <2> QED BY <1>1, <1>3, <2>1 DEF At, TaskStates
<1>9. task' = [task EXCEPT ![t] = x]
      BY <1>1, <1>3
<1> HIDE DEF x
<1>10. /\ task' \in [Tasks -> TaskStates] /\ task'[t] = x
       /\ \A u \in Tasks : u # t => task'[u] = task[u]
       BY <1>3, <1>8, <1>9
<1>11. Owned(t)' /\ New(task'[t].catalog)
       BY <1>1, <1>3, <1>4, <1>8, <1>10 DEF Owned
<1>12. \A u \in Tasks : task'[u] = task[u] \/ (Owned(u)' /\ New(task'[u].catalog))
       BY <1>10, <1>11
<1>13. reading' = reading
       BY <1>1
<1> QED BY <1>6, <1>7, <1>10, <1>12, <1>13, Rebuild

LEMMA NoAnswerStep ==
    ASSUME IInv, NEW t \in Tasks, NEW i \in Institutions, NoAnswer(t, i)
    PROVE  IInv'
<1> DEFINE left == IF task[t].strikes + 1 >= FailureLimit THEN {} ELSE task[t].left \ {i}
           x == [task[t] EXCEPT !.strikes = task[t].strikes + 1, !.failed = TRUE, !.left = left]
<1>1. /\ At(t, "knowledge", "open") /\ UNCHANGED <<pilotVars, status>>
      /\ task' = [task EXCEPT ![t].strikes = @ + 1, ![t].failed = TRUE,
                              ![t].left = IF task[t].strikes + 1 >= FailureLimit THEN {} ELSE @ \ {i}]
      BY DEF NoAnswer
<1>2. task[t] \in TaskStates /\ New(task[t].catalog) /\ task \in [Tasks -> TaskStates]
      BY TaskFacts
<1>3. left \in SUBSET Institutions /\ task[t].strikes + 1 \in Nat
      BY <1>2 DEF TaskStates
<1>4. task' = [task EXCEPT ![t] = x]
      BY <1>1, <1>2
<1> HIDE DEF left
<1>5. x \in TaskStates /\ x.at = "open" /\ x.submission = task[t].submission
      /\ x.catalog = task[t].catalog
      BY <1>1, <1>2, <1>3 DEF At, TaskStates
<1> HIDE DEF x
<1>6. status' \in [Jobs -> {"idle", "running", "ok", "failed", "empty", "completed"}]
      BY <1>1, TaskFacts
<1>7. task[t].at = "open" /\ New(x.catalog) /\ UNCHANGED pilotVars
      BY <1>1, <1>2, <1>5 DEF At
<1> QED BY <1>4, <1>5, <1>6, <1>7, TaskOnly

LEMMA PostStep ==
    ASSUME IInv, NEW t \in Tasks, NEW job \in Jobs, Post(t, job)
    PROVE  IInv'
<1> DEFINE x == [NoTask EXCEPT !.job = job, !.at = "posted"]
<1>1. task' = [task EXCEPT ![t] = x] /\ UNCHANGED <<pilotVars, status>>
      BY DEF Post
<1>2. x \in TaskStates /\ x.catalog = NoTask.catalog /\ x.at = "posted"
      BY NoTaskFits DEF TaskStates
<1> HIDE DEF x
<1>3. New(x.catalog)
      BY <1>2, NoTaskFits
<1>4. status' \in [Jobs -> {"idle", "running", "ok", "failed", "empty", "completed"}]
      BY <1>1, TaskFacts
<1> QED BY <1>1, <1>2, <1>3, <1>4, TaskOnly

LEMMA BeginStep ==
    ASSUME IInv, NEW t \in Tasks, Begin(t)
    PROVE  IInv'
<1> DEFINE x == [task[t] EXCEPT !.at = "begun"]
<1>1. /\ task' = [task EXCEPT ![t].at = "begun"]
      /\ status' = [status EXCEPT ![task[t].job] = "running"] /\ UNCHANGED pilotVars
      BY DEF Begin
<1>2. /\ task[t] \in TaskStates /\ New(task[t].catalog) /\ task \in [Tasks -> TaskStates]
      /\ status \in [Jobs -> {"idle", "running", "ok", "failed", "empty", "completed"}]
      BY TaskFacts
<1>3. task' = [task EXCEPT ![t] = x]
      BY <1>1, <1>2
<1>4. x \in TaskStates /\ x.catalog = task[t].catalog /\ x.at = "begun"
      BY <1>2 DEF TaskStates
<1> HIDE DEF x
<1>5. status' \in [Jobs -> {"idle", "running", "ok", "failed", "empty", "completed"}]
      BY <1>1, <1>2
<1> QED BY <1>1, <1>2, <1>3, <1>4, <1>5, TaskOnly

LEMMA FillStep ==
    ASSUME IInv, NEW t \in Tasks, FillRegister(t)
    PROVE  IInv'
<1> DEFINE x == [task[t] EXCEPT !.at = "registered"]
<1>1. /\ RegisterTargets(TRUE) /\ UNCHANGED status
      /\ task' = [task EXCEPT ![t].at = "registered"]
      BY DEF FillRegister
<1>2. task[t] \in TaskStates /\ New(task[t].catalog) /\ task \in [Tasks -> TaskStates]
      BY TaskFacts
<1>3. task' = [task EXCEPT ![t] = x]
      BY <1>1, <1>2
<1>4. x \in TaskStates /\ x.catalog = task[t].catalog /\ x.at = "registered"
      BY <1>2 DEF TaskStates
<1> HIDE DEF x
<1>5. /\ Kept' /\ Keeps /\ UNCHANGED <<wave, earned, mappings, facts, reading, decisions>>
      /\ earned' \subseteq sources' /\ sources' \subseteq Pages
      BY <1>1, RegisterStep
<1>6. Plain'
      BY <1>1, <1>5, Parts DEF Plain
<1>7. /\ task' \in [Tasks -> TaskStates] /\ task'[t] = x
      /\ \A u \in Tasks : u # t => task'[u] = task[u]
      BY <1>2, <1>3, <1>4
<1>8. Owned(t)' /\ New(task'[t].catalog)
      BY <1>2, <1>4, <1>7 DEF Owned
<1>9. \A u \in Tasks : task'[u] = task[u] \/ (Owned(u)' /\ New(task'[u].catalog))
      BY <1>7, <1>8
<1> QED BY <1>5, <1>6, <1>7, <1>9, Rebuild

LEMMA RestartStep ==
    ASSUME IInv, Restart
    PROVE  IInv'
<1>1. /\ status' = [j \in Jobs |-> "idle"] /\ UNCHANGED pilotVars
      /\ task' = [t \in Tasks |-> IF task[t] = NoTask THEN NoTask ELSE [NoTask EXCEPT !.at = "done"]]
      BY DEF Restart
<1>2. UNCHANGED <<submissions, wave, sources, earned, mappings, facts, reading, decisions>>
      BY <1>1 DEF pilotVars
<1>3. Kept' /\ Keeps /\ Plain'
      BY <1>1, <1>2, Parts, SameKept DEF Plain
<1> DEFINE x == [NoTask EXCEPT !.at = "done"]
<1>4. x \in TaskStates /\ x.catalog = NoTask.catalog /\ x.at = "done"
      BY NoTaskFits DEF TaskStates
<1>5. \A u \in Tasks : task'[u] = NoTask \/ task'[u] = x
      BY <1>1
<1> HIDE DEF x
<1>6. task' \in [Tasks -> TaskStates]
      BY <1>1, <1>4, NoTaskFits DEF x
<1>7. ASSUME NEW u \in Tasks
      PROVE  Owned(u)' /\ New(task'[u].catalog)
  <2>1. task'[u].at # "open" /\ task'[u].catalog = NoTask.catalog
        BY <1>4, <1>5, NoTaskFits
  <2> QED BY <2>1, NoTaskFits DEF Owned
<1> QED BY <1>2, <1>3, <1>6, <1>7, Rebuild

LEMMA StepInv == IInv /\ [Next]_vars => IInv'
<1> SUFFICES ASSUME IInv, [Next]_vars PROVE IInv'
    OBVIOUS
<1>1. CASE PilotNext /\ UNCHANGED jobVars
      BY <1>1, PilotStep
<1>2. ASSUME NEW t \in Tasks, NEW job \in Jobs, Post(t, job) PROVE IInv'
      BY <1>2, PostStep
<1>3. ASSUME NEW t \in Tasks, TaskStep(t) PROVE IInv'
  <2>1. CASE NothingListed(t) \/ Collected(t) \/ Filled(t) \/ Fail(t)
        BY <2>1, EndStep DEF NothingListed, Collected, Filled, Fail
  <2>2. CASE Begin(t)
        BY <2>2, BeginStep
  <2>3. CASE List(t)
        BY <2>3, ListStep
  <2>4. CASE OpenSubmission(t)
        BY <2>4, OpenStep
  <2>5. ASSUME NEW i \in Institutions, Answer(t, i) \/ NoAnswer(t, i) PROVE IInv'
        BY <2>5, AnswerStep, NoAnswerStep
  <2>6. CASE FillRegister(t)
        BY <2>6, FillStep
  <2> QED BY <1>3, <2>1, <2>2, <2>3, <2>4, <2>5, <2>6 DEF TaskStep
<1>4. CASE Restart
      BY <1>4, RestartStep
<1>5. CASE UNCHANGED vars
  <2>1. /\ UNCHANGED <<submissions, wave, sources, earned, mappings, facts, reading, decisions>>
        /\ UNCHANGED <<status, task>>
        BY <1>5 DEF vars, pilotVars, jobVars
  <2>2. Kept' /\ Keeps /\ Plain'
        BY <2>1, Parts, SameKept DEF Plain
  <2> QED BY <2>1, <2>2, Parts, Rebuild DEF TasksFit
<1> QED BY <1>1, <1>2, <1>3, <1>4, <1>5 DEF Next

LEMMA Invariant == Spec => []IInv
BY InitInv, StepInv, PTL DEF Spec

-----------------------------------------------------------------------------
(* The rows have their columns, and what the CHECKs, foreign keys and the    *)
(* partial unique index of the schema say of them holds after every import,  *)
(* registration, decision and knowledge run.                                 *)
THEOREM TypeCorrect == Spec => []TypeOK
<1>1. IInv => TypeOK
      BY DEF IInv
<1> QED BY <1>1, Invariant, PTL

(* All claims of one submission on one page of an institution ride on the    *)
(* same target or on none, however the submission came to be and whoever     *)
(* registered it. Of two submissions it says nothing (ClaimsRideAcross).     *)
THEOREM PagesRideTogether == Spec => []ClaimsRideTogether
<1>1. IInv => ClaimsRideTogether
      BY DEF IInv
<1> QED BY <1>1, Invariant, PTL

(* A staged fact belongs to the submission of the run that got it and cites  *)
(* a page of its institution there, although runs and imports overlap.       *)
THEOREM RunsKeepTheirFacts == Spec => []FactsOfTheirOwnRun
<1>1. IInv => FactsOfTheirOwnRun
      BY DEF IInv
<1> QED BY <1>1, Invariant, PTL

(* A job that is shown as running has a task at work, so no stale "running"  *)
(* refuses every later POST.                                                 *)
THEOREM RunningHasATask == Spec => []ShownRunningIsRunning
<1>1. Init => ShownRunningIsRunning
      BY DEF Init, ShownRunningIsRunning, Jobs
<1>2. IInv /\ ShownRunningIsRunning /\ [Next]_vars => ShownRunningIsRunning'
  <2> SUFFICES ASSUME IInv, ShownRunningIsRunning, [Next]_vars PROVE ShownRunningIsRunning'
      OBVIOUS
  <2> DEFINE Works(t, j) == task[t].job = j /\ task[t].at \notin {"free", "posted", "done"}
  <2>1. /\ task \in [Tasks -> TaskStates]
        /\ status \in [Jobs -> {"idle", "running", "ok", "failed", "empty", "completed"}]
        BY Parts DEF TasksFit, Plain
  <2>2. ASSUME UNCHANGED status,
               \A t \in Tasks, j \in Jobs : Works(t, j) => Works(t, j)'
        PROVE  ShownRunningIsRunning'
        BY <2>2 DEF ShownRunningIsRunning, Running
  <2>3. ASSUME NEW t \in Tasks, NEW as \in {"ok", "failed", "empty", "completed"}, Ends(t, as)
        PROVE  ShownRunningIsRunning'
    <3>1. /\ status' = [status EXCEPT ![task[t].job] = as]
          /\ \A u \in Tasks : u # t => task'[u] = task[u]
          BY <2>1, <2>3 DEF Ends
    <3>2. ASSUME NEW j \in Jobs, status'[j] = "running"
          PROVE  \E u \in Tasks : Works(u, j)'
      <4>1. j # task[t].job /\ status[j] = "running"
            BY <2>1, <3>1, <3>2
      <4>2. PICK u \in Tasks : Works(u, j)
            BY <4>1 DEF ShownRunningIsRunning, Running
      <4>3. u # t
            BY <4>1, <4>2
      <4> QED BY <3>1, <4>2, <4>3
    <3> QED BY <3>2 DEF ShownRunningIsRunning, Running
  <2>4. CASE PilotNext /\ UNCHANGED jobVars
        BY <2>2, <2>4 DEF jobVars
  <2>5. ASSUME NEW t \in Tasks, NEW job \in Jobs, Post(t, job)
        PROVE  ShownRunningIsRunning'
    <3>1. /\ task[t] = NoTask /\ UNCHANGED status
          /\ \A u \in Tasks : u # t => task'[u] = task[u]
          BY <2>1, <2>5 DEF Post
    <3>2. \A j \in Jobs : ~ Works(t, j)
          BY <3>1, NoTaskFits
    <3> QED BY <2>2, <3>1, <3>2
  <2>6. ASSUME NEW t \in Tasks, Begin(t)
        PROVE  ShownRunningIsRunning'
    <3>1. /\ task'[t].job = task[t].job /\ task'[t].at = "begun"
          /\ \A u \in Tasks : u # t => task'[u] = task[u]
          /\ status' = [status EXCEPT ![task[t].job] = "running"]
          BY <2>1, <2>6 DEF Begin, TaskStates
    <3>2. ASSUME NEW j \in Jobs, status'[j] = "running"
          PROVE  \E u \in Tasks : Works(u, j)'
      <4>1. CASE j = task[t].job
            BY <3>1, <4>1
      <4>2. CASE j # task[t].job
        <5>1. status[j] = "running"
              BY <2>1, <3>1, <3>2, <4>2
        <5>2. PICK u \in Tasks : Works(u, j)
              BY <5>1 DEF ShownRunningIsRunning, Running
        <5> QED BY <3>1, <4>2, <5>2
      <4> QED BY <4>1, <4>2
    <3> QED BY <3>2 DEF ShownRunningIsRunning, Running
  <2>7. ASSUME NEW t \in Tasks,
               \/ List(t) \/ OpenSubmission(t) \/ FillRegister(t)
               \/ \E i \in Institutions : Answer(t, i) \/ NoAnswer(t, i)
        PROVE  ShownRunningIsRunning'
    <3>1. /\ UNCHANGED status
          /\ task'[t].job = task[t].job
          /\ task'[t].at \in {"listed", "open", "registered"}
          /\ \A u \in Tasks : u # t => task'[u] = task[u]
      <4>1. CASE List(t)
            BY <2>1, <4>1 DEF List, TaskStates
      <4>2. CASE OpenSubmission(t)
            BY <2>1, <4>2 DEF OpenSubmission, TaskStates
      <4>3. CASE FillRegister(t)
            BY <2>1, <4>3 DEF FillRegister, TaskStates
      <4>4. ASSUME NEW i \in Institutions, Answer(t, i)
            PROVE  /\ UNCHANGED status
                   /\ task'[t].job = task[t].job /\ task'[t].at = task[t].at
                   /\ task[t].at = "open"
                   /\ \A u \in Tasks : u # t => task'[u] = task[u]
            BY <2>1, <4>4 DEF Answer, At, TaskStates
      <4>5. ASSUME NEW i \in Institutions, NoAnswer(t, i)
            PROVE  /\ UNCHANGED status
                   /\ task'[t].job = task[t].job /\ task'[t].at = task[t].at
                   /\ task[t].at = "open"
                   /\ \A u \in Tasks : u # t => task'[u] = task[u]
            BY <2>1, <4>5 DEF NoAnswer, At, TaskStates
      <4> QED BY <2>7, <4>1, <4>2, <4>3, <4>4, <4>5
    <3> QED BY <2>2, <3>1
  <2>8. ASSUME NEW t \in Tasks,
               NothingListed(t) \/ Collected(t) \/ Filled(t) \/ Fail(t)
        PROVE  ShownRunningIsRunning'
        BY <2>3, <2>8 DEF NothingListed, Collected, Filled, Fail
  <2>9. CASE Restart
        BY <2>9 DEF Restart, ShownRunningIsRunning
  <2>10. CASE UNCHANGED vars
         BY <2>2, <2>10 DEF vars, jobVars
  <2> QED BY <2>4, <2>5, <2>6, <2>7, <2>8, <2>9, <2>10 DEF Next, TaskStep
<1> QED BY <1>1, <1>2, Invariant, PTL DEF Spec

=============================================================================
