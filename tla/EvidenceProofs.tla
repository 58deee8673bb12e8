--------------------------- MODULE EvidenceProofs ---------------------------
(***************************************************************************)
(* Theorems about the evidence: how it is stored (EvidenceStore), for any  *)
(* contents and writers and for both stores; and which of it is current    *)
(* (Observation, Extraction), for any addresses, contents, number of       *)
(* fetchers, redirects and passes.                                         *)
(***************************************************************************)
EXTENDS EvidenceStore, Extraction, WellFoundedInduction, TLAPS

----------------------------------------------------------------------------
(* Storing *)


(* The part of the types the arguments below use. *)
Shape ==
    /\ object \in [Hashes -> FileStates]
    /\ partial \in [Hashes -> FileStates]
    /\ hash \in [Writers -> Hashes]
    /\ phase \in [Writers -> {"idle", "absent", "writing", "written", "raised", "stored",
                           "existing"}]
    /\ fenced \in [Writers -> BOOLEAN]
    /\ old \subseteq Hashes /\ rows \subseteq Hashes /\ listed \subseteq Hashes

(* A step of one writer, and the hash it concerns. *)
WriterStep(w) ==
    \/ \E h \in Hashes : Begin(w, h)
    \/ PutObject(w) \/ OpenPartial(w) \/ WriteBytes(w) \/ Rename(w)
    \/ Commit(w) \/ Abort(w) \/ Crash(w)

LEMMA ShapeStep == ASSUME Hashes # {}, Shape, [StoreNext]_storeVars PROVE Shape'
  <1>1. ASSUME NEW w \in Writers, NEW h \in Hashes, Begin(w, h)
        PROVE  Shape'
    BY <1>1 DEF Begin, Shape, files, bounds
  <1>2. ASSUME NEW w \in Writers, PutObject(w) \/ OpenPartial(w) \/ WriteBytes(w)
        PROVE  Shape'
    BY <1>2 DEF PutObject, OpenPartial, WriteBytes, Shape, FileStates, bounds
  <1>3. ASSUME NEW w \in Writers, Rename(w)
        PROVE  Shape'
    BY <1>3 DEF Rename, Shape, FileStates, files, bounds
  <1>4. ASSUME NEW w \in Writers, Commit(w) \/ Abort(w) \/ Crash(w)
        PROVE  Shape'
    BY <1>4 DEF Commit, Abort, Crash, Settle, Shape, files, bounds
  <1>5. CASE Day
    BY <1>5 DEF Day, Shape
  <1>6. CASE Reconcile
    BY <1>6 DEF Reconcile, Orphans, Shape, files, writers, bounds
  <1>7. ASSUME NEW h \in Hashes, Delete(h)
        PROVE  Shape'
    BY <1>7 DEF Delete, Shape, FileStates, bounds
  <1>8. CASE UNCHANGED storeVars
    BY <1>8 DEF storeVars, files, writers, Shape
  <1> QED
    BY <1>1, <1>2, <1>3, <1>4, <1>5, <1>6, <1>7, <1>8 DEF StoreNext

LEMMA ShapeInit == ASSUME Hashes # {}, StoreInit PROVE Shape
  <1>1. (CHOOSE h \in Hashes : TRUE) \in Hashes
    OBVIOUS
  <1> QED
    BY <1>1 DEF StoreInit, Shape, FileStates

----------------------------------------------------------------------------
(* Without deletions no row dangles *)

(* What a writer is about to commit is there, and nothing is up for deletion. *)
Backed ==
    /\ \A h \in rows : object[h] # "none"
    /\ listed = {}
    /\ \A w \in Writers : phase[w] \in {"stored", "existing"} => object[hash[w]] # "none"

Grounded == Shape /\ (~deployment.deletions => Backed)

(* No object ever goes away, except by a deletion. *)
LEMMA ObjectsStay ==
    ASSUME Shape, [StoreNext]_storeVars, NEW h \in Hashes, object[h] # "none", ~Delete(h)
    PROVE  object'[h] # "none"
  <1>1. ASSUME NEW w \in Writers, WriterStep(w)
        PROVE  object'[h] # "none"
    <2>1. CASE PutObject(w) \/ OpenPartial(w) \/ WriteBytes(w)
      BY <2>1 DEF PutObject, OpenPartial, WriteBytes, Shape
    <2>2. CASE Rename(w)
      BY <2>2 DEF Rename, Shape, files
    <2>3. CASE (\E g \in Hashes : Begin(w, g)) \/ Commit(w) \/ Abort(w) \/ Crash(w)
      BY <2>3 DEF Begin, Commit, Abort, Crash, files
    <2> QED
      BY <1>1, <2>1, <2>2, <2>3 DEF WriterStep
  <1>2. CASE Day \/ Reconcile \/ UNCHANGED storeVars
    BY <1>2 DEF Day, Reconcile, storeVars, files
  <1>3. ASSUME NEW g \in Hashes, Delete(g)
        PROVE  object'[h] # "none"
    BY <1>3 DEF Delete, Shape
  <1> QED
    BY <1>1, <1>2, <1>3 DEF StoreNext, WriterStep

(* A writer that may commit after a step found its object there before, or   *)
(* has just put it there.                                                    *)
LEMMA StoredStep ==
    ASSUME Shape, [StoreNext]_storeVars, NEW w \in Writers, phase'[w] \in {"stored", "existing"},
           \A g \in Hashes : ~Delete(g)
    PROVE  \/ phase[w] = phase'[w] /\ hash'[w] = hash[w]
           \/ object'[hash'[w]] # "none"
  <1>1. ASSUME NEW v \in Writers, WriterStep(v)
        PROVE  \/ phase[w] = phase'[w] /\ hash'[w] = hash[w]
               \/ object'[hash'[w]] # "none"
    <2>1. CASE \E g \in Hashes : Begin(v, g)
      BY <2>1 DEF Begin, Shape, files
    <2>2. CASE PutObject(v)
      BY <2>2 DEF PutObject, Shape
    <2>3. CASE Rename(v)
      BY <2>3 DEF Rename, Shape, files
    <2>4. CASE OpenPartial(v) \/ WriteBytes(v)
      BY <2>4 DEF OpenPartial, WriteBytes, Shape
    <2>5. CASE Commit(v) \/ Abort(v) \/ Crash(v)
      BY <2>5 DEF Commit, Abort, Crash, Settle, Shape
    <2> QED
      BY <1>1, <2>1, <2>2, <2>3, <2>4, <2>5 DEF WriterStep
  <1>2. CASE Day \/ Reconcile \/ UNCHANGED storeVars
    BY <1>2 DEF Day, Reconcile, storeVars, writers
  <1> QED
    BY <1>1, <1>2 DEF StoreNext, WriterStep

LEMMA DeploymentStays == ASSUME [StoreNext]_storeVars PROVE deployment' = deployment
  BY DEF StoreNext, Begin, PutObject, OpenPartial, WriteBytes, Rename, Commit, Abort, Crash, Day,
         Reconcile, Delete, storeVars, bounds

LEMMA BackedStep ==
    ASSUME Shape, ~deployment.deletions, Backed, [StoreNext]_storeVars
    PROVE  Backed'
  <1>1. \A g \in Hashes : ~Delete(g)
    BY DEF Backed, Delete
  <1>2. listed' = {}
    BY <1>1 DEF Backed, StoreNext, Begin, PutObject, OpenPartial, WriteBytes, Rename, Commit,
                Abort, Crash, Day, Reconcile, storeVars
  <1>3. \A w \in Writers : phase'[w] \in {"stored", "existing"} => object'[hash'[w]] # "none"
    BY <1>1, ObjectsStay, StoredStep DEF Backed, Shape
  <1>4. \A h \in rows' : h \in rows \/ \E w \in Writers : phase[w] \in {"stored", "existing"}
                                                          /\ h = hash[w]
    BY DEF StoreNext, Begin, PutObject, OpenPartial, WriteBytes, Rename, Commit, Abort, Crash,
           Day, Reconcile, Delete, storeVars
  <1>5. \A h \in rows' : object'[h] # "none"
    <2>1. \A h \in rows' : h \in Hashes /\ object[h] # "none"
      BY <1>4 DEF Backed, Shape
    <2> QED
      BY <1>1, <2>1, ObjectsStay
  <1> QED
    BY <1>2, <1>3, <1>5 DEF Backed

(* Writing the object before the row is enough: as long as nobody deletes,   *)
(* every row names bytes that are there, whoever crashes when.               *)
THEOREM RowsAreBacked ==
    ASSUME Hashes # {}
    PROVE  StoreSpec => []NoDanglingRow
  <1>1. StoreInit => Grounded
    BY ShapeInit DEF StoreInit, Grounded, Backed
  <1>2. Grounded /\ [StoreNext]_storeVars => Grounded'
    BY ShapeStep, BackedStep, DeploymentStays DEF Grounded
  <1>3. Grounded => NoDanglingRow
    BY DEF Grounded, Backed, NoDanglingRow
  <1> QED
    BY <1>1, <1>2, <1>3, PTL DEF StoreSpec
----------------------------------------------------------------------------
(* With deletions no new object is lost *)

Fresh == {"absent", "writing", "written", "stored"}

(* What has aged, or is up for deletion, is there, so that a writer which    *)
(* begins finds it; and whoever found nothing under a hash before it aged    *)
(* has lost its lease.                                                       *)
Aged ==
    /\ \A h \in old \cup listed : object[h] # "none"
    /\ \A w \in Writers : phase[w] \in Fresh /\ ~fenced[w] => hash[w] \notin old \cup listed

Reconciled == Shape /\ Aged /\ NewObjectsSurvive

LEMMA AgedStep ==
    ASSUME Shape, Aged, [StoreNext]_storeVars
    PROVE  Aged'
  <1>1. ASSUME NEW v \in Writers, WriterStep(v)
        PROVE  Aged'
    <2>1. old' \subseteq old /\ listed' = listed
      BY <1>1 DEF WriterStep, Begin, PutObject, OpenPartial, WriteBytes, Rename, Commit, Abort,
                  Crash, files
    <2>2. \A g \in Hashes : ~Delete(g)
      BY <2>1 DEF Delete
    <2>3. \A h \in old' \cup listed' : h \in Hashes /\ object'[h] # "none"
      BY <2>1, <2>2, ObjectsStay DEF Aged, Shape
    <2>4. ASSUME NEW w \in Writers, phase'[w] \in Fresh, ~fenced'[w]
          PROVE  hash'[w] \notin old \cup listed
      <3>1. CASE \E g \in Hashes : Begin(v, g)
        BY <2>4, <3>1 DEF Begin, Aged, Shape, Fresh
      <3>2. CASE PutObject(v) \/ OpenPartial(v) \/ WriteBytes(v)
        BY <2>4, <3>2 DEF PutObject, OpenPartial, WriteBytes, Aged, Shape, Fresh
      <3>3. CASE Rename(v)
        BY <2>4, <3>3 DEF Rename, Aged, Shape, Fresh
      <3>4. CASE Commit(v) \/ Abort(v) \/ Crash(v)
        BY <2>4, <3>4 DEF Commit, Abort, Crash, Settle, Aged, Shape, Fresh
      <3> QED
        BY <1>1, <3>1, <3>2, <3>3, <3>4 DEF WriterStep
    <2> QED
      BY <2>1, <2>3, <2>4 DEF Aged
  <1>2. CASE Day
    <2>1. \A w \in Writers : phase'[w] \in Fresh => fenced'[w]
      BY <1>2 DEF Day, Fresh
    <2> QED
      BY <1>2, <2>1 DEF Day, Aged
  <1>3. CASE Reconcile
    BY <1>3 DEF Reconcile, Orphans, files, writers, Aged
  <1>4. ASSUME NEW h \in Hashes, Delete(h)
        PROVE  Aged'
    BY <1>4 DEF Delete, Aged, Shape
  <1>5. CASE UNCHANGED storeVars
    BY <1>5 DEF storeVars, files, writers, Aged
  <1> QED
    BY <1>1, <1>2, <1>3, <1>4, <1>5 DEF StoreNext, WriterStep

LEMMA SurvivalStep ==
    ASSUME Shape, Aged, NewObjectsSurvive, [StoreNext]_storeVars
    PROVE  NewObjectsSurvive'
  <1>1. CASE \A g \in Hashes : ~Delete(g)
    <2> SUFFICES ASSUME NEW w \in Writers, phase'[w] = "stored", ~fenced'[w]
                 PROVE  object'[hash'[w]] # "none"
      BY DEF NewObjectsSurvive
    <2>1. CASE phase[w] = phase'[w] /\ hash'[w] = hash[w]
      <3>1. fenced[w] = fenced'[w]
        BY <2>1, <1>1 DEF StoreNext, Begin, PutObject, OpenPartial, WriteBytes, Rename, Commit,
                   Abort, Crash, Settle, Day, Reconcile, storeVars, writers, Shape
      <3>2. object[hash[w]] # "none" /\ hash[w] \in Hashes
        BY <2>1, <3>1 DEF NewObjectsSurvive, Shape
      <3> QED
        BY <1>1, <2>1, <3>2, ObjectsStay
    <2> QED
      BY <1>1, <2>1, StoredStep
  <1>2. ASSUME NEW h \in Hashes, Delete(h)
        PROVE  NewObjectsSurvive'
    <2>1. \A w \in Writers : phase[w] = "stored" /\ ~fenced[w] => hash[w] # h
      BY <1>2 DEF Delete, Aged, Fresh
    <2> QED
      BY <1>2, <2>1 DEF Delete, NewObjectsSurvive, Shape
  <1> QED
    BY <1>1, <1>2

(* An operator who deletes what find_orphans listed, however late, takes     *)
(* away nothing that a writer with a valid lease has put there itself: an    *)
(* object on the list is older than a day, and a lease is not.               *)
THEOREM ReconciliationIsSafe ==
    ASSUME Hashes # {}
    PROVE  StoreSpec => []NewObjectsSurvive
  <1>1. StoreInit => Reconciled
    BY ShapeInit DEF StoreInit, Reconciled, Aged, NewObjectsSurvive, Fresh
  <1>2. Reconciled /\ [StoreNext]_storeVars => Reconciled'
    BY ShapeStep, AgedStep, SurvivalStep DEF Reconciled
  <1>3. Reconciled => NewObjectsSurvive
    BY DEF Reconciled
  <1> QED
    BY <1>1, <1>2, <1>3, PTL DEF StoreSpec
----------------------------------------------------------------------------
(* Objects are torn in passing only *)

(* Whoever tore a file is still writing it. On S3 nobody ever has a file     *)
(* open. The first writer that dies on the file system ends this argument.   *)
Tearing(w, h, place) == phase[w] = "writing" /\ open[w] = place /\ hash[w] = h

Attended ==
    /\ \A h \in Hashes : partial[h] = "torn" => \E w \in Writers : Tearing(w, h, "partial")
    /\ \A h \in Hashes : object[h] = "torn" => \E w \in Writers : Tearing(w, h, "object")
    /\ deployment.store = "s3" => \A w \in Writers : phase[w] \notin {"writing", "written"}

Undisturbed == deployment.store = "filesystem" => crashes = 0

(* Bytes no two writers ever wrote at once: whatever a dead writer left      *)
(* under the temporary name, the one who is there now truncated it, has it   *)
(* open under that name, and renames it whole.                               *)
Writing(w, h) == phase[w] \in {"writing", "written"} /\ hash[w] = h

Unshared(h) ==
    /\ object[h] # "torn"
    /\ \A v, w \in Writers : Writing(v, h) /\ Writing(w, h) => v = w
    /\ \A w \in Writers : Writing(w, h) =>
          IF phase[w] = "writing" THEN open[w] = "partial" ELSE partial[h] = "whole"

Careful ==
    /\ Shape
    /\ open \in [Writers -> Places]
    /\ deployment.store \in {"filesystem", "s3"} /\ crashes \in Nat
    /\ Undisturbed => Attended
    /\ \A h \in Hashes : h \notin met => Unshared(h)

LEMMA PlacesStep ==
    ASSUME Shape, open \in [Writers -> Places], [StoreNext]_storeVars
    PROVE  open' \in [Writers -> Places]
  BY DEF StoreNext, Begin, PutObject, OpenPartial, WriteBytes, Rename, Renamed, Commit, Abort, Crash,
         Settle, Day, Reconcile, Delete, storeVars, writers, files, Shape, Places

LEMMA AttendedStep ==
    ASSUME Shape, open \in [Writers -> Places], Attended, [StoreNext]_storeVars,
           \A w \in Writers : Crash(w) => deployment.store = "s3"
    PROVE  Attended'
  <1>1. deployment' = deployment
    BY DeploymentStays
  <1>2. ASSUME NEW w \in Writers, NEW h \in Hashes, Begin(w, h)
        PROVE  Attended'
    BY <1>1, <1>2 DEF Begin, Attended, Tearing, Shape, files
  <1>3. ASSUME NEW w \in Writers, PutObject(w)
        PROVE  Attended'
    BY <1>1, <1>3 DEF PutObject, Attended, Tearing, Shape
  <1>4. ASSUME NEW w \in Writers, OpenPartial(w)
        PROVE  Attended'
    BY <1>1, <1>4 DEF OpenPartial, Attended, Tearing, Shape
  <1>5. ASSUME NEW w \in Writers, WriteBytes(w)
        PROVE  Attended'
    BY <1>1, <1>5 DEF WriteBytes, Attended, Tearing, Shape
  <1>6. ASSUME NEW w \in Writers, Rename(w)
        PROVE  Attended'
    BY <1>1, <1>6 DEF Rename, Renamed, Attended, Tearing, Shape, files
  <1>7. ASSUME NEW w \in Writers, Commit(w) \/ Abort(w) \/ Crash(w)
        PROVE  Attended'
    <2>1. phase[w] # "writing"
      BY <1>7 DEF Commit, Abort, Attended
    <2> QED
      BY <1>1, <1>7, <2>1 DEF Commit, Abort, Crash, Settle, Attended, Tearing, Shape, files
  <1>8. CASE Day
    BY <1>1, <1>8 DEF Day, Attended, Tearing
  <1>9. CASE Reconcile
    BY <1>1, <1>9 DEF Reconcile, Attended, Tearing, files, writers
  <1>10. ASSUME NEW h \in Hashes, Delete(h)
         PROVE  Attended'
    BY <1>1, <1>10 DEF Delete, Attended, Tearing, Shape
  <1>11. CASE UNCHANGED storeVars
    BY <1>1, <1>11 DEF storeVars, files, writers, Attended, Tearing
  <1> QED
    BY <1>2, <1>3, <1>4, <1>5, <1>6, <1>7, <1>8, <1>9, <1>10, <1>11 DEF StoreNext

LEMMA UnsharedStep ==
    ASSUME Shape, open \in [Writers -> Places], [StoreNext]_storeVars,
           NEW h \in Hashes, h \notin met', Unshared(h)
    PROVE  Unshared(h)'
  <1>1. ASSUME NEW w \in Writers, NEW g \in Hashes, Begin(w, g)
        PROVE  Unshared(h)'
    BY <1>1 DEF Begin, Unshared, Writing, Shape, files
  <1>2. ASSUME NEW w \in Writers, PutObject(w)
        PROVE  Unshared(h)'
    BY <1>2 DEF PutObject, Unshared, Writing, Shape
  <1>3. ASSUME NEW w \in Writers, OpenPartial(w)
        PROVE  Unshared(h)'
    <2>1. hash[w] = h => \A v \in Writers \ {w} : ~Writing(v, h)
      BY <1>3 DEF OpenPartial, OthersAt, Writing, Shape
    <2> QED
      BY <1>3, <2>1 DEF OpenPartial, Unshared, Writing, Shape
  <1>4. ASSUME NEW w \in Writers, WriteBytes(w)
        PROVE  Unshared(h)'
    BY <1>4 DEF WriteBytes, Unshared, Writing, Shape
  <1>5. ASSUME NEW w \in Writers, Rename(w)
        PROVE  Unshared(h)'
    <2>1. CASE hash[w] = h
      BY <1>5, <2>1 DEF Rename, Renamed, Unshared, Writing, Shape, files
    <2>2. CASE hash[w] # h
      BY <1>5, <2>2 DEF Rename, Renamed, Unshared, Writing, Shape, files
    <2> QED
      BY <2>1, <2>2
  <1>6. ASSUME NEW w \in Writers, Commit(w) \/ Abort(w) \/ Crash(w)
        PROVE  Unshared(h)'
    BY <1>6 DEF Commit, Abort, Crash, Settle, Unshared, Writing, Shape, files
  <1>7. CASE Day \/ Reconcile \/ UNCHANGED storeVars
    BY <1>7 DEF Day, Reconcile, storeVars, files, writers, Unshared, Writing
  <1>8. ASSUME NEW g \in Hashes, Delete(g)
        PROVE  Unshared(h)'
    BY <1>8 DEF Delete, Unshared, Writing, Shape
  <1> QED
    BY <1>1, <1>2, <1>3, <1>4, <1>5, <1>6, <1>7, <1>8 DEF StoreNext

LEMMA MetGrows == ASSUME [StoreNext]_storeVars PROVE met \subseteq met'
  BY DEF StoreNext, Begin, PutObject, OpenPartial, WriteBytes, Rename, Commit, Abort, Crash, Day,
         Reconcile, Delete, storeVars

(* A temporary name and a rename are enough against crashes as long as no    *)
(* two writers of the same bytes are at work at once, whatever earlier ones  *)
(* left behind; and against any number of writers as long as none is killed. *)
THEOREM TornInPassing ==
    ASSUME Hashes # {}
    PROVE  StoreSpec => []TornIsTransient
  <1>1. StoreInit => Careful
    <2> SUFFICES ASSUME StoreInit PROVE Careful
      OBVIOUS
    <2>1. deployment.store \in {"filesystem", "s3"} /\ crashes \in Nat
      BY DeploymentAssumption DEF StoreInit
    <2>2. Attended /\ \A h \in Hashes : Unshared(h)
      BY DEF StoreInit, Attended, Unshared, Writing
    <2>3. open \in [Writers -> Places]
      BY DEF StoreInit, Places
    <2> QED
      BY <2>1, <2>2, <2>3, ShapeInit DEF Careful
  <1>2. Careful /\ [StoreNext]_storeVars => Careful'
    <2> SUFFICES ASSUME Careful, [StoreNext]_storeVars PROVE Careful'
      OBVIOUS
    <2>1. Shape' /\ open' \in [Writers -> Places] /\ deployment' = deployment
      BY ShapeStep, PlacesStep, DeploymentStays DEF Careful
    <2>2. crashes' = crashes \/ (crashes' = crashes + 1 /\ \E w \in Writers : Crash(w))
      BY DEF StoreNext, Begin, PutObject, OpenPartial, WriteBytes, Rename, Commit, Abort, Crash, Day,
             Reconcile, Delete, storeVars, bounds
    <2>3. crashes' \in Nat
      BY <2>2 DEF Careful
    <2>4. ASSUME Undisturbed'
          PROVE  Attended'
      <3>1. Undisturbed
        BY <2>1, <2>2, <2>4 DEF Undisturbed, Careful
      <3>2. \A w \in Writers : Crash(w) => deployment.store = "s3"
        BY <2>1, <2>4 DEF Undisturbed, Careful, Crash
      <3> QED
        BY <3>1, <3>2, AttendedStep DEF Careful
    <2>5. ASSUME NEW h \in Hashes, h \notin met'
          PROVE  Unshared(h)'
      <3>1. h \notin met
        BY <2>5, MetGrows
      <3>2. Unshared(h)
        BY <3>1 DEF Careful
      <3> QED
        BY <2>5, <3>2, UnsharedStep DEF Careful
    <2> QED
      BY <2>1, <2>3, <2>4, <2>5 DEF Careful
  <1>3. Careful => TornIsTransient
    <2> SUFFICES ASSUME Careful, NEW h \in Hashes, object[h] = "torn",
                        ~\E w \in Writers : phase[w] = "writing" /\ open[w] = "object" /\ hash[w] = h
                 PROVE  h \in met /\ crashes > 0
      BY DEF TornIsTransient
    <2>1. h \in met
      BY DEF Careful, Unshared
    <2>2. ~Undisturbed
      BY DEF Careful, Attended, Tearing
    <2> QED
      BY <2>1, <2>2 DEF Undisturbed, Careful
  <1> QED
    BY <1>1, <1>2, <1>3, PTL DEF StoreSpec
----------------------------------------------------------------------------
(* Observing *)

Underway == {"fetching", "answered"}

(* Each snapshot is of one successful run with a body, and a run that names  *)
(* bytes names some that are stored: those its server had in mind, unless an *)
(* address confirmed the etag of another.                                    *)
Accounted ==
    /\ \A r \in runs : r.at <= clock
    /\ \A q, r \in runs : q.at = r.at => q = r
    /\ \A r \in runs : r.status = "OK" =>
          /\ r.unchanged = NoContent
          /\ \E sn \in snapshots : sn.at = r.at
    /\ \A r \in runs : r.status = "UNCHANGED" =>
          /\ \E sn \in snapshots : sn.content = r.unchanged
          /\ ~confirmedElsewhere => r.unchanged = r.served
    /\ \A sn \in snapshots : \E r \in runs :
          r.at = sn.at /\ r.status = "OK" /\ r.served = sn.content

(* Fetches under way have their own start times, and an answer in hand that  *)
(* carries no body confirms a snapshot.                                      *)
InFlight ==
    /\ \A w \in Workers : pc[w] \in Underway =>
          /\ started[w] \in 1..clock
          /\ \A r \in runs : r.at # started[w]
          /\ \A v \in Workers : pc[v] \in Underway /\ started[v] = started[w] => v = w
    /\ \A w \in Workers : pc[w] = "answered" =>
          /\ answer[w].content \in Contents /\ answer[w].status # "none"
          /\ answer[w].status = "UNCHANGED" =>
                /\ conditional[w] # NoSnapshot
                /\ ~confirmedElsewhere => answer[w].content = conditional[w].content

(* While fetches do not overlap, whoever fetches compares with the newest    *)
(* snapshot, and will be the newest run.                                     *)
Alone ==
    ~overlapped =>
        /\ \A v, w \in Workers : pc[v] # "idle" /\ pc[w] # "idle" => v = w
        /\ \A w \in Workers : pc[w] # "idle" =>
              conditional[w] = IF snapshots = {} THEN NoSnapshot ELSE Newest(snapshots)
        /\ \A w \in Workers : pc[w] \in Underway => \A r \in runs : r.at < started[w]
        /\ \A r \in runs : r.status = "UNCHANGED" /\ (\A q \in runs : q.at <= r.at) =>
              r.unchanged = Newest(snapshots).content

Sound == ObservationTypeOK /\ Accounted /\ InFlight /\ Alone

----------------------------------------------------------------------------
(* The newest row *)

(* A bounded set of numbers has a last one: the first distance to the bound. *)
LEMMA LastExists ==
    ASSUME NEW T \in SUBSET Nat, T # {}, NEW bound \in Nat, \A y \in T : y <= bound
    PROVE  \E x \in T : \A y \in T : y <= x
  <1> DEFINE R == OpToRel(<, Nat)
             far == {bound - y : y \in T}
  <1>1. IsWellFoundedOn(R, Nat)
    BY NatLessThanWellFounded
  <1>2. \A m, n \in Nat : m < n => <<m, n>> \in R
    BY DEF OpToRel
  <1> HIDE DEF R
  <1>3. far \subseteq Nat /\ far # {}
    <2>1. \A y \in T : y \in Nat /\ bound - y \in Nat
      OBVIOUS
    <2> QED
      BY <2>1
  <1> HIDE DEF far
  <1>4. PICK n \in far : \A m \in far : ~ (<<m, n>> \in R)
    BY <1>1, <1>3, WFMin, Zenon
  <1>5. \A m \in far : ~ (m < n)
    BY <1>2, <1>3, <1>4, Zenon
  <1>6. PICK x \in T : n = bound - x
    BY DEF far
  <1>7. ASSUME NEW y \in T PROVE y <= x
    <2>1. bound - y \in far
      BY DEF far
    <2> QED
      BY <2>1, <1>5, <1>6
  <1> QED
    BY <1>7

(* Newest returns a row of the set, and none is later.                       *)
LEMMA NewestFacts ==
    ASSUME NEW some, some # {}, \A r \in some : r.at \in 1..MaxFetches
    PROVE  /\ Newest(some) \in some
           /\ \A q \in some : q.at <= Newest(some).at
  <1> DEFINE times == {r.at : r \in some}
  <1>1. times \in SUBSET Nat /\ times # {} /\ \A t \in times : t <= MaxFetches
    OBVIOUS
  <1>2. PICK t \in times : \A u \in times : u <= t
    BY <1>1, LastExists, ContentsAssumption
  <1>3. PICK r \in some : r.at = t
    BY <1>2
  <1>4. \A q \in some : q.at <= r.at
    BY <1>2, <1>3
  <1> QED
    BY <1>3, <1>4 DEF Newest

LEMMA Timed ==
    ASSUME ObservationTypeOK
    PROVE  /\ \A r \in runs : r.at \in 1..MaxFetches
           /\ \A sn \in snapshots : sn.at \in 1..MaxFetches /\ sn.content \in Contents
           /\ NoSnapshot \notin snapshots
  <1>1. NoSnapshot.content = NoContent
    BY DEF NoSnapshot
  <1> QED
    BY <1>1, ContentsAssumption DEF ObservationTypeOK, Runs, Snapshots

(* Sound is enough: what the effective evidence resolves to is what the      *)
(* newest run was served.                                                    *)
LEMMA SoundIsEnough == Sound => EffectiveIsLatestAnswer
  <1> SUFFICES ASSUME Sound, runs # {}
               PROVE  /\ ~confirmedElsewhere => Effective = Newest(runs).served
                      /\ ~overlapped => ExtractionTarget.content = Effective
    BY DEF EffectiveIsLatestAnswer
  <1> DEFINE run == Newest(runs)
             body == {sn \in snapshots : run.unchanged = NoContent \/ sn.content = run.unchanged}
  <1>1. /\ run \in runs /\ \A q \in runs : q.at <= run.at
        /\ run.at \in Nat /\ run.status \in {"OK", "UNCHANGED"}
    BY Timed, NewestFacts DEF Sound, ObservationTypeOK, Runs
  <1>2. Effective = IF body = {} THEN NoContent ELSE Newest(body).content
    BY DEF Effective
  <1>3. body # {} => Newest(body) \in body /\ \A q \in body : q.at <= Newest(body).at
    BY Timed, NewestFacts DEF Sound
  <1>4. \A sn \in snapshots : sn.at \in Nat /\ sn.content \in Contents
    BY Timed DEF Sound
  <1> HIDE DEF run, body
  <1>5. CASE run.status = "OK"
    <2>1. run.unchanged = NoContent /\ \E sn \in snapshots : sn.at = run.at
      BY <1>1, <1>5 DEF Sound, Accounted
    <2>2. body = snapshots /\ body # {}
      BY <2>1 DEF body
    <2>3. Newest(body).at = run.at
      <3>1. Newest(body).at >= run.at
        BY <2>1, <2>2, <1>3, <1>4
      <3>2. PICK r \in runs : r.at = Newest(body).at
        BY <2>2, <1>3 DEF Sound, Accounted
      <3> QED
        BY <3>1, <3>2, <1>1, <1>3, <1>4, <2>2
    <2>4. PICK r \in runs : r.at = Newest(body).at /\ r.served = Newest(body).content
      BY <2>2, <1>3 DEF Sound, Accounted
    <2>5. r = run
      BY <2>3, <2>4, <1>1 DEF Sound, Accounted
    <2> QED
      BY <2>2, <2>4, <2>5, <1>2 DEF run, ExtractionTarget
  <1>6. CASE run.status = "UNCHANGED"
    <2>1. /\ \E sn \in snapshots : sn.content = run.unchanged
          /\ ~confirmedElsewhere => run.unchanged = run.served
      BY <1>1, <1>6 DEF Sound, Accounted
    <2>2. body # {} /\ \A sn \in body : sn.content = run.unchanged
      BY <2>1, <1>4, ContentsAssumption DEF body
    <2>3. Effective = run.unchanged
      BY <2>2, <1>2, <1>3
    <2>4. ~overlapped => Newest(snapshots).content = run.unchanged
      BY <1>1, <1>6 DEF Sound, Alone
    <2> QED
      BY <2>1, <2>3, <2>4 DEF run, ExtractionTarget
  <1> QED
    BY <1>1, <1>5, <1>6

----------------------------------------------------------------------------
(* Types *)

LEMMA FinishFacts ==
    ASSUME ObservationTypeOK, NEW w \in Workers, Finish(w), snapshots \subseteq snapshots',
           clock' = clock
    PROVE  /\ pc' \in [Workers -> {"idle", "waiting", "fetching", "answered"}]
           /\ conditional' \in [Workers -> snapshots' \cup {NoSnapshot}]
           /\ started' \in [Workers -> 0..MaxFetches]
           /\ visit' \in [Workers -> [url : Urls, hop : 0..MaxRedirects]]
           /\ answer' \in [Workers -> Answers]
  <1>1. AtHome \in [url : Urls, hop : 0..MaxRedirects]
    BY ContentsAssumption DEF AtHome
  <1>2. NoAnswer \in Answers
    BY ContentsAssumption DEF NoAnswer, Answers
  <1>3. 0 \in 0..MaxFetches
    BY ContentsAssumption
  <1> QED
    BY <1>1, <1>2, <1>3 DEF Finish, ObservationTypeOK

LEMMA TypesStep ==
    ASSUME ObservationTypeOK, InFlight, [ObservationNext]_observationVars
    PROVE  ObservationTypeOK'
  <1> USE DEF ObservationTypeOK
  <1>1. ASSUME NEW new \in Sites, Publish(new) PROVE ObservationTypeOK'
    BY <1>1 DEF Publish, fetches, history
  <1>2. ASSUME NEW w \in Workers, ReadValidators(w) PROVE ObservationTypeOK'
    <2>1. (IF snapshots = {} THEN NoSnapshot ELSE Newest(snapshots)) \in snapshots \cup {NoSnapshot}
      BY Timed, NewestFacts
    <2> HIDE DEF ObservationTypeOK
    <2>2. conditional' \in [Workers -> snapshots' \cup {NoSnapshot}]
      BY <1>2, <2>1 DEF ReadValidators, ObservationTypeOK
    <2> QED
      BY <1>2, <2>2 DEF ReadValidators, ObservationTypeOK
  <1>3. ASSUME NEW w \in Workers, StartFetch(w) PROVE ObservationTypeOK'
    <2>1. clock + 1 \in 0..MaxFetches
      BY <1>3, ContentsAssumption DEF StartFetch
    <2> QED
      BY <1>3, <2>1 DEF StartFetch, history
  <1>4. ASSUME NEW w \in Workers, Follow(w) PROVE ObservationTypeOK'
    <2>1. visit[w].hop < MaxRedirects =>
             [url |-> site[visit[w].url], hop |-> visit[w].hop + 1]
                \in [url : Urls, hop : 0..MaxRedirects]
      BY <1>4, ContentsAssumption DEF Follow
    <2>2. CASE visit[w].hop < MaxRedirects
      BY <1>4, <2>1, <2>2 DEF Follow, history
    <2>3. CASE ~(visit[w].hop < MaxRedirects)
      BY <1>4, <2>3, FinishFacts DEF Follow, history
    <2> QED
      BY <2>2, <2>3
  <1>5. ASSUME NEW w \in Workers, Serve(w) PROVE ObservationTypeOK'
    <2>1. AtHome \in [url : Urls, hop : 0..MaxRedirects]
      BY ContentsAssumption DEF AtHome
    <2>2. visit[w].url \in Urls /\ site[visit[w].url] \in Contents
      BY <1>5 DEF Serve
    <2>3. [status |-> IF Confirms(visit[w].url, conditional[w]) THEN "UNCHANGED" ELSE "OK",
           from |-> visit[w].url, content |-> site[visit[w].url]] \in Answers
      BY <2>2 DEF Answers
    <2>4. answer' \in [Workers -> Answers] /\ visit' \in [Workers -> [url : Urls, hop : 0..MaxRedirects]]
      BY <1>5, <2>1, <2>3 DEF Serve
    <2>5. confirmedElsewhere' \in BOOLEAN
      BY <1>5 DEF Serve
    <2> QED
      BY <1>5, <2>4, <2>5 DEF Serve
  <1>6. ASSUME NEW w \in Workers, Record(w) PROVE ObservationTypeOK'
    <2> DEFINE run == [at |-> started[w], status |-> answer[w].status,
                       served |-> answer[w].content,
                       unchanged |-> IF answer[w].status = "UNCHANGED" THEN conditional[w].content
                                     ELSE NoContent]
               snapshot == [at |-> started[w], from |-> answer[w].from,
                            content |-> answer[w].content]
    <2>1. /\ started[w] \in 1..MaxFetches
          /\ answer[w].content \in Contents /\ answer[w].status \in {"OK", "UNCHANGED"}
          /\ answer[w].from \in Urls
      BY <1>6 DEF Record, InFlight, Underway, Answers
    <2>2. conditional[w].content \in Contents \cup {NoContent}
      BY Timed DEF NoSnapshot
    <2>3. run \in Runs
      BY <2>1, <2>2 DEF Runs
    <2>4. snapshot \in Snapshots
      BY <2>1 DEF Snapshots
    <2>5. /\ runs' = runs \cup {run} /\ snapshots' \in {snapshots, snapshots \cup {snapshot}}
          /\ UNCHANGED <<site, clock, history>> /\ Finish(w)
      BY <1>6 DEF Record
    <2> HIDE DEF run, snapshot
    <2> QED
      BY <2>3, <2>4, <2>5, FinishFacts DEF history
  <1>7. ASSUME NEW w \in Workers, Unreachable(w) \/ Lose(w) PROVE ObservationTypeOK'
    BY <1>7, FinishFacts DEF Unreachable, Lose, history
  <1>8. CASE UNCHANGED observationVars
    BY <1>8 DEF observationVars, fetches, history
  <1> QED
    BY <1>1, <1>2, <1>3, <1>4, <1>5, <1>6, <1>7, <1>8 DEF ObservationNext

----------------------------------------------------------------------------
(* Runs and snapshots *)

(* What is recorded: the run, and for a body the snapshot, under a start     *)
(* time that no run has.                                                     *)
LEMMA RecordFacts ==
    ASSUME ObservationTypeOK, InFlight, NEW w \in Workers, Record(w)
    PROVE  \E run \in Runs, snapshot \in Snapshots :
              /\ runs' = runs \cup {run} /\ run.at = started[w] /\ run.at \in 1..clock
              /\ run.status = answer[w].status /\ run.served = answer[w].content
              /\ \A r \in runs : r.at # run.at
              /\ \/ /\ run.status = "OK" /\ run.unchanged = NoContent
                    /\ snapshots' = snapshots \cup {snapshot}
                    /\ snapshot.at = run.at /\ snapshot.content = run.served
                 \/ /\ run.status = "UNCHANGED" /\ snapshots' = snapshots
                    /\ conditional[w] \in snapshots /\ run.unchanged = conditional[w].content
                    /\ ~confirmedElsewhere => run.unchanged = run.served
  <1> DEFINE run == [at |-> started[w], status |-> answer[w].status,
                     served |-> answer[w].content,
                     unchanged |-> IF answer[w].status = "UNCHANGED" THEN conditional[w].content
                                   ELSE NoContent]
             snapshot == [at |-> started[w], from |-> answer[w].from,
                          content |-> answer[w].content]
  <1>1. /\ started[w] \in 1..clock /\ started[w] \in 1..MaxFetches
        /\ answer[w].content \in Contents /\ answer[w].status \in {"OK", "UNCHANGED"}
        /\ answer[w].from \in Urls
        /\ conditional[w] \in snapshots \cup {NoSnapshot}
        /\ \A r \in runs : r.at # started[w]
    BY DEF Record, InFlight, Underway, Answers, ObservationTypeOK
  <1>2. answer[w].status = "UNCHANGED" =>
           /\ conditional[w] \in snapshots
           /\ ~confirmedElsewhere => answer[w].content = conditional[w].content
    BY <1>1 DEF InFlight, Record
  <1>3. conditional[w].content \in Contents \cup {NoContent}
    BY <1>1, Timed DEF NoSnapshot
  <1>4. run \in Runs /\ snapshot \in Snapshots
    BY <1>1, <1>3 DEF Runs, Snapshots
  <1>5. /\ runs' = runs \cup {run}
        /\ snapshots' = IF answer[w].status = "OK" THEN snapshots \cup {snapshot} ELSE snapshots
    BY DEF Record
  <1>6. /\ run.at = started[w] /\ run.status = answer[w].status /\ run.served = answer[w].content
        /\ run.unchanged = IF answer[w].status = "UNCHANGED" THEN conditional[w].content
                           ELSE NoContent
        /\ snapshot.at = started[w] /\ snapshot.content = answer[w].content
    OBVIOUS
  <1> HIDE DEF run, snapshot
  <1>7. CASE answer[w].status = "OK"
    BY <1>1, <1>4, <1>5, <1>6, <1>7
  <1>8. CASE answer[w].status = "UNCHANGED"
    BY <1>1, <1>2, <1>4, <1>5, <1>6, <1>8
  <1> QED
    BY <1>1, <1>7, <1>8

LEMMA AccountedStays ==
    ASSUME ObservationTypeOK, Accounted, UNCHANGED <<runs, snapshots>>,
           clock' \in {clock, clock + 1}, confirmedElsewhere => confirmedElsewhere'
    PROVE  Accounted'
  <1>1. \A r \in runs : r.at \in Nat /\ clock \in Nat
    BY Timed, ContentsAssumption DEF ObservationTypeOK
  <1> QED
    BY <1>1 DEF Accounted

LEMMA AccountedStep ==
    ASSUME ObservationTypeOK, InFlight, Accounted, [ObservationNext]_observationVars
    PROVE  Accounted'
  <1>1. ASSUME NEW w \in Workers, Record(w) PROVE Accounted'
    <2>1. clock' = clock /\ confirmedElsewhere' = confirmedElsewhere /\ clock \in Nat
      BY <1>1, ContentsAssumption DEF Record, history, ObservationTypeOK
    <2>2. PICK run \in Runs, snapshot \in Snapshots :
              /\ runs' = runs \cup {run} /\ run.at = started[w] /\ run.at \in 1..clock
              /\ run.status = answer[w].status /\ run.served = answer[w].content
              /\ \A r \in runs : r.at # run.at
              /\ \/ /\ run.status = "OK" /\ run.unchanged = NoContent
                    /\ snapshots' = snapshots \cup {snapshot}
                    /\ snapshot.at = run.at /\ snapshot.content = run.served
                 \/ /\ run.status = "UNCHANGED" /\ snapshots' = snapshots
                    /\ conditional[w] \in snapshots /\ run.unchanged = conditional[w].content
                    /\ ~confirmedElsewhere => run.unchanged = run.served
      BY <1>1, RecordFacts
    <2>3. \A r \in runs' : r.at <= clock'
      BY <2>1, <2>2 DEF Accounted
    <2>4. \A q, r \in runs' : q.at = r.at => q = r
      BY <2>2 DEF Accounted
    <2>5. \A r \in runs' : r.status = "OK" =>
             r.unchanged = NoContent /\ \E sn \in snapshots' : sn.at = r.at
      BY <2>2 DEF Accounted
    <2>6. \A r \in runs' : r.status = "UNCHANGED" =>
             /\ \E sn \in snapshots' : sn.content = r.unchanged
             /\ ~confirmedElsewhere' => r.unchanged = r.served
      BY <2>1, <2>2 DEF Accounted
    <2>7. \A sn \in snapshots' : \E r \in runs' :
             r.at = sn.at /\ r.status = "OK" /\ r.served = sn.content
      BY <2>2 DEF Accounted
    <2> QED
      BY <2>3, <2>4, <2>5, <2>6, <2>7 DEF Accounted
  <1>2. ASSUME NEW w \in Workers, Serve(w) PROVE Accounted'
    BY <1>2, AccountedStays DEF Serve
  <1>3. ASSUME NEW w \in Workers, ReadValidators(w) \/ StartFetch(w) PROVE Accounted'
    BY <1>3, AccountedStays DEF ReadValidators, StartFetch, history
  <1>4. ASSUME NEW w \in Workers, Follow(w) \/ Unreachable(w) \/ Lose(w) PROVE Accounted'
    BY <1>4, AccountedStays DEF Follow, Unreachable, Lose, history
  <1>5. ASSUME NEW new \in Sites, Publish(new) PROVE Accounted'
    BY <1>5, AccountedStays DEF Publish, history
  <1>6. CASE UNCHANGED observationVars
    BY <1>6, AccountedStays DEF observationVars, history
  <1> QED
    BY <1>1, <1>2, <1>3, <1>4, <1>5, <1>6 DEF ObservationNext
----------------------------------------------------------------------------
(* Fetches under way *)

LEMMA InFlightStep ==
    ASSUME ObservationTypeOK, Accounted, InFlight, [ObservationNext]_observationVars
    PROVE  InFlight'
  <1>t. /\ clock \in Nat /\ \A r \in runs : r.at \in Nat /\ r.at <= clock
        /\ \A w \in Workers : pc[w] \in Underway => started[w] \in 1..clock
    BY Timed, ContentsAssumption DEF ObservationTypeOK, Accounted, InFlight
  <1>1. ASSUME NEW new \in Sites, Publish(new) PROVE InFlight'
    BY <1>1 DEF Publish, fetches, history, InFlight
  <1>2. ASSUME NEW w \in Workers, ReadValidators(w) PROVE InFlight'
    BY <1>2 DEF ReadValidators, InFlight, Underway, ObservationTypeOK
  <1>3. ASSUME NEW w \in Workers, StartFetch(w) PROVE InFlight'
    BY <1>3, <1>t DEF StartFetch, history, InFlight, Underway, ObservationTypeOK
  <1>4. ASSUME NEW w \in Workers, Finish(w), UNCHANGED <<clock, runs, confirmedElsewhere>>
        PROVE  InFlight'
    BY <1>4 DEF Finish, InFlight, Underway, ObservationTypeOK
  <1>5. ASSUME NEW w \in Workers, Follow(w) PROVE InFlight'
    BY <1>4, <1>5 DEF Follow, history, InFlight
  <1>6. ASSUME NEW w \in Workers, Unreachable(w) \/ Lose(w) PROVE InFlight'
    BY <1>4, <1>6 DEF Unreachable, Lose, history
  <1>7. ASSUME NEW w \in Workers, Serve(w) PROVE InFlight'
    <2> DEFINE u == visit[w].url
    <2>1. u \in Urls /\ site[u] \in Contents /\ pc[w] = "fetching"
      BY <1>7 DEF Serve, ObservationTypeOK
    <2>2. Confirms(u, conditional[w]) =>
             /\ conditional[w] # NoSnapshot
             /\ u = conditional[w].from => site[u] = conditional[w].content
      <3>1. conditional[w] # NoSnapshot => conditional[w].content \in Contents
        BY Timed DEF ObservationTypeOK
      <3> QED
        BY <2>1, <3>1, TagsAssumption DEF Confirms
    <2>3. /\ answer'[w].content = site[u] /\ answer'[w].status # "none"
          /\ answer'[w].status = "UNCHANGED" => Confirms(u, conditional[w])
      BY <1>7 DEF Serve, ObservationTypeOK
    <2>4. \A v \in Workers \ {w} : answer'[v] = answer[v] /\ pc'[v] = pc[v]
      BY <1>7 DEF Serve, ObservationTypeOK
    <2>5. /\ confirmedElsewhere' = \/ confirmedElsewhere
                                   \/ Confirms(u, conditional[w]) /\ u # conditional[w].from
          /\ UNCHANGED <<conditional, started, runs, clock>>
          /\ pc' = [pc EXCEPT ![w] = "answered"]
      BY <1>7 DEF Serve
    <2> HIDE DEF u
    <2>6. \A v \in Workers : pc'[v] \in Underway <=> pc[v] \in Underway
      BY <2>1, <2>5 DEF ObservationTypeOK, Underway
    <2>7. ASSUME NEW v \in Workers, pc'[v] = "answered"
          PROVE  /\ answer'[v].content \in Contents /\ answer'[v].status # "none"
                 /\ answer'[v].status = "UNCHANGED" =>
                       /\ conditional'[v] # NoSnapshot
                       /\ ~confirmedElsewhere' => answer'[v].content = conditional'[v].content
      <3>1. CASE v = w
        BY <3>1, <2>1, <2>2, <2>3, <2>5
      <3>2. CASE v # w
        BY <3>2, <2>4, <2>5, <2>7 DEF InFlight
      <3> QED
        BY <3>1, <3>2
    <2> QED
      BY <2>5, <2>6, <2>7 DEF InFlight
  <1>8. ASSUME NEW w \in Workers, Record(w) PROVE InFlight'
    <2>1. PICK run : runs' = runs \cup {run} /\ run.at = started[w]
      BY <1>8, RecordFacts
    <2>2. /\ UNCHANGED <<clock, confirmedElsewhere>> /\ Finish(w) /\ pc[w] \in Underway
      BY <1>8 DEF Record, history, Underway
    <2> QED
      BY <2>1, <2>2 DEF Finish, InFlight, Underway, ObservationTypeOK
  <1>9. CASE UNCHANGED observationVars
    BY <1>9 DEF observationVars, fetches, history, InFlight
  <1> QED
    BY <1>1, <1>2, <1>3, <1>5, <1>6, <1>7, <1>8, <1>9 DEF ObservationNext

----------------------------------------------------------------------------
(* One fetch after the other *)

(* As long as no fetch has begun during another, nothing changes between the *)
(* reading of the validators and the recording but by the one fetch itself.  *)
LEMMA AloneStays ==
    ASSUME Alone, NEW w \in Workers, ObservationTypeOK, UNCHANGED <<runs, snapshots, overlapped>>,
           \A v \in Workers \ {w} : UNCHANGED <<pc[v], conditional[v], started[v]>>,
           \/ pc'[w] = "idle"
           \/ /\ pc[w] # "idle" /\ UNCHANGED conditional[w]
              /\ pc'[w] \in Underway => \A r \in runs : r.at < started'[w]
    PROVE  Alone'
  <1> SUFFICES ASSUME ~overlapped PROVE Alone'
    BY DEF Alone
  <1>1. \A v \in Workers : pc'[v] # "idle" => pc[v] # "idle" /\ conditional'[v] = conditional[v]
    OBVIOUS
  <1>2. \A v, u \in Workers : pc'[v] # "idle" /\ pc'[u] # "idle" => v = u
    BY <1>1 DEF Alone
  <1>3. \A v \in Workers : pc'[v] # "idle" =>
           conditional'[v] = IF snapshots' = {} THEN NoSnapshot ELSE Newest(snapshots')
    BY <1>1 DEF Alone
  <1>4. \A v \in Workers : pc'[v] \in Underway => \A r \in runs' : r.at < started'[v]
    BY DEF Alone, Underway
  <1> QED
    BY <1>2, <1>3, <1>4 DEF Alone

LEMMA AloneStep ==
    ASSUME ObservationTypeOK, Accounted, InFlight, Alone, [ObservationNext]_observationVars
    PROVE  Alone'
  <1>t. /\ clock \in Nat /\ \A r \in runs : r.at \in Nat /\ r.at <= clock
        /\ \A w \in Workers : pc[w] \in Underway => started[w] \in 1..clock
    BY Timed, ContentsAssumption DEF ObservationTypeOK, Accounted, InFlight
  <1>f. ASSUME NEW w \in Workers, Finish(w), UNCHANGED <<runs, snapshots, overlapped>>
        PROVE  Alone'
    BY <1>f, AloneStays DEF Finish, ObservationTypeOK
  <1>1. ASSUME NEW w \in Workers, ReadValidators(w) PROVE Alone'
    <2> SUFFICES ASSUME ~overlapped' PROVE Alone'
      BY DEF Alone
    <2>1. ~overlapped /\ \A v \in Workers : pc[v] = "idle"
      BY <1>1 DEF ReadValidators
    <2>2. /\ \A v \in Workers \ {w} : pc'[v] = "idle"
          /\ pc'[w] = "waiting"
          /\ conditional'[w] = IF snapshots = {} THEN NoSnapshot ELSE Newest(snapshots)
          /\ UNCHANGED <<runs, snapshots>>
      BY <1>1, <2>1 DEF ReadValidators, ObservationTypeOK
    <2> QED
      BY <2>1, <2>2 DEF Alone, Underway
  <1>2. ASSUME NEW w \in Workers, StartFetch(w) PROVE Alone'
    <2>1. /\ started'[w] = clock + 1 /\ pc[w] = "waiting"
          /\ \A v \in Workers \ {w} : UNCHANGED <<pc[v], conditional[v], started[v]>>
          /\ UNCHANGED <<runs, snapshots, overlapped>> /\ UNCHANGED conditional[w]
      BY <1>2 DEF StartFetch, history, ObservationTypeOK
    <2>2. \A r \in runs : r.at < started'[w]
      BY <2>1, <1>t
    <2> QED
      BY <2>1, <2>2, AloneStays
  <1>3. ASSUME NEW w \in Workers, Serve(w) PROVE Alone'
    <2>1. /\ pc[w] = "fetching"
          /\ \A v \in Workers \ {w} : UNCHANGED <<pc[v], conditional[v], started[v]>>
          /\ UNCHANGED <<runs, snapshots, overlapped>> /\ UNCHANGED <<conditional[w], started[w]>>
      BY <1>3 DEF Serve, ObservationTypeOK
    <2>2. ~overlapped => \A r \in runs : r.at < started'[w]
      BY <2>1 DEF Alone, Underway
    <2>3. CASE overlapped
      BY <2>1, <2>3 DEF Alone
    <2>4. CASE ~overlapped
      BY <2>1, <2>2, <2>4, AloneStays
    <2> QED
      BY <2>3, <2>4
  <1>4. ASSUME NEW w \in Workers, Follow(w) PROVE Alone'
    <2>1. CASE Finish(w)
      BY <1>4, <2>1, <1>f DEF Follow, history
    <2>2. CASE UNCHANGED <<pc, conditional, started, answer>>
      BY <1>4, <2>2 DEF Follow, history, Alone
    <2> QED
      BY <1>4, <2>1, <2>2 DEF Follow
  <1>5. ASSUME NEW w \in Workers, Unreachable(w) \/ Lose(w) PROVE Alone'
    BY <1>5, <1>f DEF Unreachable, Lose, history
  <1>6. ASSUME NEW w \in Workers, Record(w) PROVE Alone'
    <2> SUFFICES ASSUME ~overlapped PROVE Alone'
      BY <1>6 DEF Record, history, Alone
    <2>1. PICK run \in Runs, snapshot \in Snapshots :
              /\ runs' = runs \cup {run} /\ run.at = started[w] /\ run.at \in 1..clock
              /\ \/ run.status = "OK"
                 \/ /\ run.status = "UNCHANGED" /\ snapshots' = snapshots
                    /\ conditional[w] \in snapshots /\ run.unchanged = conditional[w].content
      BY <1>6, RecordFacts
    <2>2. pc[w] = "answered" /\ Finish(w)
      BY <1>6 DEF Record
    <2>3. /\ \A v \in Workers : pc'[v] = "idle"
          /\ \A r \in runs : r.at < run.at
          /\ snapshots # {} => conditional[w] = Newest(snapshots)
      BY <2>1, <2>2 DEF Finish, Alone, Underway, ObservationTypeOK
    <2>4. ASSUME NEW r \in runs', r.status = "UNCHANGED", \A q \in runs' : q.at <= r.at
          PROVE  r.unchanged = Newest(snapshots').content
      <3>1. r = run
        BY <2>1, <2>3, <2>4, <1>t
      <3> QED
        BY <2>1, <2>3, <2>4, <3>1
    <2> QED
      BY <2>3, <2>4 DEF Alone, Underway
  <1>7. ASSUME NEW new \in Sites, Publish(new) PROVE Alone'
    BY <1>7 DEF Publish, fetches, history, Alone
  <1>8. CASE UNCHANGED observationVars
    BY <1>8 DEF observationVars, fetches, history, Alone
  <1> QED
    BY <1>1, <1>2, <1>3, <1>4, <1>5, <1>6, <1>7, <1>8 DEF ObservationNext
----------------------------------------------------------------------------
(* The theorems *)

LEMMA SoundInit == Init => Sound
  <1> SUFFICES ASSUME Init PROVE Sound
    OBVIOUS
  <1>1. AtHome \in [url : Urls, hop : 0..MaxRedirects] /\ NoAnswer \in Answers
    BY ContentsAssumption DEF AtHome, NoAnswer, Answers
  <1>2. ObservationTypeOK
    <2>1. {overlapped, confirmedElsewhere} \subseteq BOOLEAN
      BY DEF Init
    <2>2. /\ visit \in [Workers -> [url : Urls, hop : 0..MaxRedirects]]
          /\ answer \in [Workers -> Answers]
          /\ conditional \in [Workers -> snapshots \cup {NoSnapshot}]
      BY <1>1 DEF Init
    <2>3. 0 \in 0..MaxFetches
      BY ContentsAssumption
    <2> QED
      BY <2>1, <2>2, <2>3 DEF Init, ObservationTypeOK
  <1>3. Accounted /\ InFlight /\ Alone
    BY DEF Init, Accounted, InFlight, Alone, Underway
  <1> QED
    BY <1>2, <1>3 DEF Sound

LEMMA SoundStep == Sound /\ [ObservationNext]_observationVars => Sound'
  BY TypesStep, AccountedStep, InFlightStep, AloneStep DEF Sound

(* Whatever passes do, the page is observed as Observation says: they read   *)
(* what the crawl has recorded and change nothing of it.                     *)
THEOREM PassesOnlyRead == Spec => ObservationSpec
  <1>1. InitAll => Init
    BY DEF InitAll
  <1>2. [Next]_vars => [ObservationNext]_observationVars
    BY DEF Next, Pick, Skip, Parse, RecordFailed, RecordResult, GiveUp, vars
  <1> QED
    BY <1>1, <1>2, PTL DEF Spec, ObservationSpec

(* The evidence called current is what the server served to the latest       *)
(* successful fetch, however many fetches overlap, are redirected, answered  *)
(* with a 304 and recorded in whatever order, until an address confirms the  *)
(* etag of another; and extraction picks those bytes while none overlap      *)
(* (evidence.py:64-73, extraction/runner.py:141-143).                        *)
THEOREM EvidenceIsCurrent == Spec => []EffectiveIsLatestAnswer
  <1>1. ObservationSpec => []Sound
    BY SoundInit, SoundStep, PTL DEF ObservationSpec
  <1>2. []Sound => []EffectiveIsLatestAnswer
    BY SoundIsEnough, PTL
  <1> QED
    BY <1>1, <1>2, PassesOnlyRead, PTL

(* What a pass changes of its own variables. *)
ExtractionTypes ==
    /\ extractions \subseteq [snapshot : snapshots, status : {"OK", "FAILED"}]
    /\ stage \in [Passes -> {"idle", "picked", "parsing", "raised"}]
    /\ target \in [Passes -> snapshots \cup {NoTarget}]
    /\ \A p \in Passes : stage[p] # "idle" => target[p] \in snapshots

LEMMA ExtractionTypesStep ==
    ASSUME Sound, ExtractionTypes, [Next]_vars
    PROVE  ExtractionTypes'
  <1>1. CASE ObservationNext /\ UNCHANGED extractionVars
    <2>1. snapshots \subseteq snapshots'
      BY <1>1 DEF ObservationNext, Publish, ReadValidators, StartFetch, Follow, Serve, Unreachable,
                  Lose, Record
    <2> QED
      BY <1>1, <2>1 DEF extractionVars, ExtractionTypes
  <1>2. ASSUME NEW p \in Passes, Pick(p) PROVE ExtractionTypes'
    <2>1. ExtractionTarget \in snapshots
      BY <1>2, Timed, NewestFacts DEF Pick, ExtractionTarget, Sound
    <2> QED
      BY <1>2, <2>1 DEF Pick, observationVars, ExtractionTypes
  <1>3. ASSUME NEW p \in Passes, Skip(p) \/ GiveUp(p) \/ Parse(p) PROVE ExtractionTypes'
    BY <1>3 DEF Skip, GiveUp, Parse, Leave, observationVars, ExtractionTypes
  <1>4. ASSUME NEW p \in Passes, RecordFailed(p) \/ RecordResult(p) PROVE ExtractionTypes'
    BY <1>4 DEF RecordFailed, RecordResult, Leave, observationVars, ExtractionTypes
  <1>5. CASE UNCHANGED vars
    BY <1>5 DEF vars, observationVars, extractionVars, ExtractionTypes
  <1> QED
    BY <1>1, <1>2, <1>3, <1>4, <1>5 DEF Next

(* Every variable holds a value of its type; what is extracted, or about to  *)
(* be, is a recorded snapshot.                                               *)
THEOREM TypeCorrect == Spec => []TypeOK
  <1>1. InitAll => Sound /\ ExtractionTypes
    BY SoundInit DEF InitAll, ExtractionTypes
  <1>2. [Next]_vars => [ObservationNext]_observationVars
    BY DEF Next, Pick, Skip, Parse, RecordFailed, RecordResult, GiveUp, vars
  <1>3. Sound /\ ExtractionTypes /\ [Next]_vars => (Sound /\ ExtractionTypes)'
    BY <1>2, SoundStep, ExtractionTypesStep
  <1>4. Sound /\ ExtractionTypes => TypeOK
    BY DEF Sound, ExtractionTypes, TypeOK
  <1> QED
    BY <1>1, <1>3, <1>4, PTL DEF Spec

=============================================================================
