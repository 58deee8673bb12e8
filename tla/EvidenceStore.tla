--------------------------- MODULE EvidenceStore ---------------------------
(***************************************************************************)
(* The content-addressed store of fetched and derived bytes, and the rows  *)
(* that name its objects (domains/acquisition/storage.py, recorder.py,     *)
(* extraction/runner.py): the object is written first, the transaction     *)
(* that references it commits afterwards, and an operator may delete what  *)
(* find_orphans lists.                                                     *)
(*                                                                         *)
(* On the file system an object appears by writing a temporary file and    *)
(* renaming it.  The temporary name is a function of the hash, so two      *)
(* writers of the same bytes write the same file, and a writer's open file *)
(* follows the rename of another: `open` says under which name the file a  *)
(* writer has open is to be found now.                                     *)
(***************************************************************************)
EXTENDS Naturals, FiniteSets

CONSTANTS
    Hashes,        \* the distinct contents
    Writers,       \* worker and extraction processes
    Deployments,   \* the stores, whether an operator deletes what find_orphans
                   \* lists, and a bound on the crashes of writers
    MaxDays        \* bound: days that pass

ASSUME DeploymentAssumption ==
    /\ Deployments \subseteq [store : {"filesystem", "s3"}, deletions : BOOLEAN, crashes : Nat]
    /\ MaxDays \in Nat

VARIABLES
    deployment,
    object,   \* the object under each hash: "none", "torn" or "whole"
    partial,  \* the temporary file of each hash, likewise
    old,      \* hashes whose object was last modified before the age floor
    rows,     \* hashes named by a content_blob (or an extraction) row
    phase, hash, open, fenced,   \* the writers
    listed,   \* what the operator's last find_orphans returned
    crashes, days,
    met       \* history: hashes two writers were writing under one temporary name

files   == <<object, partial, old>>
writers == <<phase, hash, open, fenced>>
bounds  == <<deployment, crashes, days>>
storeVars == <<files, rows, writers, listed, bounds, met>>

Places == {"nowhere", "partial", "object"}

StoreInit ==
    /\ deployment \in Deployments
    /\ object  = [h \in Hashes |-> "none"]
    /\ partial = [h \in Hashes |-> "none"]
    /\ old = {}
    /\ rows = {}
    /\ phase     = [w \in Writers |-> "idle"]
    /\ hash   = [w \in Writers |-> CHOOSE h \in Hashes : TRUE]
    /\ open   = [w \in Writers |-> "nowhere"]
    /\ fenced = [w \in Writers |-> FALSE]
    /\ listed = {}
    /\ crashes = 0 /\ days = 0
    /\ met = {}

----------------------------------------------------------------------------
(* put *)

(* A writer has bytes in hand, under a lease that is still its own; put asks *)
(* whether an object of that hash exists. "existing" and "stored" are the    *)
(* two values of newly_written.                                              *)
Begin(w, h) ==
    /\ phase[w] = "idle"
    /\ hash'   = [hash EXCEPT ![w] = h]
    /\ fenced' = [fenced EXCEPT ![w] = FALSE]
    /\ phase' = [phase EXCEPT ![w] = IF object[h] # "none" THEN "existing" ELSE "absent"]
    /\ UNCHANGED <<files, rows, open, listed, bounds, met>>

(* put_object is atomic: the S3 API shows an object whole or not at all.     *)
PutObject(w) ==
    /\ deployment.store = "s3"
    /\ phase[w] = "absent"
    /\ object' = [object EXCEPT ![hash[w]] = "whole"]
    /\ old' = old \ {hash[w]}
    /\ phase'  = [phase EXCEPT ![w] = "stored"]
    /\ UNCHANGED <<partial, rows, hash, open, fenced, listed, bounds, met>>

(* Others that have opened the temporary file of h and not renamed it yet.   *)
OthersAt(w, h) == {v \in Writers \ {w} : hash[v] = h /\ phase[v] \in {"writing", "written"}}

(* Mutant: a temporary file that is there is taken for a finished one.       *)
ReusePartial(w) ==
    LET h == hash[w] IN
    /\ deployment.store = "filesystem"
    /\ phase[w] = "absent"
    /\ IF partial[h] = "none"
         THEN /\ partial' = [partial EXCEPT ![h] = "torn"]
              /\ open'  = [open EXCEPT ![w] = "partial"]
              /\ phase' = [phase EXCEPT ![w] = "writing"]
         ELSE /\ phase' = [phase EXCEPT ![w] = "written"]
              /\ UNCHANGED <<partial, open>>
    /\ met' = IF OthersAt(w, h) = {} THEN met ELSE met \cup {h}
    /\ UNCHANGED <<object, old, rows, hash, fenced, listed, bounds>>

(* write_bytes opens the temporary file, truncating whatever is under that   *)
(* name.                                                                     *)
OpenPartial(w) ==
    LET h == hash[w] IN
    /\ deployment.store = "filesystem"
    /\ phase[w] = "absent"
    /\ partial' = [partial EXCEPT ![h] = "torn"]
    /\ open' = [open EXCEPT ![w] = "partial"]
    /\ phase'   = [phase EXCEPT ![w] = "writing"]
    /\ met' = IF OthersAt(w, h) = {} THEN met ELSE met \cup {h}
    /\ UNCHANGED <<object, old, rows, hash, fenced, listed, bounds>>

(* ... writes the bytes into the file it opened, wherever that file is now,  *)
(* and closes it.                                                            *)
WriteBytes(w) ==
    /\ phase[w] = "writing"
    /\ partial' = IF open[w] = "partial" THEN [partial EXCEPT ![hash[w]] = "whole"] ELSE partial
    /\ object'  = IF open[w] = "object"  THEN [object EXCEPT ![hash[w]] = "whole"]  ELSE object
    /\ old' = IF open[w] = "object" THEN old \ {hash[w]} ELSE old
    /\ open' = [open EXCEPT ![w] = "nowhere"]
    /\ phase'   = [phase EXCEPT ![w] = "written"]
    /\ UNCHANGED <<rows, hash, fenced, listed, bounds, met>>

(* Where the files that writers hold open are found after a rename of h.     *)
Renamed(h) == [v \in Writers |->
                  IF hash[v] # h THEN open[v]
                  ELSE IF open[v] = "partial" THEN "object"
                  ELSE IF open[v] = "object" THEN "nowhere" ELSE open[v]]

(* replace: raises FileNotFoundError when another writer of the same bytes   *)
(* has renamed the temporary file away.                                      *)
Rename(w) ==
    LET h == hash[w] IN
    /\ phase[w] = "written"
    /\ IF partial[h] = "none"
         THEN /\ phase' = [phase EXCEPT ![w] = "raised"]
              /\ UNCHANGED <<files, open>>
         ELSE /\ object'  = [object EXCEPT ![h] = partial[h]]
              /\ partial' = [partial EXCEPT ![h] = "none"]
              /\ old'  = old \ {h}
              /\ open' = Renamed(h)
              /\ phase'   = [phase EXCEPT ![w] = "stored"]
    /\ UNCHANGED <<rows, hash, fenced, listed, bounds, met>>

----------------------------------------------------------------------------
(* The transaction, and what may go wrong around it *)

Settle(w) == /\ phase'   = [phase EXCEPT ![w] = "idle"]
             /\ open' = [open EXCEPT ![w] = "nowhere"]
             /\ UNCHANGED <<hash, fenced>>

(* Mutant: the transaction first, the object afterwards. *)
CommitFirst(w) ==
    /\ phase[w] # "idle"
    /\ ~fenced[w]
    /\ rows' = rows \cup {hash[w]}
    /\ UNCHANGED <<files, writers, listed, bounds, met>>

(* record_outcome, or the extraction's _record: the fence holds, the row is  *)
(* inserted unless it is there (ON CONFLICT DO NOTHING).                     *)
Commit(w) ==
    /\ phase[w] \in {"stored", "existing"}
    /\ ~fenced[w]
    /\ rows' = rows \cup {hash[w]}
    /\ Settle(w)
    /\ UNCHANGED <<files, listed, bounds, met>>

(* The put raised, the fence was lost, or the transaction failed. *)
Abort(w) ==
    /\ phase[w] \in {"raised", "stored", "existing"}
    /\ Settle(w)
    /\ UNCHANGED <<files, rows, listed, bounds, met>>

(* The process dies where it stands: open files are closed as they are.      *)
Crash(w) ==
    /\ phase[w] # "idle"
    /\ crashes < deployment.crashes
    /\ crashes' = crashes + 1
    /\ Settle(w)
    /\ UNCHANGED <<files, rows, listed, deployment, days, met>>

(* A day passes: every object there is reaches the age floor, and every      *)
(* lease a writer still holds has been swept away long since. Extraction     *)
(* writers hold none: that they take less than a day from put to commit is   *)
(* assumed.                                                                  *)
Day ==
    /\ days < MaxDays
    /\ days' = days + 1
    /\ old' = {h \in Hashes : object[h] # "none"}
    /\ fenced' = [w \in Writers |-> phase[w] # "idle"]
    /\ UNCHANGED <<object, partial, rows, phase, hash, open, listed, deployment, crashes, met>>

----------------------------------------------------------------------------
(* Reconciliation *)

(* Mutant: no age floor. *)
AnyAge == {h \in Hashes : object[h] # "none" /\ h \notin rows}

Orphans == {h \in old : object[h] # "none" /\ h \notin rows}

(* find_orphans lists; it deletes nothing. *)
Reconcile ==
    /\ deployment.deletions
    /\ listed' = Orphans
    /\ listed' # listed
    /\ UNCHANGED <<files, rows, writers, bounds, met>>

(* The operator deletes an object of the list. *)
Delete(h) ==
    /\ h \in listed
    /\ listed' = listed \ {h}
    /\ object' = [object EXCEPT ![h] = "none"]
    /\ open' = [v \in Writers |-> IF hash[v] = h /\ open[v] = "object" THEN "nowhere"
                                  ELSE open[v]]
    /\ old' = old \ {h}
    /\ UNCHANGED <<partial, rows, phase, hash, fenced, bounds, met>>

StoreNext ==
    \/ \E w \in Writers :
          \/ \E h \in Hashes : Begin(w, h)
          \/ PutObject(w) \/ OpenPartial(w) \/ WriteBytes(w) \/ Rename(w)
          \/ Commit(w) \/ Abort(w) \/ Crash(w)
    \/ Day
    \/ Reconcile
    \/ \E h \in Hashes : Delete(h)

StoreSpec == StoreInit /\ [][StoreNext]_storeVars
----------------------------------------------------------------------------
(* Properties *)

FileStates == {"none", "torn", "whole"}

(* Every variable holds a value of its type; a file a writer has open is one *)
(* that is there.                                                            *)
StoreTypeOK ==
    /\ object \in [Hashes -> FileStates] /\ partial \in [Hashes -> FileStates]
    /\ old \subseteq Hashes /\ rows \subseteq Hashes /\ listed \subseteq Hashes
    /\ phase \in [Writers -> {"idle", "absent", "writing", "written", "raised", "stored",
                           "existing"}]
    /\ hash \in [Writers -> Hashes]
    /\ open \in [Writers -> Places]
    /\ fenced \in [Writers -> BOOLEAN]
    /\ deployment \in Deployments /\ crashes \in 0..deployment.crashes /\ days \in 0..MaxDays
    /\ met \subseteq Hashes
    /\ \A w \in Writers : /\ open[w] = "partial" => partial[hash[w]] # "none"
                          /\ open[w] = "object"  => object[hash[w]] # "none"

(* As long as nobody deletes objects a row never names bytes that are not    *)
(* there: find_missing_objects returns nothing, however many processes store *)
(* the same bytes, fail or crash (storage.py:1-22).                          *)
NoDanglingRow == ~deployment.deletions => \A h \in rows : object[h] # "none"

(* A crash mid-write leaves no truncated object under a hash, also when the  *)
(* next writer of the bytes finds what the crash left behind                 *)
(* (storage.py:159-160): an object is torn only while somebody is writing    *)
(* it, except that of bytes which two writers have written at once, when     *)
(* some writer has been killed.                                              *)
TornIsTransient ==
    \A h \in Hashes : object[h] = "torn" =>
        \/ \E w \in Writers : phase[w] = "writing" /\ open[w] = "object" /\ hash[w] = h
        \/ h \in met /\ crashes > 0

(* What a worker wrote itself and is about to commit is never deleted under  *)
(* its hands: the age floor of find_orphans outlives every lease             *)
(* (storage.py:281-283).                                                     *)
NewObjectsSurvive ==
    \A w \in Writers : phase[w] = "stored" /\ ~fenced[w] => object[hash[w]] # "none"

============================================================================
