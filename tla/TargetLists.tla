---------------------------- MODULE TargetLists ----------------------------
(***************************************************************************)
(* Client target lists (domains/onboarding: target_list, importer, naming, *)
(* regions, verification; revision 0016): operators import spreadsheets,   *)
(* each in one READ COMMITTED transaction with its own view of what is     *)
(* committed, and people move the institutions along meanwhile.            *)
(*                                                                         *)
(* A file is a sequence of lines below its header, what it says of itself  *)
(* and the hash that identifies it; scores go with ranks. A list is known  *)
(* by the begin of its transaction (imported_at), an institution by its    *)
(* match key.                                                              *)
(***************************************************************************)
EXTENDS Naturals, Sequences, FiniteSets, FiniteSetsExt

CONSTANTS
    Keys,            \* match keys
    Spellings,       \* names as files write them
    KeyOf,           \* normalize_institution_name
    ListNames,
    Files,
    Sheet,           \* what is in a file: its lines, and what it declares
    Overrides,       \* identities an operator may give instead of the file's
    Importers,
    BlankRun,        \* BLANK_ROW_RUN_ENDS_TABLE
    MaxImports,      \* bound: transactions of the importer
    Blank, Unmapped, None

Destinations == {"GB", "HK"}
Labels == Destinations \cup {Unmapped}
Row == [name : Spellings, rank : 0..2, region : Labels, territory : Labels]
Identity == [name : ListNames, version : Nat]
Statuses == {"NOT_STARTED", "DOMAIN_VERIFIED", "NEEDS_MANUAL_REVIEW"}
Institution == [latest : Nat, current : BOOLEAN, removed : Nat \cup {None},
                dest : Destinations \cup {None}, status : Statuses]

ASSUME ListsAssumption ==
    /\ KeyOf \in [Spellings -> Keys]
    /\ \A f \in Files : /\ Sheet[f].lines \in Seq(Row \cup {Blank})
                        /\ Sheet[f].declared \in Nat
                        /\ Sheet[f].identity \in Identity
    /\ Overrides \subseteq Identity
    /\ BlankRun \in Nat \ {0} /\ MaxImports \in Nat
    /\ Blank \notin Row /\ Unmapped \notin Destinations
    /\ None \notin Nat \cup Destinations \cup Statuses \cup {"absent"} \cup Institution

VARIABLES
    lists,      \* target_list with its entries and differences, as committed
    inst,       \* target_institution
    imports,    \* the transactions of the importer
    began       \* transactions begun: imported_at is the begin of one

lvars == <<lists, inst, imports, began>>

NoImport == [file |-> None, identity |-> None, at |-> 0, previous |-> None, inserted |-> FALSE,
             left |-> {}, looked |-> None, writes |-> [k \in Keys |-> None]]

ListsInit ==
    /\ lists = <<>>
    /\ inst = [k \in Keys |-> None]
    /\ imports = [i \in Importers |-> NoImport]
    /\ began = 0

----------------------------------------------------------------------------
(* What a file says *)

Named(lines) == {n \in DOMAIN lines : lines[n] # Blank}

(* _parse_rows: lines without a name are passed over, and so many of them in *)
(* a row end the table. A row is known by its number.                        *)
Rows(lines) ==
    {n \in Named(lines) :
        \A e \in BlankRun..n : \E j \in (e - BlankRun + 1)..e : lines[j] # Blank}

RowsOf(f)    == Rows(Sheet[f].lines)
LineOf(f, n)  == Sheet[f].lines[n]
KeyAt(f, n)  == KeyOf[LineOf(f, n).name]

(* Mutant: the counts a file declares are not compared. *)
ImportableUncounted(f) ==
    /\ RowsOf(f) # {}
    /\ \A n \in RowsOf(f) : LineOf(f, n).rank > 0
    /\ \A m, n \in RowsOf(f) : KeyAt(f, m) = KeyAt(f, n) => m = n

(* _validate_duplicates, _validate_counts and the rows that cannot be read.  *)
Importable(f) ==
    /\ RowsOf(f) # {}
    /\ \A n \in RowsOf(f) : LineOf(f, n).rank > 0
    /\ \A m, n \in RowsOf(f) : KeyAt(f, m) = KeyAt(f, n) => m = n
    /\ Sheet[f].declared # 0 => Sheet[f].declared = Cardinality(RowsOf(f))

(* resolve_destination: labels that disagree resolve to nothing.             *)
Resolve(row) ==
    LET codes == {row.region, row.territory} \ {Unmapped}
    IN  IF Cardinality(codes) = 1 THEN CHOOSE c \in codes : TRUE ELSE None

----------------------------------------------------------------------------
(* What the importer compares *)

Entries(l) == IF l = None THEN [k \in {} |-> None] ELSE lists[l].entries

(* Mutant: the version decides which list came before. *)
PreviousByVersion(name) ==
    LET of == {l \in DOMAIN lists : lists[l].identity.name = name}
    IN  IF of = {} THEN None
        ELSE CHOOSE l \in of :
                \A m \in of : lists[m].identity.version <= lists[l].identity.version

(* _previous_list: the latest begin. Two transactions that begin in the same *)
(* microsecond, which the version would tell apart, are left out.            *)
Previous(name) ==
    LET of == {l \in DOMAIN lists : lists[l].identity.name = name}
    IN  IF of = {} THEN None
        ELSE CHOOSE l \in of : \A m \in of : lists[m].at <= lists[l].at

Snapshot(row) == [name |-> row.name, rank |-> row.rank, region |-> row.region,
                  territory |-> row.territory, dest |-> Resolve(row)]

(* The columns that _previous_entries selects: the territory is not one.     *)
Compared == {"name", "rank", "region", "dest"}

Diff(kind, key, after) == [kind |-> kind, key |-> key, after |-> after]

(* _row_diffs, with the values after the change.                             *)
RowDiffs(before, row) ==
    LET k   == KeyOf[row.name]
        new == Snapshot(row)
    IN  IF k \notin DOMAIN before THEN {Diff("ADDED_TARGET", k, new)}
        ELSE LET old == Snapshot(before[k]) IN
             {d \in {Diff("RANK_CHANGED", k, [rank |-> new.rank]),
                     Diff("NAME_CHANGED", k, [name |-> new.name])} :
                  \E c \in DOMAIN d.after : d.after[c] # old[c]}
             \cup (IF old.region # new.region \/ old.dest # new.dest
                     THEN {Diff("REGION_CHANGED", k, [region |-> new.region, dest |-> new.dest])}
                     ELSE {})

Seen(f) == {KeyAt(f, n) : n \in RowsOf(f)}

Changes(before, f) == UNION {RowDiffs(before, LineOf(f, n)) : n \in RowsOf(f)}
Losses(before, f) ==
    {Diff("REMOVED_FROM_NEW_LIST", k, None) : k \in DOMAIN before \ Seen(f)}
Differences(before, f) == Changes(before, f) \cup Losses(before, f)

Removed(t) == DOMAIN Entries(t.previous) \ Seen(t.file)

EntriesOf(f) ==
    [k \in Seen(f) |-> LineOf(f, CHOOSE n \in RowsOf(f) : KeyAt(f, n) = k)]

----------------------------------------------------------------------------
(* Transactions of the importer *)

Open(i) == imports[i] # NoImport
End(i)  == imports' = [imports EXCEPT ![i] = NoImport]

(* The row of an institution is locked by the transaction that wrote it.     *)
Locked(i, k) == \E j \in Importers \ {i} : imports[j].writes[k] # None

Taken(f, identity, committed) ==
    \E l \in committed : l.file = f \/ l.identity = identity

Committed == {lists[l] : l \in DOMAIN lists}

(* The transaction begins with the look for the hash; an identical file, a   *)
(* file that cannot be imported and a known name and version end it.         *)
Begin(i, f) ==
    /\ ~Open(i) /\ began < MaxImports
    /\ Importable(f)
    /\ \E identity \in {Sheet[f].identity} \cup Overrides :
          /\ ~Taken(f, identity, Committed)
          /\ began' = began + 1
          /\ imports' = [imports EXCEPT ![i] =
                [NoImport EXCEPT !.file = f, !.identity = identity, !.at = began + 1,
                                 !.left = RowsOf(f)]]
    /\ UNCHANGED <<lists, inst>>

(* The previous list is read, and the row of the new one inserted: the       *)
(* insert waits for another with the same hash or identity, and fails when   *)
(* that has committed.                                                       *)
Compare(i) ==
    /\ Open(i) /\ ~imports[i].inserted
    /\ ~Taken(imports[i].file, imports[i].identity,
              {imports[j] : j \in {x \in Importers \ {i} : imports[x].inserted}})
    /\ IF Taken(imports[i].file, imports[i].identity, Committed)
         THEN End(i)
         ELSE imports' = [imports EXCEPT
                ![i] = [imports[i] EXCEPT !.previous = Previous(imports[i].identity.name),
                                          !.inserted = TRUE]]
    /\ UNCHANGED <<lists, inst, began>>

(* The rows are taken in their order. *)
Turn(i)    == Min(imports[i].left)
Current(i) == LineOf(imports[i].file, Turn(i))

(* _upsert_institution reads the institution by its match key ...            *)
Look(i) ==
    /\ imports[i].inserted /\ imports[i].left # {} /\ imports[i].looked = None
    /\ LET seen == inst[KeyOf[Current(i).name]]
       IN  imports' = [imports EXCEPT ![i].looked =
                          IF seen = None THEN "absent" ELSE seen.status]
    /\ UNCHANGED <<lists, inst, began>>

(* What it writes of a row: a new institution, or an update of some columns  *)
(* of the one there is by now, whose status is judged by the earlier look.   *)
Upserted(i, row, looked, now) ==
    IF looked = "absent"
      THEN [latest |-> imports[i].at, current |-> TRUE, removed |-> None, dest |-> Resolve(row),
            status |-> IF Resolve(row) = None THEN "NEEDS_MANUAL_REVIEW" ELSE "NOT_STARTED"]
      ELSE [now EXCEPT !.latest = imports[i].at, !.current = TRUE, !.removed = None,
               !.dest = IF Resolve(row) = None THEN @ ELSE Resolve(row),
               !.status = IF Resolve(row) = None /\ looked = "NOT_STARTED"
                            THEN "NEEDS_MANUAL_REVIEW" ELSE @]

(* ... and writes it, waiting for whoever has its row; an institution that   *)
(* another import inserted since the look ends this one.                     *)
Write(i) ==
    /\ Open(i) /\ imports[i].looked # None
    /\ LET row == Current(i)
           k   == KeyOf[row.name]
       IN  /\ ~Locked(i, k)
           /\ IF imports[i].looked = "absent" /\ inst[k] # None
                THEN End(i)
                ELSE imports' = [imports EXCEPT
                       ![i] = [imports[i] EXCEPT
                          !.writes[k] = Upserted(i, row, imports[i].looked, inst[k]),
                          !.looked = None, !.left = imports[i].left \ {Turn(i)}]]
    /\ UNCHANGED <<lists, inst, began>>

(* _removal_diffs flags the institutions that are no longer named, the       *)
(* differences and the audit row are inserted, and everything commits.       *)
Finish(i) ==
    /\ Open(i) /\ imports[i].inserted /\ imports[i].left = {}
    /\ \A k \in Removed(imports[i]) : ~Locked(i, k)
    /\ LET t == imports[i] IN
       /\ inst' = [k \in Keys |->
             IF t.writes[k] # None THEN t.writes[k]
             ELSE IF k \in Removed(t)
               THEN [inst[k] EXCEPT !.latest = t.at, !.current = FALSE, !.removed = t.at]
             ELSE inst[k]]
       /\ lists' = Append(lists, [file |-> t.file, identity |-> t.identity, at |-> t.at,
                                  done |-> began, previous |-> t.previous,
                                  entries |-> EntriesOf(t.file),
                                  diffs |-> Differences(Entries(t.previous), t.file)])
    /\ End(i)
    /\ UNCHANGED began

(* A dry run, a failure, a deadlock that is broken, or the process killed.   *)
Rollback(i) ==
    /\ Open(i)
    /\ End(i) /\ UNCHANGED <<lists, inst, began>>

----------------------------------------------------------------------------
(* People *)

Unlocked(k) == \A i \in Importers : imports[i].writes[k] = None

(* request_review *)
RequestReview(k) ==
    /\ inst[k] # None /\ Unlocked(k) /\ inst[k].status # "NEEDS_MANUAL_REVIEW"
    /\ inst' = [inst EXCEPT ![k].status = "NEEDS_MANUAL_REVIEW"]
    /\ UNCHANGED <<lists, imports, began>>

(* verify_domain ends with _advance_institution.                             *)
Advance(k) ==
    /\ inst[k] # None /\ Unlocked(k) /\ inst[k].status = "NOT_STARTED"
    /\ inst' = [inst EXCEPT ![k].status = "DOMAIN_VERIFIED"]
    /\ UNCHANGED <<lists, imports, began>>

ListsNext ==
    \/ \E i \in Importers :
          \/ Compare(i) \/ Look(i) \/ Write(i) \/ Finish(i) \/ Rollback(i)
          \/ \E f \in Files : Begin(i, f)
    \/ \E k \in Keys : RequestReview(k) \/ Advance(k)

----------------------------------------------------------------------------
(* Properties *)

(* The columns of target_institution, with the CHECKs that tie them: one     *)
(* that is out of scope names the list that omitted it, and one without a    *)
(* destination waits for a person (models.py:430-459).                       *)
ListsTypeOK ==
    /\ began \in 0..MaxImports
    /\ inst \in [Keys -> Institution \cup {None}]
    /\ \A k \in Keys : inst[k] # None =>
          /\ inst[k].current <=> inst[k].removed = None
          /\ inst[k].dest = None => inst[k].status = "NEEDS_MANUAL_REVIEW"

Of(name) == {l \in DOMAIN lists : lists[l].identity.name = name}

(* Nobody began an import of this name before another of it had committed.   *)
OneAtATime(name) == \A l, m \in Of(name) : l < m => lists[l].done < lists[m].at

NamedIn(k, l) == k \in DOMAIN lists[l].entries

(* Where the imports of one list name do not overlap, an institution that    *)
(* only this name's lists have named is in scope exactly when the newest of  *)
(* them names it, and otherwise carries the first list that omitted it       *)
(* (models.py:381, 396-400; importer.py:508-540).                            *)
ScopeFollowsLists ==
    \A name \in ListNames : OneAtATime(name) =>
       \A k \in Keys :
          LET named == {l \in DOMAIN lists : NamedIn(k, l)} IN
          named # {} /\ named \subseteq Of(name) =>
             LET last    == Max(named)
                 omitted == {l \in Of(name) : l > last}
             IN  IF omitted = {}
                   THEN inst[k].removed = None /\ inst[k].latest = lists[last].at
                   ELSE inst[k].removed = lists[Min(omitted)].at

Replay(before, diffs, columns) ==
    LET added   == {d.key : d \in {x \in diffs : x.kind = "ADDED_TARGET"}}
        gone    == {x \in diffs : x.kind = "REMOVED_FROM_NEW_LIST"}
        Col(k, c) ==
            LET told == {d \in diffs \ gone : d.key = k /\ c \in DOMAIN d.after}
            IN  IF told = {} THEN Snapshot(before[k])[c] ELSE (CHOOSE d \in told : TRUE).after[c]
    IN  [k \in (DOMAIN before \cup added) \ {d.key : d \in gone} |->
            [c \in columns |-> Col(k, c)]]

(* What the stored differences of a list make of the one before it.          *)
Retold(l, columns) ==
    Replay(Entries(lists[l].previous), lists[l].diffs, columns)
        = [k \in DOMAIN lists[l].entries |->
              [c \in columns |-> Snapshot(lists[l].entries[k])[c]]]

(* The differences stored with a list turn the list before it into this one, *)
(* in the columns that are compared, "answered from stored data rather than  *)
(* by re-reading spreadsheets" (importer.py:22-25), and a file that declares *)
(* how many institutions it has loses none of its lines                      *)
(* (target_list.py:574-582).                                                 *)
EveryDifferenceIsRecorded ==
    \A l \in DOMAIN lists :
        /\ Retold(l, Compared)
        /\ LET lines == Sheet[lists[l].file].lines IN
           Sheet[lists[l].file].declared = Cardinality(Named(lines)) =>
              DOMAIN lists[l].entries = {KeyOf[lines[n].name] : n \in Named(lines)}

(* They do so in every column that is stored. The code does not keep it: a   *)
(* territory that changes with nothing else is recorded nowhere.             *)
TerritoryIsRecorded == \A l \in DOMAIN lists : Retold(l, Compared \cup {"territory"})

(* An import moves an institution that has not started, and no other         *)
(* (importer.py:361-364: "an import must never knock a target that is        *)
(* already ACTIVE back into review").                                        *)
ImportKeepsProgress ==
    [][lists' # lists =>
          \A k \in Keys : inst[k] # None /\ inst'[k].status # inst[k].status =>
                             inst[k].status = "NOT_STARTED"]_lvars

=============================================================================
