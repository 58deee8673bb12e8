-------------------------- MODULE OnboardingProofs --------------------------
(***************************************************************************)
(* Theorems about onboarding: the target lists for any files, names, keys  *)
(* and number of importers, and the workbook for any book a collector may  *)
(* return.                                                                 *)
(***************************************************************************)
EXTENDS Onboarding, FiniteSetTheorems, WellFoundedInduction, TLAPS

----------------------------------------------------------------------------
(* Lists *)

Import ==
    [file : Files \cup {None}, identity : Identity \cup {None}, at : Nat,
     previous : Nat \cup {None}, inserted : BOOLEAN, left : SUBSET Nat,
     looked : Statuses \cup {"absent", None}, writes : [Keys -> Institution \cup {None}]]

Shape ==
    /\ lists \in Seq(Committed)
    /\ inst \in [Keys -> Institution \cup {None}]
    /\ imports \in [Importers -> Import]
    /\ began \in 0..MaxImports

(* The CHECKs of an institution. *)
Consistent(row) ==
    /\ row.current <=> row.removed = None
    /\ row.dest = None => row.status = "NEEDS_MANUAL_REVIEW"

(* A list follows one of its name, and names institutions that there are.    *)
ListOK(l) ==
    /\ lists[l].file \in Files /\ Importable(lists[l].file)
    /\ lists[l].identity \in Identity
    /\ lists[l].at \in Nat \ {0} /\ lists[l].done \in Nat
    /\ lists[l].at <= lists[l].done /\ lists[l].done <= began
    /\ lists[l].previous # None => lists[l].previous \in 1..(l - 1)
    /\ lists[l].entries \in [Seen(lists[l].file) -> Row]
    /\ \A k \in DOMAIN lists[l].entries : inst[k] # None

(* What an open import has written are the institutions of the rows it has   *)
(* passed.                                                                   *)
WritesOK(i) ==
    \A k \in Keys :
        /\ imports[i].writes[k] # None
              <=> \E n \in RowsOf(imports[i].file) \ imports[i].left :
                     KeyAt(imports[i].file, n) = k
        /\ imports[i].writes[k] # None =>
              /\ Consistent(imports[i].writes[k])
              /\ imports[i].writes[k].latest = imports[i].at
              /\ imports[i].writes[k].removed = None

(* It compares itself with a list of its name, and with none that an import  *)
(* over before it began has overtaken.                                       *)
PreviousOK(i) ==
    LET t == imports[i] IN
    /\ t.previous # None => /\ t.previous \in DOMAIN lists
                            /\ lists[t.previous].identity.name = t.identity.name
    /\ t.inserted => \A m \in Of(t.identity.name) : lists[m].done < t.at =>
                        t.previous # None /\ lists[m].at <= lists[t.previous].at

ImportOK(i) ==
    /\ imports[i].file \in Files /\ Importable(imports[i].file)
    /\ imports[i].identity \in Identity
    /\ imports[i].at \in 1..began
    /\ imports[i].left \subseteq RowsOf(imports[i].file)
    /\ imports[i].looked # None => imports[i].left # {} /\ imports[i].inserted
    /\ imports[i].looked \notin {None, "absent"} => inst[KeyOf[Current(i).name]] # None
    /\ ~imports[i].inserted => imports[i].previous = None
    /\ WritesOK(i) /\ PreviousOK(i)

Orderly ==
    /\ Shape
    /\ \A k \in Keys : inst[k] # None => Consistent(inst[k])
    /\ \A l \in DOMAIN lists : ListOK(l)
    /\ \A i \in Importers : Open(i) => ImportOK(i)

----------------------------------------------------------------------------
(* Operators *)

LEMMA SmallestExists ==
    ASSUME NEW T \in SUBSET Nat, T # {}
    PROVE  \E x \in T : \A y \in T : x <= y
  <1> DEFINE R == OpToRel(<, Nat)
  <1>1. IsWellFoundedOn(R, Nat)
    BY NatLessThanWellFounded
  <1>2. \A m, n \in Nat : m < n => <<m, n>> \in R
    BY DEF OpToRel
  <1> HIDE DEF R
  <1>3. PICK x \in T : \A y \in T : ~ (<<y, x>> \in R)
    BY <1>1, WFMin, Zenon
  <1>4. \A y \in T : ~ (y < x)
    BY <1>2, <1>3, Zenon
  <1> QED
    BY <1>4

LEMMA LargestExists ==
    ASSUME NEW n \in Nat, NEW T \in SUBSET (1..n), T # {}
    PROVE  \E x \in T : \A y \in T : x >= y
  <1> DEFINE far == {n - y : y \in T}
  <1>1. far \in SUBSET Nat /\ far # {}
    <2>1. \A y \in T : y \in Nat /\ n - y \in Nat
      OBVIOUS
    <2> QED
      BY <2>1
  <1>2. PICK d \in far : \A e \in far : d <= e
    BY <1>1, SmallestExists
  <1>3. PICK x \in T : d = n - x
    BY DEF far
  <1>4. ASSUME NEW y \in T PROVE x >= y
    <2>1. n - y \in far /\ x \in Nat /\ y \in Nat
      BY DEF far
    <2> QED
      BY <1>2, <1>3, <2>1
  <1> QED
    BY <1>4

(* Min and Max return the least and the greatest of a set of numbers, and    *)
(* nothing else is one.                                                      *)
LEMMA MinFacts ==
    ASSUME NEW T \in SUBSET Nat, T # {}
    PROVE  /\ Min(T) \in T /\ \A y \in T : Min(T) <= y
           /\ \A x \in T : (\A y \in T : x <= y) => x = Min(T)
  <1>1. Min(T) \in T /\ \A y \in T : Min(T) <= y
    BY SmallestExists DEF Min
  <1>2. ASSUME NEW x \in T, \A y \in T : x <= y PROVE x = Min(T)
    <2>1. x <= Min(T) /\ Min(T) <= x /\ x \in Nat /\ Min(T) \in Nat
      BY <1>1, <1>2
    <2> QED
      BY <2>1
  <1> QED
    BY <1>1, <1>2

LEMMA MaxFacts ==
    ASSUME NEW n \in Nat, NEW T \in SUBSET (1..n), T # {}
    PROVE  /\ Max(T) \in T /\ \A y \in T : y <= Max(T)
           /\ \A x \in T : (\A y \in T : y <= x) => x = Max(T)
  <1>1. T \subseteq Nat
    OBVIOUS
  <1>2. Max(T) \in T /\ \A y \in T : Max(T) >= y
    BY LargestExists DEF Max
  <1> DEFINE m == Max(T)
  <1> HIDE DEF m
  <1>3. m \in T /\ \A y \in T : m >= y
    BY <1>2 DEF m
  <1>4. /\ m \in T /\ \A y \in T : y <= m
        /\ \A x \in T : (\A y \in T : y <= x) => x = m
    BY <1>1, <1>3
  <1> QED
    BY <1>4 DEF m

LEMMA AppendFacts ==
    ASSUME NEW S, NEW s \in Seq(S), NEW e
    PROVE  /\ DOMAIN s = 1..Len(s) /\ Len(s) \in Nat
           /\ DOMAIN Append(s, e) = 1..(Len(s) + 1)
           /\ \A l \in DOMAIN s : Append(s, e)[l] = s[l]
           /\ Append(s, e)[Len(s) + 1] = e
  <1>1. s \in Seq(S \cup {e}) /\ e \in S \cup {e}
    OBVIOUS
  <1> QED
    BY <1>1

LEMMA RowFacts ==
    ASSUME NEW f \in Files
    PROVE  /\ Len(Sheet[f].lines) \in Nat
           /\ RowsOf(f) \subseteq 1..Len(Sheet[f].lines) /\ RowsOf(f) \subseteq Nat
           /\ \A n \in RowsOf(f) : LineOf(f, n) \in Row /\ KeyAt(f, n) \in Keys
           /\ Seen(f) \subseteq Keys
  <1>1. Sheet[f].lines \in Seq(Row \cup {Blank})
    BY ListsAssumption
  <1>2. /\ Len(Sheet[f].lines) \in Nat
        /\ RowsOf(f) \subseteq 1..Len(Sheet[f].lines)
    BY <1>1 DEF RowsOf, Rows, Named
  <1>3. \A n \in RowsOf(f) : LineOf(f, n) \in Row
    BY <1>1 DEF RowsOf, Rows, Named, LineOf
  <1>4. \A n \in RowsOf(f) : KeyAt(f, n) \in Keys
    BY <1>3, ListsAssumption DEF KeyAt, Row
  <1> QED
    BY <1>2, <1>3, <1>4 DEF Seen

LEMMA ResolveFacts ==
    ASSUME NEW row \in Row
    PROVE  Resolve(row) \in Destinations \cup {None}
  <1> DEFINE codes == {row.region, row.territory} \ {Unmapped}
  <1>1. codes \subseteq Destinations
    BY DEF Row, Labels
  <1>2. CASE Cardinality(codes) = 1
    <2>1. codes # {}
      BY <1>2, FS_EmptySet
    <2>2. (CHOOSE c \in codes : TRUE) \in codes
      BY <2>1
    <2> QED
      BY <1>1, <1>2, <2>2 DEF Resolve
  <1>3. CASE Cardinality(codes) # 1
    BY <1>3 DEF Resolve
  <1> QED
    BY <1>2, <1>3

LEMMA UpsertedFacts ==
    ASSUME NEW i \in Importers, imports[i].at \in Nat,
           NEW row \in Row, NEW looked, looked # None,
           NEW now, looked # "absent" => now \in Institution /\ Consistent(now)
    PROVE  /\ Upserted(i, row, looked, now) \in Institution
           /\ Consistent(Upserted(i, row, looked, now))
           /\ Upserted(i, row, looked, now).latest = imports[i].at
           /\ Upserted(i, row, looked, now).removed = None
  <1> DEFINE d == Resolve(row)
  <1>1. d \in Destinations \cup {None}
    BY ResolveFacts
  <1> HIDE DEF d
  <1>2. CASE looked = "absent"
    <2> DEFINE new == [latest |-> imports[i].at, current |-> TRUE, removed |-> None, dest |-> d,
                       status |-> IF d = None THEN "NEEDS_MANUAL_REVIEW" ELSE "NOT_STARTED"]
    <2>1. new \in Institution /\ Consistent(new)
      BY <1>1 DEF Institution, Consistent, Statuses
    <2>2. Upserted(i, row, looked, now) = new
      BY <1>2 DEF Upserted, d
    <2> QED
      BY <2>1, <2>2
  <1>3. CASE looked # "absent"
    <2> DEFINE new == [now EXCEPT !.latest = imports[i].at, !.current = TRUE, !.removed = None,
                         !.dest = IF d = None THEN @ ELSE d,
                         !.status = IF d = None /\ looked = "NOT_STARTED"
                                      THEN "NEEDS_MANUAL_REVIEW" ELSE @]
    <2>1. new \in Institution /\ Consistent(new) /\ new.latest = imports[i].at /\ new.removed = None
      BY <1>1, <1>3 DEF Institution, Consistent, Statuses
    <2>2. Upserted(i, row, looked, now) = new
      BY <1>3 DEF Upserted, d
    <2> QED
      BY <2>1, <2>2
  <1> QED
    BY <1>2, <1>3

LEMMA PreviousFacts ==
    ASSUME Orderly, NEW name
    PROVE  /\ Previous(name) # None => Previous(name) \in Of(name)
           /\ \A m \in Of(name) : /\ Previous(name) # None
                                  /\ lists[m].at <= lists[Previous(name)].at
  <1> DEFINE of == Of(name)
             times == {lists[l].at : l \in of}
  <1>1. \A l \in of : l \in DOMAIN lists /\ lists[l].at \in 1..began
    BY DEF Orderly, Shape, ListOK, Of
  <1>2. CASE of = {}
    BY <1>2 DEF Previous, Of
  <1>3. CASE of # {}
    <2>1. times \in SUBSET (1..began) /\ times # {} /\ began \in Nat
      BY <1>1, <1>3 DEF Orderly, Shape
    <2>2. PICK t \in times : \A u \in times : t >= u
      BY <2>1, LargestExists
    <2>3. PICK l \in of : t = lists[l].at
      BY <2>2
    <2>4. \A m \in of : lists[m].at <= lists[l].at
      BY <1>1, <2>2, <2>3
    <2>5. Previous(name) = CHOOSE x \in of : \A m \in of : lists[m].at <= lists[x].at
      BY <1>3 DEF Previous, Of
    <2>6. Previous(name) \in of /\ \A m \in of : lists[m].at <= lists[Previous(name)].at
      BY <2>3, <2>4, <2>5
    <2>7. Previous(name) \in Nat
      BY <2>6 DEF Of, Orderly, Shape
    <2> QED
      BY <2>6, <2>7, ListsAssumption
  <1> QED
    BY <1>2, <1>3

LEMMA TurnFacts ==
    ASSUME NEW i \in Importers, imports[i].file \in Files, imports[i].left # {},
           imports[i].left \subseteq RowsOf(imports[i].file)
    PROVE  /\ Turn(i) \in imports[i].left
           /\ Current(i) \in Row
           /\ KeyOf[Current(i).name] = KeyAt(imports[i].file, Turn(i))
           /\ KeyOf[Current(i).name] \in Keys
  <1>1. imports[i].left \in SUBSET Nat
    BY RowFacts
  <1>2. Turn(i) \in imports[i].left
    BY <1>1, MinFacts DEF Turn
  <1> QED
    BY <1>2, RowFacts DEF Current, KeyAt

----------------------------------------------------------------------------
(* Every step of an importer or a person keeps the lists in order *)

LEMMA NoImportFacts == NoImport \in Import
  BY ListsAssumption DEF NoImport, Import

LEMMA OrderlyInit == Init => Orderly
  <1> SUFFICES ASSUME Init PROVE Orderly
    OBVIOUS
  <1> USE DEF Init, ListsInit
  <1>1. lists \in Seq(Committed) /\ DOMAIN lists = {}
    BY DEF Committed
  <1>2. imports \in [Importers -> Import]
    BY NoImportFacts
  <1>3. \A i \in Importers : ~Open(i)
    BY DEF Open
  <1> QED
    BY <1>1, <1>2, <1>3, ListsAssumption DEF Orderly, Shape

(* A step of one import that commits nothing. *)
LEMMA ImportStep ==
    ASSUME Orderly, UNCHANGED <<lists, inst, began>>, NEW i \in Importers, NEW new \in Import,
           imports' = [imports EXCEPT ![i] = new], new = NoImport \/ ImportOK(i)'
    PROVE  Orderly'
  <1>1. imports' \in [Importers -> Import] /\ imports'[i] = new
        /\ \A j \in Importers \ {i} : imports'[j] = imports[j]
    BY DEF Orderly, Shape
  <1>2. Shape'
    BY <1>1 DEF Orderly, Shape, Committed
  <1>3. \A l \in DOMAIN lists' : ListOK(l)'
    BY DEF Orderly, ListOK
  <1>4. \A j \in Importers \ {i} : Open(j)' => ImportOK(j)'
    BY <1>1 DEF Orderly, Open, ImportOK, WritesOK, PreviousOK, Of, Current, Turn
  <1>5. Open(i)' => ImportOK(i)'
    BY <1>1 DEF Open
  <1>6. \A k \in Keys : inst'[k] # None => Consistent(inst'[k])
    BY DEF Orderly
  <1> QED
    BY <1>2, <1>3, <1>4, <1>5, <1>6 DEF Orderly

LEMMA EndStep ==
    ASSUME Orderly, UNCHANGED <<lists, inst, began>>, NEW i \in Importers, End(i)
    PROVE  Orderly'
  BY ImportStep, NoImportFacts DEF End

LEMMA BeginStep ==
    ASSUME Orderly, NEW i \in Importers, NEW f \in Files, Begin(i, f)
    PROVE  Orderly'
  <1>1. PICK identity \in {Sheet[f].identity} \cup Overrides :
            imports' = [imports EXCEPT ![i] =
              [NoImport EXCEPT !.file = f, !.identity = identity, !.at = began + 1,
                               !.left = RowsOf(f)]]
    BY DEF Begin
  <1> DEFINE new == [NoImport EXCEPT !.file = f, !.identity = identity, !.at = began + 1,
                                     !.left = RowsOf(f)]
  <1>2. began \in Nat /\ began' = began + 1 /\ began' \in 0..MaxImports
        /\ Importable(f) /\ UNCHANGED <<lists, inst>>
    BY ListsAssumption DEF Begin, Orderly, Shape
  <1>3. identity \in Identity
    BY ListsAssumption
  <1>4. new \in Import
    <2>1. RowsOf(f) \in SUBSET Nat /\ began + 1 \in Nat /\ NoImport \in Import
      BY <1>2, RowFacts, NoImportFacts
    <2> QED
      BY <1>3, <2>1 DEF Import
  <1>5. imports' \in [Importers -> Import] /\ imports'[i] = new
        /\ \A j \in Importers \ {i} : imports'[j] = imports[j]
    BY <1>1, <1>4 DEF Orderly, Shape
  <1>6. Shape'
    BY <1>2, <1>5 DEF Orderly, Shape, Committed
  <1>7. \A l \in DOMAIN lists' : ListOK(l)'
    BY <1>2 DEF Orderly, ListOK
  <1>8. \A j \in Importers \ {i} : Open(j)' => ImportOK(j)'
    BY <1>2, <1>5 DEF Orderly, Open, ImportOK, WritesOK, PreviousOK, Of, Current, Turn
  <1>9. ImportOK(i)'
    <2>1. /\ new.file = f /\ new.identity = identity /\ new.at = began + 1 /\ new.left = RowsOf(f)
          /\ new.looked = None /\ new.inserted = FALSE /\ new.previous = None
          /\ \A k \in Keys : new.writes[k] = None
      BY DEF NoImport
    <2>2. WritesOK(i)'
      BY <1>5, <2>1 DEF WritesOK
    <2>3. PreviousOK(i)'
      BY <1>5, <2>1 DEF PreviousOK
    <2> QED
      BY <1>2, <1>3, <1>5, <2>1, <2>2, <2>3 DEF ImportOK
  <1>10. \A k \in Keys : inst'[k] # None => Consistent(inst'[k])
    BY <1>2 DEF Orderly
  <1> QED
    BY <1>6, <1>7, <1>8, <1>9, <1>10 DEF Orderly

LEMMA CompareStep ==
    ASSUME Orderly, NEW i \in Importers, Compare(i)
    PROVE  Orderly'
  <1>1. UNCHANGED <<lists, inst, began>> /\ Open(i) /\ ~imports[i].inserted /\ ImportOK(i)
    BY DEF Compare, Orderly
  <1>2. CASE End(i)
    BY <1>1, <1>2, EndStep
  <1>3. CASE ~End(i)
    <2> DEFINE p == Previous(imports[i].identity.name)
               new == [imports[i] EXCEPT !.previous = p, !.inserted = TRUE]
    <2>1. imports' = [imports EXCEPT ![i] = new]
      BY <1>3 DEF Compare
    <2>2. p \in Nat \cup {None}
      BY PreviousFacts DEF Orderly, Shape, Of
    <2>3. new \in Import /\ imports[i] \in Import
      BY <2>2 DEF Orderly, Shape, Import
    <2>4. imports'[i] = new
      BY <2>1 DEF Orderly, Shape
    <2>5. /\ new.file = imports[i].file /\ new.identity = imports[i].identity
          /\ new.at = imports[i].at /\ new.left = imports[i].left
          /\ new.looked = imports[i].looked /\ new.writes = imports[i].writes
          /\ new.previous = p /\ new.inserted = TRUE
      BY <2>3 DEF Import
    <2>6. WritesOK(i)'
      BY <1>1, <2>4, <2>5 DEF ImportOK, WritesOK
    <2>7. PreviousOK(i)'
      BY <1>1, <2>4, <2>5, PreviousFacts DEF PreviousOK, Of
    <2>8. ImportOK(i)'
      BY <1>1, <2>4, <2>5, <2>6, <2>7 DEF ImportOK, Current, Turn
    <2> QED
      BY <1>1, <2>1, <2>3, <2>8, ImportStep
  <1> QED
    BY <1>2, <1>3

LEMMA LookStep ==
    ASSUME Orderly, NEW i \in Importers, Look(i)
    PROVE  Orderly'
  <1> DEFINE k == KeyOf[Current(i).name]
             what == IF inst[k] = None THEN "absent" ELSE inst[k].status
             new == [imports[i] EXCEPT !.looked = what]
  <1>1. /\ UNCHANGED <<lists, inst, began>> /\ imports' = [imports EXCEPT ![i] = new]
        /\ imports[i].inserted /\ imports[i].left # {}
    BY DEF Look
  <1>2. Open(i) /\ ImportOK(i)
    BY <1>1 DEF Open, NoImport, Orderly
  <1>3. k \in Keys
    BY <1>1, <1>2, TurnFacts DEF ImportOK
  <1>4. what \in Statuses \cup {"absent"} /\ (what # "absent" => inst[k] # None)
    BY <1>3 DEF Orderly, Shape, Institution
  <1> HIDE DEF what
  <1>5. new \in Import /\ imports[i] \in Import
    BY <1>4 DEF Orderly, Shape, Import
  <1>6. imports'[i] = new
    BY <1>1 DEF Orderly, Shape
  <1>7. /\ new.file = imports[i].file /\ new.identity = imports[i].identity
        /\ new.at = imports[i].at /\ new.left = imports[i].left
        /\ new.inserted = imports[i].inserted /\ new.writes = imports[i].writes
        /\ new.previous = imports[i].previous /\ new.looked = what
    BY <1>5 DEF Import
  <1>8. WritesOK(i)' /\ PreviousOK(i)'
    BY <1>1, <1>2, <1>6, <1>7 DEF ImportOK, WritesOK, PreviousOK, Of
  <1>9. ImportOK(i)'
    BY <1>1, <1>2, <1>4, <1>6, <1>7, <1>8 DEF ImportOK, Current, Turn
  <1> QED
    BY <1>1, <1>5, <1>9, ImportStep

LEMMA WriteStep ==
    ASSUME Orderly, NEW i \in Importers, Write(i)
    PROVE  Orderly'
  <1> DEFINE k == KeyOf[Current(i).name]
             up == Upserted(i, Current(i), imports[i].looked, inst[k])
             new == [imports[i] EXCEPT !.writes[k] = up, !.looked = None,
                                       !.left = imports[i].left \ {Turn(i)}]
  <1>1. UNCHANGED <<lists, inst, began>> /\ Open(i) /\ imports[i].looked # None /\ ImportOK(i)
    BY DEF Write, Orderly
  <1>2. CASE End(i)
    BY <1>1, <1>2, EndStep
  <1>3. CASE ~End(i)
    <2>1. /\ imports' = [imports EXCEPT ![i] = new]
          /\ ~(imports[i].looked = "absent" /\ inst[k] # None)
      BY <1>3 DEF Write
    <2>2. /\ Turn(i) \in imports[i].left /\ Current(i) \in Row /\ k \in Keys
          /\ k = KeyAt(imports[i].file, Turn(i))
      BY <1>1, TurnFacts DEF ImportOK
    <2>3. imports[i].looked # "absent" => inst[k] \in Institution /\ Consistent(inst[k])
      BY <1>1, <2>2 DEF ImportOK, Orderly, Shape
    <2>4. /\ up \in Institution /\ Consistent(up) /\ up.latest = imports[i].at
          /\ up.removed = None
      BY <1>1, <2>2, <2>3, UpsertedFacts DEF ImportOK
    <2> HIDE DEF up
    <2>5. new \in Import /\ imports[i] \in Import
      <3> DEFINE w == [imports[i].writes EXCEPT ![k] = up]
      <3>1. imports[i] \in Import /\ w \in [Keys -> Institution \cup {None}]
            /\ imports[i].left \ {Turn(i)} \in SUBSET Nat
        BY <2>2, <2>4 DEF Orderly, Shape, Import
      <3>2. new = [imports[i] EXCEPT !.writes = w, !.looked = None,
                                     !.left = imports[i].left \ {Turn(i)}]
        OBVIOUS
      <3> HIDE DEF w, new
      <3> QED
        BY <3>1, <3>2 DEF Import
    <2>6. imports'[i] = new
      BY <2>1 DEF Orderly, Shape
    <2>7. /\ new.file = imports[i].file /\ new.identity = imports[i].identity
          /\ new.at = imports[i].at /\ new.left = imports[i].left \ {Turn(i)}
          /\ new.inserted = imports[i].inserted /\ new.looked = None
          /\ new.previous = imports[i].previous
          /\ new.writes[k] = up
          /\ \A x \in Keys \ {k} : new.writes[x] = imports[i].writes[x]
      BY <2>2, <2>5 DEF Import
    <2> HIDE DEF new
    <2>8. up # None
      BY <2>4, ListsAssumption
    <2>9. WritesOK(i)'
      <3> SUFFICES ASSUME NEW x \in Keys
                   PROVE  /\ new.writes[x] # None
                                <=> \E n \in RowsOf(imports[i].file) \ new.left :
                                       KeyAt(imports[i].file, n) = x
                          /\ new.writes[x] # None =>
                                /\ Consistent(new.writes[x])
                                /\ new.writes[x].latest = imports[i].at
                                /\ new.writes[x].removed = None
        BY <2>6, <2>7 DEF WritesOK
      <3>1. CASE x = k
        BY <1>1, <2>2, <2>4, <2>7, <2>8, <3>1 DEF ImportOK
      <3>2. CASE x # k
        BY <1>1, <2>2, <2>7, <3>2 DEF ImportOK, WritesOK
      <3> QED
        BY <3>1, <3>2
    <2>10. PreviousOK(i)'
      BY <1>1, <2>6, <2>7 DEF ImportOK, PreviousOK, Of
    <2>11. ImportOK(i)'
      BY <1>1, <2>6, <2>7, <2>9, <2>10 DEF ImportOK
    <2> QED
      BY <1>1, <2>1, <2>5, <2>11, ImportStep
  <1> QED
    BY <1>2, <1>3

(* What one finished import does to an institution and to the lists. *)
LEMMA FinishFacts ==
    ASSUME Orderly, NEW i \in Importers, Finish(i),
           NEW n, n = Len(lists) + 1
    PROVE  LET t == imports[i] IN
           /\ ImportOK(i) /\ t.inserted /\ began' = began
           /\ \A k \in Keys :
                 /\ k \in Seen(t.file) <=> t.writes[k] # None
                 /\ k \in Seen(t.file) => inst'[k] = t.writes[k]
                 /\ k \in Removed(t) => /\ inst[k] # None
                                        /\ inst'[k] = [inst[k] EXCEPT !.latest = t.at,
                                                         !.current = FALSE, !.removed = t.at]
                 /\ k \notin Seen(t.file) \cup Removed(t) => inst'[k] = inst[k]
           /\ n \in Nat \ {0} /\ DOMAIN lists = 1..(n - 1) /\ DOMAIN lists' = 1..n
           /\ \A l \in DOMAIN lists : lists'[l] = lists[l]
           /\ lists'[n] = [file |-> t.file, identity |-> t.identity, at |-> t.at,
                           done |-> began, previous |-> t.previous,
                           entries |-> EntriesOf(t.file),
                           diffs |-> Differences(Entries(t.previous), t.file)]
           /\ lists' \in Seq(Committed')
           /\ imports' = [imports EXCEPT ![i] = NoImport]
  <1> DEFINE t == imports[i]
             e == [file |-> t.file, identity |-> t.identity, at |-> t.at,
                   done |-> began, previous |-> t.previous,
                   entries |-> EntriesOf(t.file),
                   diffs |-> Differences(Entries(t.previous), t.file)]
  <1>1. /\ Open(i) /\ ImportOK(i) /\ t.inserted /\ t.left = {} /\ began' = began
        /\ imports' = [imports EXCEPT ![i] = NoImport]
    BY DEF Finish, Orderly, End
  <1>2. \A k \in Keys : k \in Seen(t.file) <=> t.writes[k] # None
    BY <1>1 DEF ImportOK, WritesOK, Seen
  <1>3. \A k \in Removed(t) : k \notin Seen(t.file) /\ (k \in Keys => inst[k] # None)
    BY <1>1 DEF Removed, Entries, ImportOK, PreviousOK, Orderly, ListOK
  <1>4. inst' = [k \in Keys |->
             IF t.writes[k] # None THEN t.writes[k]
             ELSE IF k \in Removed(t)
               THEN [inst[k] EXCEPT !.latest = t.at, !.current = FALSE, !.removed = t.at]
             ELSE inst[k]]
    BY DEF Finish
  <1>5. \A k \in Keys :
           /\ k \in Seen(t.file) => inst'[k] = t.writes[k]
           /\ k \in Removed(t) => inst'[k] = [inst[k] EXCEPT !.latest = t.at,
                                                !.current = FALSE, !.removed = t.at]
           /\ k \notin Seen(t.file) \cup Removed(t) => inst'[k] = inst[k]
    <2> HIDE DEF t
    <2> QED
      BY <1>2, <1>3, <1>4
  <1>6. lists' = Append(lists, e) /\ lists \in Seq(Committed)
    BY DEF Finish, Orderly, Shape
  <1> HIDE DEF e
  <1>7. /\ n \in Nat \ {0} /\ DOMAIN lists = 1..(n - 1) /\ DOMAIN lists' = 1..n
        /\ (\A l \in DOMAIN lists : lists'[l] = lists[l]) /\ lists'[n] = e
    <2>1. /\ DOMAIN lists = 1..Len(lists) /\ Len(lists) \in Nat
          /\ DOMAIN lists' = 1..(Len(lists) + 1)
          /\ \A l \in DOMAIN lists : lists'[l] = lists[l]
          /\ lists'[Len(lists) + 1] = e
      BY <1>6, AppendFacts
    <2> QED
      BY <2>1
  <1>8. Committed \cup {e} = Committed'
    BY <1>7 DEF Committed
  <1>9. lists' \in Seq(Committed')
    BY <1>6, <1>8
  <1> QED
    BY <1>1, <1>2, <1>3, <1>5, <1>7, <1>9 DEF e

LEMMA FinishStep ==
    ASSUME Orderly, NEW i \in Importers, Finish(i)
    PROVE  Orderly'
  <1> DEFINE t == imports[i]
  <1>0. PICK n : n = Len(lists) + 1
    OBVIOUS
  <1>1. /\ ImportOK(i) /\ t.inserted /\ began' = began
        /\ \A k \in Keys :
              /\ k \in Seen(t.file) <=> t.writes[k] # None
              /\ k \in Seen(t.file) => inst'[k] = t.writes[k]
              /\ k \in Removed(t) => /\ inst[k] # None
                                     /\ inst'[k] = [inst[k] EXCEPT !.latest = t.at,
                                                      !.current = FALSE, !.removed = t.at]
              /\ k \notin Seen(t.file) \cup Removed(t) => inst'[k] = inst[k]
    BY <1>0, FinishFacts
  <1>2. /\ n \in Nat \ {0} /\ DOMAIN lists = 1..(n - 1) /\ DOMAIN lists' = 1..n
        /\ \A l \in DOMAIN lists : lists'[l] = lists[l]
        /\ lists' \in Seq(Committed')
        /\ imports' = [imports EXCEPT ![i] = NoImport]
    BY <1>0, FinishFacts
  <1>3. lists'[n] = [file |-> t.file, identity |-> t.identity, at |-> t.at,
                     done |-> began, previous |-> t.previous,
                     entries |-> EntriesOf(t.file),
                     diffs |-> Differences(Entries(t.previous), t.file)]
    BY <1>0, FinishFacts
  <1>4. /\ t \in Import /\ t.file \in Files /\ Importable(t.file) /\ t.identity \in Identity
        /\ t.at \in Nat \ {0} /\ t.at <= began /\ began \in Nat
        /\ \A k \in Keys : t.writes[k] # None => t.writes[k] \in Institution
                                                 /\ Consistent(t.writes[k])
    <2>1. t \in Import /\ began \in Nat
      BY DEF Orderly, Shape
    <2>2. \A k \in Keys : t.writes[k] \in Institution \cup {None}
      BY <2>1 DEF Import
    <2>3. \A k \in Keys : t.writes[k] # None => Consistent(t.writes[k])
      BY <1>1 DEF ImportOK, WritesOK
    <2>4. /\ t.file \in Files /\ Importable(t.file) /\ t.identity \in Identity
          /\ t.at \in 1..began
      BY <1>1 DEF ImportOK
    <2> QED
      BY <2>1, <2>2, <2>3, <2>4
  <1>5. ASSUME NEW k \in Keys
        PROVE  /\ inst'[k] \in Institution \cup {None}
               /\ inst'[k] # None => Consistent(inst'[k])
               /\ inst[k] # None => inst'[k] # None
    <2>1. inst[k] \in Institution \cup {None} /\ (inst[k] # None => Consistent(inst[k]))
      BY DEF Orderly, Shape
    <2>2. CASE k \in Seen(t.file)
      BY <1>1, <1>4, <2>1, <2>2
    <2>3. CASE k \in Removed(t)
      <3>1. inst[k] \in Institution /\ Consistent(inst[k])
        BY <1>1, <2>1, <2>3
      <3> DEFINE new == [inst[k] EXCEPT !.latest = t.at, !.current = FALSE, !.removed = t.at]
      <3>2. new \in Institution /\ Consistent(new)
        BY <1>4, <3>1, ListsAssumption DEF Institution, Consistent
      <3>3. inst'[k] = new
        BY <1>1, <2>3
      <3> QED
        BY <3>2, <3>3, ListsAssumption
    <2>4. CASE k \notin Seen(t.file) \cup Removed(t)
      BY <1>1, <2>1, <2>4
    <2> QED
      BY <2>2, <2>3, <2>4
  <1>6. imports' \in [Importers -> Import] /\ imports'[i] = NoImport
        /\ \A j \in Importers \ {i} : imports'[j] = imports[j]
    BY <1>2, NoImportFacts DEF Orderly, Shape
  <1>7. Shape'
    <2>1. inst' = [k \in Keys |-> inst'[k]]
      BY DEF Finish
    <2> QED
      BY <1>1, <1>2, <1>5, <1>6, <2>1 DEF Orderly, Shape
  <1>8. \A l \in DOMAIN lists : ListOK(l)'
    <2> SUFFICES ASSUME NEW l \in DOMAIN lists PROVE ListOK(l)'
      OBVIOUS
    <2>1. /\ ListOK(l) /\ lists'[l] = lists[l]
      BY <1>2 DEF Orderly
    <2>2. \A k \in DOMAIN lists[l].entries : k \in Keys
      BY <2>1, RowFacts DEF ListOK
    <2> QED
      BY <1>1, <1>5, <2>1, <2>2 DEF ListOK
  <1>9. ListOK(n)'
    <2>1. EntriesOf(t.file) \in [Seen(t.file) -> Row]
      <3> SUFFICES ASSUME NEW k \in Seen(t.file)
                   PROVE  LineOf(t.file, CHOOSE x \in RowsOf(t.file) : KeyAt(t.file, x) = k) \in Row
        BY DEF EntriesOf
      <3>1. \E x \in RowsOf(t.file) : KeyAt(t.file, x) = k
        BY DEF Seen
      <3>2. (CHOOSE x \in RowsOf(t.file) : KeyAt(t.file, x) = k) \in RowsOf(t.file)
        BY <3>1
      <3> QED
        BY <1>4, <3>2, RowFacts
    <2>2. \A k \in Seen(t.file) : inst'[k] # None
      BY <1>1, <1>4, RowFacts
    <2>3. t.previous # None => t.previous \in 1..(n - 1)
      BY <1>1, <1>2 DEF ImportOK, PreviousOK
    <2> QED
      <3> DEFINE new == lists'[n]
      <3>1. /\ new.file = t.file /\ new.identity = t.identity /\ new.at = t.at
            /\ new.done = began /\ new.previous = t.previous
            /\ new.entries = EntriesOf(t.file)
        BY <1>3
      <3> HIDE DEF new
      <3>2. /\ new.file \in Files /\ Importable(new.file) /\ new.identity \in Identity
            /\ new.at \in Nat \ {0} /\ new.done \in Nat
            /\ new.at <= new.done /\ new.done <= began'
            /\ new.previous # None => new.previous \in 1..(n - 1)
        <4>1. new.file \in Files /\ Importable(new.file)
          <5>1. new.file = t.file /\ t.file \in Files /\ Importable(t.file)
            BY <1>4, <3>1
          <5> HIDE DEF t
          <5> QED
            BY <5>1, Zenon
        <4>2. new.identity \in Identity /\ new.at \in Nat \ {0}
          BY <1>4, <3>1
        <4>3. new.done \in Nat /\ new.at <= new.done /\ new.done <= began'
          <5>1. began' = began
            BY <1>1
          <5>2. /\ t.at \in Nat /\ t.at <= began /\ began \in Nat
                /\ new.at = t.at /\ new.done = began
            BY <1>4, <3>1
          <5> HIDE DEF t
          <5> QED
            BY <5>1, <5>2
        <4>4. new.previous # None => new.previous \in 1..(n - 1)
          BY <2>3, <3>1
        <4> QED
          BY <4>1, <4>2, <4>3, <4>4
      <3>3. new.entries \in [Seen(new.file) -> Row]
            /\ \A k \in DOMAIN new.entries : inst'[k] # None
        BY <2>1, <2>2, <3>1
      <3> QED
        BY <3>2, <3>3 DEF ListOK, new
  <1>10. ASSUME NEW j \in Importers \ {i}, Open(j)' PROVE ImportOK(j)'
    <2>1. Open(j) /\ ImportOK(j) /\ imports'[j] = imports[j] /\ imports[j] \in Import
      BY <1>6, <1>10 DEF Open, Orderly, Shape
    <2>2. PreviousOK(j)'
      <3>1. \A m \in Of(imports[j].identity.name)' :
                m \in Of(imports[j].identity.name) \/ m = n
        BY <1>2, <2>1 DEF Of
      <3>2. lists'[n].done = began /\ imports[j].at \in 1..began /\ began \in Nat
        BY <1>3, <2>1, <1>4 DEF ImportOK
      <3> QED
        BY <1>2, <2>1, <3>1, <3>2 DEF ImportOK, PreviousOK, Of
    <2>3. WritesOK(j)'
      BY <2>1 DEF ImportOK, WritesOK
    <2>4. imports[j].looked \notin {None, "absent"} => inst'[KeyOf[Current(j).name]] # None
      <3> SUFFICES ASSUME imports[j].looked \notin {None, "absent"}
                   PROVE  inst'[KeyOf[Current(j).name]] # None
        OBVIOUS
      <3>1. KeyOf[Current(j).name] \in Keys
        BY <2>1, TurnFacts DEF ImportOK
      <3> QED
        BY <1>5, <2>1, <3>1 DEF ImportOK
    <2> QED
      BY <1>1, <2>1, <2>2, <2>3, <2>4 DEF ImportOK, Current, Turn
  <1>11. ~Open(i)'
    BY <1>6 DEF Open
  <1>12. \A l \in DOMAIN lists' : l \in DOMAIN lists \/ l = n
    BY <1>2
  <1> QED
    BY <1>5, <1>7, <1>8, <1>9, <1>10, <1>11, <1>12 DEF Orderly

(* People change the status of an institution, and nothing else of it. *)
LEMMA PeopleFacts ==
    ASSUME Orderly, NEW k \in Keys, RequestReview(k) \/ Advance(k)
    PROVE  /\ UNCHANGED <<lists, imports, began>>
           /\ \A x \in Keys : /\ inst'[x] \in Institution \cup {None}
                              /\ inst'[x] # None => Consistent(inst'[x])
                              /\ inst[x] # None <=> inst'[x] # None
                              /\ inst[x] # None => /\ inst'[x].removed = inst[x].removed
                                                   /\ inst'[x].latest = inst[x].latest
           /\ inst' = [x \in Keys |-> inst'[x]]
  <1>1. UNCHANGED <<lists, imports, began>> /\ inst[k] \in Institution /\ Consistent(inst[k])
    BY DEF RequestReview, Advance, Orderly, Shape
  <1>2. PICK status \in {"NEEDS_MANUAL_REVIEW", "DOMAIN_VERIFIED"} :
            /\ inst' = [inst EXCEPT ![k].status = status]
            /\ status = "DOMAIN_VERIFIED" => inst[k].status = "NOT_STARTED"
    BY DEF RequestReview, Advance
  <1> DEFINE new == [inst[k] EXCEPT !.status = status]
  <1>3. new \in Institution /\ Consistent(new) /\ new.removed = inst[k].removed
        /\ new.latest = inst[k].latest
    BY <1>1, <1>2 DEF Institution, Consistent, Statuses
  <1>4. inst'[k] = new /\ \A x \in Keys \ {k} : inst'[x] = inst[x]
    BY <1>2 DEF Orderly, Shape
  <1>5. inst' = [x \in Keys |-> inst'[x]]
    BY <1>2 DEF Orderly, Shape
  <1> HIDE DEF new
  <1>6. \A x \in Keys : /\ inst[x] \in Institution \cup {None}
                        /\ inst[x] # None => Consistent(inst[x])
    BY DEF Orderly, Shape
  <1> QED
    BY <1>1, <1>3, <1>4, <1>5, <1>6, ListsAssumption

LEMMA PeopleStep ==
    ASSUME Orderly, NEW k \in Keys, RequestReview(k) \/ Advance(k)
    PROVE  Orderly'
  <1>1. Shape' /\ \A x \in Keys : inst'[x] # None => Consistent(inst'[x])
    BY PeopleFacts DEF Orderly, Shape, Committed
  <1>2. ASSUME NEW l \in DOMAIN lists' PROVE ListOK(l)'
    <2>1. ListOK(l) /\ lists' = lists /\ began' = began
      BY PeopleFacts DEF Orderly
    <2>2. \A x \in DOMAIN lists[l].entries : x \in Keys
      BY <2>1, RowFacts DEF ListOK
    <2> QED
      BY <2>1, <2>2, PeopleFacts DEF ListOK
  <1>3. ASSUME NEW j \in Importers, Open(j)' PROVE ImportOK(j)'
    <2>1. ImportOK(j) /\ UNCHANGED <<lists, imports, began>>
      BY <1>3, PeopleFacts DEF Open, Orderly
    <2>2. imports[j].looked # None => KeyOf[Current(j).name] \in Keys
      BY <2>1, TurnFacts DEF ImportOK
    <2> QED
      BY <2>1, <2>2, PeopleFacts DEF ImportOK, WritesOK, PreviousOK, Of, Current, Turn
  <1> QED
    BY <1>1, <1>2, <1>3 DEF Orderly

LEMMA OrderlyStep == Orderly /\ [Next]_vars => Orderly'
  <1> SUFFICES ASSUME Orderly, [Next]_vars PROVE Orderly'
    OBVIOUS
  <1>1. CASE UNCHANGED lvars
    BY <1>1 DEF lvars, Orderly, Shape, ListOK, ImportOK, WritesOK, PreviousOK, Open, Of, Current,
                Turn, Committed
  <1>2. CASE ListsNext
    <2>1. ASSUME NEW i \in Importers, Rollback(i) PROVE Orderly'
      BY <2>1, EndStep DEF Rollback
    <2> QED
      BY <1>2, <2>1, BeginStep, CompareStep, LookStep, WriteStep, FinishStep, PeopleStep
         DEF ListsNext
  <1> QED
    BY <1>1, <1>2 DEF Next, vars, lvars, Export, ImportWorkbook

(* The CHECKs of target_institution hold whatever is imported, and whoever   *)
(* moves an institution along meanwhile (models.py:430-459).                 *)
THEOREM TypeCorrect == Spec => []ListsTypeOK
  <1>1. Orderly => ListsTypeOK
    BY DEF Orderly, Shape, ListsTypeOK, Consistent
  <1> QED
    BY <1>1, OrderlyInit, OrderlyStep, PTL DEF Spec

----------------------------------------------------------------------------
(* Scope *)

NamedLists(k)  == {l \in DOMAIN lists : NamedIn(k, l)}
Later(name, k) == {l \in Of(name) : l > Max(NamedLists(k))}

Follows(k, last, omitted) ==
    IF omitted = {}
      THEN inst[k].removed = None /\ inst[k].latest = lists[last].at
      ELSE inst[k].removed = lists[Min(omitted)].at

OnlyOf(name, k) == NamedLists(k) # {} /\ NamedLists(k) \subseteq Of(name)

Scoped ==
    \A name \in ListNames : OneAtATime(name) =>
        \A k \in Keys : OnlyOf(name, k) => Follows(k, Max(NamedLists(k)), Later(name, k))

LEMMA ScopeAsFollows == ScopeFollowsLists <=> Scoped
  BY DEF ScopeFollowsLists, Scoped, OnlyOf, Follows, Later, NamedLists

(* What a list names exists, and the sets the property speaks of are bounded. *)
LEMMA ScopeSets ==
    ASSUME Orderly, NEW name, NEW k \in Keys, OnlyOf(name, k)
    PROVE  /\ Len(lists) \in Nat /\ DOMAIN lists = 1..Len(lists)
           /\ Of(name) \in SUBSET (1..Len(lists))
           /\ NamedLists(k) \in SUBSET (1..Len(lists))
           /\ Max(NamedLists(k)) \in NamedLists(k) /\ Max(NamedLists(k)) \in Of(name)
           /\ Max(NamedLists(k)) \in 1..Len(lists)
           /\ \A l \in NamedLists(k) : l <= Max(NamedLists(k))
           /\ inst[k] # None
           /\ Later(name, k) \in SUBSET Nat
           /\ Later(name, k) # {} => Min(Later(name, k)) \in Later(name, k)
  <1>1. Len(lists) \in Nat /\ DOMAIN lists = 1..Len(lists)
    BY DEF Orderly, Shape
  <1>2. Of(name) \in SUBSET (1..Len(lists)) /\ NamedLists(k) \in SUBSET (1..Len(lists))
    BY <1>1 DEF Of, NamedLists
  <1>3. /\ Max(NamedLists(k)) \in NamedLists(k)
        /\ \A l \in NamedLists(k) : l <= Max(NamedLists(k))
    BY <1>1, <1>2, MaxFacts DEF OnlyOf
  <1>4. inst[k] # None
    BY <1>3 DEF NamedLists, NamedIn, Orderly, ListOK
  <1>5. Later(name, k) \in SUBSET Nat
    BY <1>1, <1>2 DEF Later
  <1>6. Later(name, k) # {} => Min(Later(name, k)) \in Later(name, k)
    BY <1>5, MinFacts
  <1> QED
    BY <1>1, <1>2, <1>3, <1>4, <1>5, <1>6 DEF OnlyOf

(* Where imports do not overlap, the list an import compares itself with is  *)
(* the last of its name.                                                     *)
LEMMA PreviousIsLast ==
    ASSUME Orderly, NEW i \in Importers, ImportOK(i), imports[i].inserted,
           OneAtATime(imports[i].identity.name), Of(imports[i].identity.name) # {},
           \A l \in Of(imports[i].identity.name) : lists[l].done < imports[i].at
    PROVE  /\ imports[i].previous \in Of(imports[i].identity.name)
           /\ \A l \in Of(imports[i].identity.name) : l <= imports[i].previous
  <1> DEFINE name == imports[i].identity.name
             p == imports[i].previous
  <1>1. p # None /\ p \in Of(name) /\ \A m \in Of(name) : lists[m].at <= lists[p].at
    BY DEF ImportOK, PreviousOK, Of
  <1>2. \A m \in Of(name) : m \in Nat /\ lists[m].at \in Nat /\ lists[m].done \in Nat
                            /\ lists[m].at <= lists[m].done
    BY DEF Of, Orderly, Shape, ListOK
  <1>3. ASSUME NEW l \in Of(name) PROVE l <= p
    <2>1. CASE p < l
      <3>1. lists[p].done < lists[l].at
        BY <1>1, <2>1 DEF OneAtATime
      <3>2. lists[l].at <= lists[p].at /\ lists[p].at <= lists[p].done
        BY <1>1, <1>2
      <3>3. lists[l].at \in Nat /\ lists[p].at \in Nat /\ lists[p].done \in Nat
        BY <1>1, <1>2
      <3> QED
        BY <3>1, <3>2, <3>3
    <2> QED
      BY <1>1, <1>2, <2>1
  <1> QED
    BY <1>1, <1>3

LEMMA ScopeFinish ==
    ASSUME Orderly, Scoped, NEW i \in Importers, Finish(i)
    PROVE  Scoped'
  <1> DEFINE t == imports[i]
             own == t.identity.name
  <1>0. PICK n : n = Len(lists) + 1
    OBVIOUS
  <1>1. /\ ImportOK(i) /\ t.inserted
        /\ n \in Nat \ {0} /\ DOMAIN lists = 1..(n - 1) /\ DOMAIN lists' = 1..n
        /\ \A l \in DOMAIN lists : lists'[l] = lists[l]
    BY <1>0, FinishFacts
  <1>2. \A k \in Keys :
              /\ k \in Seen(t.file) <=> t.writes[k] # None
              /\ k \in Seen(t.file) => inst'[k] = t.writes[k]
              /\ k \in Removed(t) => /\ inst[k] # None
                                     /\ inst'[k] = [inst[k] EXCEPT !.latest = t.at,
                                                      !.current = FALSE, !.removed = t.at]
              /\ k \notin Seen(t.file) \cup Removed(t) => inst'[k] = inst[k]
    BY <1>0, FinishFacts
  <1>3. lists'[n] = [file |-> t.file, identity |-> t.identity, at |-> t.at,
                     done |-> began, previous |-> t.previous,
                     entries |-> EntriesOf(t.file),
                     diffs |-> Differences(Entries(t.previous), t.file)]
    BY <1>0, FinishFacts
  <1>4. /\ lists'[n].at = t.at /\ lists'[n].identity.name = own
        /\ DOMAIN lists'[n].entries = Seen(t.file)
    BY <1>3 DEF EntriesOf
  <1>5. \A k : NamedLists(k)' = NamedLists(k) \cup (IF k \in Seen(t.file) THEN {n} ELSE {})
    BY <1>1, <1>4 DEF NamedLists, NamedIn
  <1>6. \A name : Of(name)' = Of(name) \cup (IF name = own THEN {n} ELSE {})
    BY <1>1, <1>4 DEF Of
  <1>7. \A name : \A l \in Of(name) : l \in DOMAIN lists /\ lists'[l] = lists[l] /\ l < n
    BY <1>1 DEF Of
  <1> SUFFICES ASSUME NEW name \in ListNames, OneAtATime(name)', NEW k \in Keys, OnlyOf(name, k)'
               PROVE  Follows(k, Max(NamedLists(k)), Later(name, k))'
    BY DEF Scoped
  <1>8. OneAtATime(name)
    BY <1>6, <1>7 DEF OneAtATime
  <1>9. name = own => \A l \in Of(name) : lists[l].done < t.at
    BY <1>1, <1>4, <1>6, <1>7 DEF OneAtATime
  <1>10. OnlyOf(name, k) => Follows(k, Max(NamedLists(k)), Later(name, k))
    BY <1>8 DEF Scoped
  <1>11. /\ NamedLists(k)' = NamedLists(k) \cup (IF k \in Seen(t.file) THEN {n} ELSE {})
        /\ Of(name)' = Of(name) \cup (IF name = own THEN {n} ELSE {})
    BY <1>5, <1>6
  <1>12. NamedLists(k)' # {} /\ NamedLists(k)' \subseteq Of(name)'
    BY DEF OnlyOf
  <1>13. n \notin Of(name) /\ n \notin NamedLists(k)
    BY <1>1, <1>7 DEF NamedLists
  <1>14. CASE name # own
    <2>1. Of(name)' = Of(name) /\ k \notin Seen(t.file) /\ NamedLists(k)' = NamedLists(k)
      <3> HIDE DEF t, own
      <3> QED
        BY <1>11, <1>12, <1>13, <1>14
    <2>2. OnlyOf(name, k) /\ Later(name, k)' = Later(name, k)
      BY <2>1, <1>12 DEF OnlyOf, Later
    <2>3. k \notin Removed(t)
      <3> SUFFICES ASSUME k \in Removed(t) PROVE FALSE
        OBVIOUS
      <3>1. t.previous # None /\ k \in DOMAIN lists[t.previous].entries
        BY DEF Removed, Entries
      <3>2. t.previous \in NamedLists(k) /\ lists[t.previous].identity.name = own
        BY <1>1, <3>1 DEF ImportOK, PreviousOK, NamedLists, NamedIn
      <3> QED
        BY <1>14, <2>2, <3>2 DEF OnlyOf, Of
    <2>4. inst'[k] = inst[k]
      BY <1>2, <2>1, <2>3
    <2>5. lists'[Max(NamedLists(k))] = lists[Max(NamedLists(k))]
      BY <1>7, <2>2, ScopeSets
    <2>6. Later(name, k) # {} => lists'[Min(Later(name, k))] = lists[Min(Later(name, k))]
      BY <1>7, <2>2, ScopeSets DEF Later
    <2> QED
      BY <1>10, <2>1, <2>2, <2>4, <2>5, <2>6 DEF Follows
  <1>15. CASE name = own /\ k \in Seen(t.file)
    <2>1. n \in NamedLists(k)' /\ NamedLists(k)' \in SUBSET (1..n)
      BY <1>1, <1>5, <1>15 DEF NamedLists
    <2>2. Max(NamedLists(k)') = n
      <3>1. PICK T : T = NamedLists(k)'
        OBVIOUS
      <3>2. n \in Nat /\ T \in SUBSET (1..n) /\ n \in T
        BY <1>1, <2>1, <3>1
      <3>3. \A y \in T : y <= n
        BY <3>2
      <3>4. n = Max(T)
        BY <3>2, <3>3, MaxFacts
      <3> QED
        BY <3>1, <3>4
    <2>3. Later(name, k)' = {}
      BY <1>1, <2>2 DEF Later, Of
    <2>4. inst'[k].removed = None /\ inst'[k].latest = t.at
      <3>1. inst'[k] = t.writes[k] /\ t.writes[k] # None
        BY <1>2, <1>15
      <3>2. t.writes[k].removed = None /\ t.writes[k].latest = t.at
        BY <1>1, <3>1 DEF ImportOK, WritesOK
      <3> QED
        BY <3>1, <3>2
    <2> QED
      BY <1>4, <2>2, <2>3, <2>4 DEF Follows
  <1>16. CASE name = own /\ k \notin Seen(t.file)
    <2>1. Of(name)' = Of(name) \cup {n} /\ NamedLists(k)' = NamedLists(k) /\ OnlyOf(name, k)
      <3> HIDE DEF t, own
      <3> QED
        BY <1>11, <1>12, <1>13, <1>16 DEF OnlyOf
    <2> DEFINE last == Max(NamedLists(k))
    <2>2. /\ last \in Of(name) /\ last \in NamedLists(k) /\ last \in Nat
          /\ \A l \in NamedLists(k) : l <= last
          /\ Of(name) \subseteq Nat /\ inst[k] # None
      BY <2>1, ScopeSets
    <2> HIDE DEF last
    <2>3. last < n /\ Later(name, k) = {l \in Of(name) : l > last}
      BY <1>7, <2>2 DEF Later, last
    <2>4. Later(name, k)' = Later(name, k) \cup {n}
      BY <1>1, <2>1, <2>2, <2>3 DEF Later, last
    <2>5. t.previous \in Of(name) /\ \A l \in Of(name) : l <= t.previous
      BY <1>1, <1>8, <1>9, <1>16, <2>2, PreviousIsLast
    <2>6. t.previous \in Nat /\ t.previous # None
      BY <2>2, <2>5, ListsAssumption
    <2>7. CASE Later(name, k) = {}
      <3>1. t.previous = last
        <4>1. t.previous <= last
          BY <2>2, <2>3, <2>5, <2>6, <2>7
        <4>2. last <= t.previous
          BY <2>2, <2>5
        <4> QED
          BY <2>2, <2>6, <4>1, <4>2
      <3>2. k \in Removed(t)
        BY <1>16, <2>2, <2>6, <3>1 DEF Removed, Entries, NamedLists, NamedIn
      <3>3. inst'[k].removed = t.at
        BY <1>2, <2>2, <3>2 DEF Orderly, Shape, Institution
      <3>4. Later(name, k)' = {n} /\ Min({n}) = n
        <4>1. {n} \in SUBSET Nat
          BY <1>1
        <4> QED
          BY <2>4, <2>7, <4>1, MinFacts
      <3> QED
        BY <1>4, <3>3, <3>4 DEF Follows
    <2>8. CASE Later(name, k) # {}
      <3>1. PICK o \in Later(name, k) : TRUE
        BY <2>8
      <3>2. t.previous > last
        BY <2>2, <2>3, <2>5, <2>6, <3>1
      <3>3. k \notin Removed(t)
        <4>1. t.previous \notin NamedLists(k)
          BY <2>2, <2>6, <3>2
        <4> QED
          BY <1>1, <2>6, <4>1 DEF Removed, Entries, NamedLists, NamedIn, ImportOK, PreviousOK
      <3>4. inst'[k] = inst[k]
        BY <1>2, <1>16, <3>3
      <3> DEFINE first == Min(Later(name, k))
      <3>5. /\ first \in Later(name, k) /\ \A l \in Later(name, k) : first <= l
            /\ Later(name, k) \subseteq Nat
        <4>1. Later(name, k) \in SUBSET Nat
          BY <2>1, ScopeSets
        <4> QED
          BY <2>8, <4>1, MinFacts
      <3> HIDE DEF first
      <3>6. first < n
        BY <1>7, <2>3, <3>5
      <3>7. first = Min(Later(name, k) \cup {n})
        <4>1. Later(name, k) \cup {n} \in SUBSET Nat /\ Later(name, k) \cup {n} # {}
          BY <1>1, <3>5
        <4>2. first \in Later(name, k) \cup {n} /\ \A l \in Later(name, k) \cup {n} : first <= l
          BY <1>1, <3>5, <3>6
        <4> QED
          BY <4>1, <4>2, MinFacts
      <3>8. lists'[first] = lists[first]
        BY <1>7, <2>3, <3>5
      <3>9. inst[k].removed = lists[first].at
        BY <1>10, <2>1, <2>8 DEF Follows, first
      <3>10. Later(name, k)' # {} /\ Min(Later(name, k)') = first
        BY <2>4, <3>7
      <3> QED
        BY <3>4, <3>8, <3>9, <3>10 DEF Follows
    <2> QED
      BY <2>7, <2>8
  <1> QED
    BY <1>14, <1>15, <1>16

LEMMA ScopeStays ==
    ASSUME Orderly, Scoped, lists' = lists,
           \A k \in Keys : inst[k] # None => /\ inst'[k].removed = inst[k].removed
                                             /\ inst'[k].latest = inst[k].latest
    PROVE  Scoped'
  <1> SUFFICES ASSUME NEW name \in ListNames, OneAtATime(name)', NEW k \in Keys,
                      OnlyOf(name, k)'
               PROVE  Follows(k, Max(NamedLists(k)), Later(name, k))'
    BY DEF Scoped
  <1>1. /\ OneAtATime(name) /\ OnlyOf(name, k)
        /\ NamedLists(k)' = NamedLists(k) /\ Later(name, k)' = Later(name, k)
    BY DEF OneAtATime, OnlyOf, NamedLists, NamedIn, Later, Of
  <1>2. inst'[k].removed = inst[k].removed /\ inst'[k].latest = inst[k].latest
    BY <1>1, ScopeSets
  <1>3. Follows(k, Max(NamedLists(k)), Later(name, k))
    BY <1>1 DEF Scoped
  <1> QED
    BY <1>1, <1>2, <1>3 DEF Follows

(* Whatever lists and people do, an institution that only one name's lists   *)
(* have named is in scope exactly when the newest of them names it, provided *)
(* that imports of that name do not overlap (importer.py:508-540).           *)
THEOREM ScopeIsOfTheLatest == Spec => []ScopeFollowsLists
  <1>1. Init => Scoped
    BY DEF Init, ListsInit, Scoped, OnlyOf, NamedLists
  <1>2. Orderly /\ Scoped /\ [Next]_vars => Scoped'
    <2> SUFFICES ASSUME Orderly, Scoped, [Next]_vars PROVE Scoped'
      OBVIOUS
    <2>1. ASSUME NEW i \in Importers, Finish(i) PROVE Scoped'
      BY <2>1, ScopeFinish
    <2>2. CASE UNCHANGED <<lists, inst>>
      BY <2>2, ScopeStays
    <2>3. ASSUME NEW k \in Keys, RequestReview(k) \/ Advance(k) PROVE Scoped'
      BY <2>3, PeopleFacts, ScopeStays
    <2>4. CASE ListsNext
      BY <2>1, <2>2, <2>3, <2>4 DEF ListsNext, Compare, Look, Write, Rollback, Begin
    <2> QED
      BY <2>2, <2>4 DEF Next, vars, Export, ImportWorkbook
  <1>3. Scoped => ScopeFollowsLists
    BY ScopeAsFollows
  <1> QED
    BY <1>1, <1>2, <1>3, OrderlyInit, OrderlyStep, PTL DEF Spec

----------------------------------------------------------------------------
(* Differences *)

Columns == Compared \cup {"territory"}

LEMMA DifferenceFacts ==
    ASSUME NEW before, NEW f, NEW d
    PROVE  d \in Differences(before, f)
              <=> \/ \E n \in RowsOf(f) : d \in RowDiffs(before, LineOf(f, n))
                  \/ \E k \in DOMAIN before \ Seen(f) :
                        d = Diff("REMOVED_FROM_NEW_LIST", k, None)
  <1>1. d \in Changes(before, f)
           <=> \E n \in RowsOf(f) : d \in RowDiffs(before, LineOf(f, n))
    BY Zenon DEF Changes
  <1>2. d \in Losses(before, f)
           <=> \E k \in DOMAIN before \ Seen(f) : d = Diff("REMOVED_FROM_NEW_LIST", k, None)
    BY Zenon DEF Losses
  <1> QED
    BY <1>1, <1>2, Zenon DEF Differences

(* The differences of one row: what is new of it, and nothing else. *)
LEMMA RowDiffFacts ==
    ASSUME NEW before, NEW row \in Row
    PROVE  \A d \in RowDiffs(before, row) :
              /\ d.key = KeyOf[row.name] /\ d.kind # "REMOVED_FROM_NEW_LIST"
              /\ d.kind = "ADDED_TARGET" <=> KeyOf[row.name] \notin DOMAIN before
              /\ \A c \in DOMAIN d.after : c \in Columns /\ d.after[c] = Snapshot(row)[c]
  <1> SUFFICES ASSUME NEW d \in RowDiffs(before, row)
               PROVE  /\ d.key = KeyOf[row.name] /\ d.kind # "REMOVED_FROM_NEW_LIST"
                      /\ d.kind = "ADDED_TARGET" <=> KeyOf[row.name] \notin DOMAIN before
                      /\ \A c \in DOMAIN d.after : c \in Columns /\ d.after[c] = Snapshot(row)[c]
    OBVIOUS
  <1> DEFINE k == KeyOf[row.name]
             new == Snapshot(row)
  <1>1. CASE k \notin DOMAIN before
    <2>1. d = Diff("ADDED_TARGET", k, new)
      BY <1>1 DEF RowDiffs
    <2> QED
      BY <1>1, <2>1 DEF Diff, Snapshot, Columns, Compared
  <1>2. CASE k \in DOMAIN before
    <2>1. \/ d = Diff("RANK_CHANGED", k, [rank |-> new.rank])
          \/ d = Diff("NAME_CHANGED", k, [name |-> new.name])
          \/ d = Diff("REGION_CHANGED", k, [region |-> new.region, dest |-> new.dest])
      BY <1>2 DEF RowDiffs
    <2>2. CASE d = Diff("RANK_CHANGED", k, [rank |-> new.rank])
      BY <1>2, <2>2 DEF Diff, Snapshot, Columns, Compared
    <2>3. CASE d = Diff("NAME_CHANGED", k, [name |-> new.name])
      BY <1>2, <2>3 DEF Diff, Snapshot, Columns, Compared
    <2>4. CASE d = Diff("REGION_CHANGED", k, [region |-> new.region, dest |-> new.dest])
      BY <1>2, <2>4 DEF Diff, Snapshot, Columns, Compared
    <2> QED
      BY <2>1, <2>2, <2>3, <2>4
  <1> QED
    BY <1>1, <1>2

(* Where a row differs from the one before in a column that is compared, a   *)
(* difference says so.                                                       *)
LEMMA RowDiffsComplete ==
    ASSUME NEW before, NEW row \in Row, NEW c \in Compared,
           KeyOf[row.name] \in DOMAIN before =>
              Snapshot(before[KeyOf[row.name]])[c] # Snapshot(row)[c]
    PROVE  \E d \in RowDiffs(before, row) : c \in DOMAIN d.after
  <1> DEFINE k == KeyOf[row.name]
             new == Snapshot(row)
             old == Snapshot(before[k])
  <1>1. CASE k \notin DOMAIN before
    BY <1>1 DEF RowDiffs, Diff, Snapshot, Compared
  <1>2. CASE k \in DOMAIN before
    <2>1. old[c] # new[c]
      BY <1>2
    <2>2. CASE c = "rank"
      <3> DEFINE d == Diff("RANK_CHANGED", k, [rank |-> new.rank])
      <3>1. DOMAIN d.after = {"rank"} /\ d.after[c] # old[c]
        BY <2>1, <2>2 DEF Diff, Snapshot
      <3>2. d \in RowDiffs(before, row)
        BY <1>2, <2>2, <3>1 DEF RowDiffs
      <3> QED
        BY <2>2, <3>1, <3>2
    <2>3. CASE c = "name"
      <3> DEFINE d == Diff("NAME_CHANGED", k, [name |-> new.name])
      <3>1. DOMAIN d.after = {"name"} /\ d.after[c] # old[c]
        BY <2>1, <2>3 DEF Diff, Snapshot
      <3>2. d \in RowDiffs(before, row)
        BY <1>2, <2>3, <3>1 DEF RowDiffs
      <3> QED
        BY <2>3, <3>1, <3>2
    <2>4. CASE c \in {"region", "dest"}
      <3> DEFINE d == Diff("REGION_CHANGED", k, [region |-> new.region, dest |-> new.dest])
      <3>1. DOMAIN d.after = {"region", "dest"}
        BY DEF Diff
      <3>2. old.region # new.region \/ old.dest # new.dest
        BY <2>1, <2>4
      <3>3. d \in RowDiffs(before, row)
        BY <1>2, <3>2 DEF RowDiffs
      <3> QED
        BY <2>4, <3>1, <3>3
    <2> QED
      BY <2>2, <2>3, <2>4 DEF Compared
  <1> QED
    BY <1>1, <1>2

LEMMA EntryFacts ==
    ASSUME NEW f \in Files, Importable(f)
    PROVE  /\ EntriesOf(f) = [k \in Seen(f) |-> EntriesOf(f)[k]]
           /\ \A n \in RowsOf(f) : EntriesOf(f)[KeyAt(f, n)] = LineOf(f, n)
  <1>1. EntriesOf(f) = [k \in Seen(f) |-> EntriesOf(f)[k]]
    BY DEF EntriesOf
  <1>2. ASSUME NEW n \in RowsOf(f) PROVE EntriesOf(f)[KeyAt(f, n)] = LineOf(f, n)
    <2> DEFINE x == CHOOSE m \in RowsOf(f) : KeyAt(f, m) = KeyAt(f, n)
    <2>1. x \in RowsOf(f) /\ KeyAt(f, x) = KeyAt(f, n)
      OBVIOUS
    <2>2. x = n
      BY <2>1 DEF Importable
    <2>3. KeyAt(f, n) \in Seen(f)
      BY DEF Seen
    <2> QED
      BY <2>2, <2>3 DEF EntriesOf
  <1> QED
    BY <1>1, <1>2

(* Replaying the differences of a file on the entries before it gives its own. *)
LEMMA ReplayIsExact ==
    ASSUME NEW f \in Files, Importable(f), NEW before
    PROVE  Replay(before, Differences(before, f), Compared)
              = [k \in Seen(f) |-> [c \in Compared |-> Snapshot(EntriesOf(f)[k])[c]]]
  <1> DEFINE diffs == Differences(before, f)
             gone  == {x \in diffs : x.kind = "REMOVED_FROM_NEW_LIST"}
             added == {d.key : d \in {x \in diffs : x.kind = "ADDED_TARGET"}}
             told(k, c) == {d \in diffs \ gone : d.key = k /\ c \in DOMAIN d.after}
             col(k, c) == IF told(k, c) = {} THEN Snapshot(before[k])[c]
                          ELSE (CHOOSE d \in told(k, c) : TRUE).after[c]
  <1>1. \A d : d \in diffs <=> \/ \E n \in RowsOf(f) : d \in RowDiffs(before, LineOf(f, n))
                               \/ \E k \in DOMAIN before \ Seen(f) :
                                     d = Diff("REMOVED_FROM_NEW_LIST", k, None)
    BY DifferenceFacts
  <1> HIDE DEF diffs
  <1>2. Replay(before, diffs, Compared) =
           [k \in (DOMAIN before \cup added) \ {d.key : d \in gone} |->
               [c \in Compared |-> col(k, c)]]
    BY DEF Replay
  <1>3. \A d \in diffs : d \in gone <=> \E k \in DOMAIN before \ Seen(f) :
                                     d = Diff("REMOVED_FROM_NEW_LIST", k, None)
    BY <1>1, RowFacts, RowDiffFacts DEF Diff
  <1>4. {d.key : d \in gone} = DOMAIN before \ Seen(f)
    <2>1. \A k \in DOMAIN before \ Seen(f) :
             /\ Diff("REMOVED_FROM_NEW_LIST", k, None) \in gone
             /\ Diff("REMOVED_FROM_NEW_LIST", k, None).key = k
      BY <1>1 DEF Diff
    <2> QED
      BY <1>3, <2>1
  <1>5. \A d \in diffs \ gone : \E n \in RowsOf(f) : d \in RowDiffs(before, LineOf(f, n))
                                                   /\ d.key = KeyAt(f, n)
    BY <1>1, <1>3, RowFacts, RowDiffFacts DEF KeyAt
  <1>6. \A n \in RowsOf(f) : \A d \in RowDiffs(before, LineOf(f, n)) :
            d \in diffs \ gone /\ d.key = KeyAt(f, n)
    BY <1>1, RowFacts, RowDiffFacts DEF KeyAt
  <1>7. Seen(f) \ DOMAIN before \subseteq added
    <2> SUFFICES ASSUME NEW n \in RowsOf(f), KeyAt(f, n) \notin DOMAIN before
                 PROVE  KeyAt(f, n) \in added
      BY DEF Seen
    <2> DEFINE d == Diff("ADDED_TARGET", KeyAt(f, n), Snapshot(LineOf(f, n)))
    <2>1. d \in RowDiffs(before, LineOf(f, n))
      BY DEF RowDiffs, KeyAt
    <2>2. d \in diffs /\ d.kind = "ADDED_TARGET" /\ d.key = KeyAt(f, n)
      BY <1>6, <2>1 DEF Diff
    <2> QED
      BY <2>2
  <1>8. added \subseteq Seen(f)
    <2> SUFFICES ASSUME NEW d \in diffs, d.kind = "ADDED_TARGET" PROVE d.key \in Seen(f)
      OBVIOUS
    <2>1. d \notin gone
      OBVIOUS
    <2> QED
      BY <1>5, <2>1 DEF Seen
  <1>9. (DOMAIN before \cup added) \ {d.key : d \in gone} = Seen(f)
    <2> HIDE DEF added, gone
    <2> QED
      BY <1>4, <1>7, <1>8
  <1>10. ASSUME NEW k \in Seen(f)
         PROVE  [c \in Compared |-> col(k, c)]
                   = [c \in Compared |-> Snapshot(EntriesOf(f)[k])[c]]
    <2>1. PICK n \in RowsOf(f) : KeyAt(f, n) = k
      BY DEF Seen
    <2> DEFINE row == LineOf(f, n)
    <2>2. EntriesOf(f)[k] = row /\ row \in Row /\ KeyOf[row.name] = k
      BY <2>1, EntryFacts, RowFacts DEF KeyAt
    <2>3. ASSUME NEW c \in Compared PROVE col(k, c) = Snapshot(row)[c]
      <3>1. \A d \in told(k, c) : d.after[c] = Snapshot(row)[c]
        <4> SUFFICES ASSUME NEW d \in diffs \ gone, d.key = k, c \in DOMAIN d.after
                     PROVE  d.after[c] = Snapshot(row)[c]
          OBVIOUS
        <4>1. PICK m \in RowsOf(f) : d \in RowDiffs(before, LineOf(f, m)) /\ d.key = KeyAt(f, m)
          BY <1>5
        <4>2. m = n
          BY <2>1, <4>1 DEF Importable
        <4> QED
          BY <2>2, <4>1, <4>2, RowDiffFacts
      <3>2. CASE told(k, c) = {}
        <4>1. \A d \in RowDiffs(before, row) : c \notin DOMAIN d.after
          BY <1>6, <2>1, <3>2
        <4>2. k \in DOMAIN before /\ Snapshot(before[k])[c] = Snapshot(row)[c]
          BY <2>2, <4>1, RowDiffsComplete
        <4> QED
          BY <3>2, <4>2
      <3>3. CASE told(k, c) # {}
        <4>1. (CHOOSE d \in told(k, c) : TRUE) \in told(k, c)
          BY <3>3
        <4> QED
          BY <3>1, <3>3, <4>1
      <3> QED
        BY <3>2, <3>3
    <2> HIDE DEF col
    <2> QED
      BY <2>2, <2>3
  <1> HIDE DEF col, gone, added
  <1>11. Replay(before, diffs, Compared)
            = [k \in Seen(f) |-> [c \in Compared |-> Snapshot(EntriesOf(f)[k])[c]]]
    BY <1>2, <1>9, <1>10
  <1> QED
    BY <1>11 DEF diffs

(* A file that says truly how many lines it has loses none of them. *)
LEMMA NoLineLost ==
    ASSUME NEW f \in Files, Importable(f),
           Sheet[f].declared = Cardinality(Named(Sheet[f].lines))
    PROVE  Seen(f) = {KeyOf[Sheet[f].lines[n].name] : n \in Named(Sheet[f].lines)}
  <1> DEFINE all == Named(Sheet[f].lines)
  <1>1. Sheet[f].lines \in Seq(Row \cup {Blank})
    BY ListsAssumption
  <1>2. all \subseteq 1..Len(Sheet[f].lines) /\ Len(Sheet[f].lines) \in Nat
    BY <1>1 DEF Named
  <1>3. IsFiniteSet(1..Len(Sheet[f].lines))
    <2>1. \A m \in Nat : IsFiniteSet(1..m)
      BY FS_Interval
    <2> QED
      BY <1>2, <2>1
  <1>4. IsFiniteSet(all)
    BY <1>2, <1>3, FS_Subset
  <1>5. RowsOf(f) \subseteq all /\ RowsOf(f) # {}
    BY DEF RowsOf, Rows, Importable
  <1>6. Cardinality(all) # 0
    BY <1>4, <1>5, FS_EmptySet
  <1>7. Cardinality(RowsOf(f)) = Cardinality(all)
    BY <1>6 DEF Importable
  <1>8. RowsOf(f) = all
    BY <1>4, <1>5, <1>7, FS_Subset
  <1> QED
    BY <1>8 DEF Seen, KeyAt, LineOf

Exact(l) ==
    /\ lists[l].entries = EntriesOf(lists[l].file)
    /\ lists[l].diffs = Differences(Entries(lists[l].previous), lists[l].file)

Told == \A l \in DOMAIN lists : Exact(l)

LEMMA ToldFinish ==
    ASSUME Orderly, Told, NEW i \in Importers, Finish(i)
    PROVE  Told'
  <1>1. PICK n : n = Len(lists) + 1
    OBVIOUS
  <1>2. PICK p, f : p = imports[i].previous /\ f = imports[i].file
    OBVIOUS
  <1>3. /\ ImportOK(i) /\ n \in Nat \ {0} /\ DOMAIN lists = 1..(n - 1) /\ DOMAIN lists' = 1..n
        /\ \A l \in DOMAIN lists : lists'[l] = lists[l]
    BY <1>1, FinishFacts
  <1>4. lists'[n] = [file |-> imports[i].file, identity |-> imports[i].identity,
                     at |-> imports[i].at, done |-> began, previous |-> imports[i].previous,
                     entries |-> EntriesOf(imports[i].file),
                     diffs |-> Differences(Entries(imports[i].previous), imports[i].file)]
    BY <1>1, FinishFacts
  <1>5. \A q : (q # None => q \in DOMAIN lists) => Entries(q)' = Entries(q)
    BY <1>3 DEF Entries
  <1>6. ASSUME NEW l \in DOMAIN lists PROVE Exact(l)'
    <2>1. Exact(l) /\ lists'[l] = lists[l]
      BY <1>3 DEF Told
    <2>2. PICK q : q = lists[l].previous
      OBVIOUS
    <2>3. q # None => q \in DOMAIN lists
      BY <1>3, <2>2 DEF Orderly, ListOK
    <2>4. Entries(q)' = Entries(q)
      BY <1>5, <2>3
    <2> QED
      BY <2>1, <2>2, <2>4 DEF Exact
  <1>7. Exact(n)'
    <2>1. p # None => p \in DOMAIN lists
      BY <1>2, <1>3 DEF ImportOK, PreviousOK
    <2>2. Entries(p)' = Entries(p)
      BY <1>5, <2>1
    <2>3. /\ lists'[n].file = f /\ lists'[n].entries = EntriesOf(f)
          /\ lists'[n].previous = p /\ lists'[n].diffs = Differences(Entries(p), f)
      BY <1>2, <1>4
    <2> QED
      BY <2>2, <2>3 DEF Exact
  <1> QED
    BY <1>3, <1>6, <1>7 DEF Told

(* The differences that an import stores turn the list it follows into its   *)
(* own in the columns that are compared, which leave out the territory, and  *)
(* a file that says truly how many institutions it has loses none of its     *)
(* lines (importer.py:22-25, target_list.py:574-582).                        *)
THEOREM DifferencesTellAll == Spec => []EveryDifferenceIsRecorded
  <1>1. Init => Told
    BY DEF Init, ListsInit, Told
  <1>2. Orderly /\ Told /\ [Next]_vars => Told'
    <2> SUFFICES ASSUME Orderly, Told, [Next]_vars PROVE Told'
      OBVIOUS
    <2>1. CASE UNCHANGED lists
      BY <2>1 DEF Told, Exact, Entries
    <2>2. CASE ListsNext
      BY <2>1, <2>2, ToldFinish
         DEF ListsNext, Begin, Compare, Look, Write, Rollback, RequestReview, Advance
    <2> QED
      BY <2>1, <2>2 DEF Next, vars, Export, ImportWorkbook
  <1>3. Orderly /\ Told => EveryDifferenceIsRecorded
    <2> SUFFICES ASSUME Orderly, Told, NEW l \in DOMAIN lists
                 PROVE  /\ Retold(l, Compared)
                        /\ Sheet[lists[l].file].declared
                             = Cardinality(Named(Sheet[lists[l].file].lines)) =>
                           DOMAIN lists[l].entries
                             = {KeyOf[Sheet[lists[l].file].lines[n].name] :
                                   n \in Named(Sheet[lists[l].file].lines)}
      BY DEF EveryDifferenceIsRecorded
    <2>1. PICK f, before : f = lists[l].file /\ before = Entries(lists[l].previous)
      OBVIOUS
    <2>2. f \in Files /\ Importable(f) /\ lists[l].entries = EntriesOf(f)
      BY <2>1 DEF Orderly, ListOK, Told, Exact
    <2>3. DOMAIN lists[l].entries = Seen(f)
      BY <2>2 DEF EntriesOf
    <2>4. lists[l].diffs = Differences(before, f)
      BY <2>1 DEF Told, Exact
    <2>5. Replay(before, Differences(before, f), Compared)
             = [k \in Seen(f) |-> [c \in Compared |-> Snapshot(EntriesOf(f)[k])[c]]]
      BY <2>2, ReplayIsExact
    <2>7. Retold(l, Compared)
      BY <2>1, <2>2, <2>3, <2>4, <2>5 DEF Retold
    <2>6. Sheet[f].declared = Cardinality(Named(Sheet[f].lines)) =>
             Seen(f) = {KeyOf[Sheet[f].lines[n].name] : n \in Named(Sheet[f].lines)}
      BY <2>2, NoLineLost
    <2> QED
      BY <2>1, <2>3, <2>6, <2>7
  <1> QED
    BY <1>1, <1>2, <1>3, OrderlyInit, OrderlyStep, PTL DEF Spec

----------------------------------------------------------------------------
(* The workbook *)

(* In a book without errors a reference names one row, of an institution     *)
(* that is known.                                                            *)
LEMMA RefFacts ==
    ASSUME NEW R, NEW rows \in Seq(R), NEW known, W!RefErrors(rows, known) = {}
    PROVE  /\ \A i \in DOMAIN rows :
                 /\ rows[i].ref \notin {Malformed, None} /\ rows[i].id \in known
                 /\ \A j \in DOMAIN rows : rows[j].ref = rows[i].ref => j = i
           /\ \A ref : ref \in DOMAIN W!Defined(rows, known)
                          <=> \E i \in DOMAIN rows : ref = rows[i].ref
           /\ \A i \in DOMAIN rows : W!Defined(rows, known)[rows[i].ref] = rows[i].id
  <1>1. DOMAIN rows = W!Defining(rows, known)
    <2>1. DOMAIN rows \ W!Defining(rows, known) = {}
      BY DEF W!RefErrors
    <2> QED
      BY <2>1 DEF W!Defining
  <1>2. \A i \in DOMAIN rows :
            /\ rows[i].ref \notin {Malformed, None} /\ rows[i].id \in known
            /\ \A j \in 1..(i - 1) : rows[j].ref # rows[i].ref \/ rows[j].id \notin known
    BY <1>1 DEF W!Defining
  <1>3. \A i \in DOMAIN rows : i \in Nat /\ \A j \in DOMAIN rows : j < i => j \in 1..(i - 1)
    OBVIOUS
  <1>4. ASSUME NEW i \in DOMAIN rows, NEW j \in DOMAIN rows, rows[j].ref = rows[i].ref
        PROVE  j = i
    BY <1>2, <1>3, <1>4
  <1>5. \A ref : ref \in DOMAIN W!Defined(rows, known)
                   <=> \E i \in DOMAIN rows : ref = rows[i].ref
    BY <1>1 DEF W!Defined
  <1>6. ASSUME NEW i \in DOMAIN rows
        PROVE  W!Defined(rows, known)[rows[i].ref] = rows[i].id
    <2> DEFINE x == CHOOSE j \in W!Defining(rows, known) : rows[j].ref = rows[i].ref
    <2>1. x \in DOMAIN rows /\ rows[x].ref = rows[i].ref
      BY <1>1
    <2>2. x = i
      BY <1>4, <2>1
    <2> HIDE DEF x
    <2>3. W!Defined(rows, known)[rows[i].ref] = rows[x].id
      BY <1>1 DEF W!Defined, x
    <2> QED
      BY <2>2, <2>3
  <1> QED
    BY <1>2, <1>4, <1>5, <1>6

LEMMA RefCheckFacts ==
    ASSUME NEW ref, NEW defined, NEW id, W!RefCheck(ref, defined, id) = {}, ref # None
    PROVE  ref \in DOMAIN defined /\ defined[ref] = id
  BY DEF W!RefCheck

BookOK(book) ==
    /\ book.selection \in Seq(W!Choice) /\ book.programs \in Seq(W!Program)
    /\ book.sources \in Seq(W!Source) /\ book.facts \in Seq(W!Fact)

(* What a fact of a book without errors is, as far as the tables ask. *)
FactClean(fact, programs, sources, dest) ==
    /\ fact.id # Malformed
    /\ W!ShapeErrors(fact, IF fact.id \in DOMAIN dest THEN dest[fact.id] ELSE None) = {}
    /\ W!RefCheck(fact.program, programs, fact.id) = {}
    /\ W!RefCheck(fact.source, sources, fact.id) = {}
    /\ fact.status \in {"PUBLISHED", "OFFICIALLY_NOT_PUBLISHED"} => fact.source # None
    /\ fact.status = "PUBLISHED" => W!HasValue(fact)

LEMMA CleanFacts ==
    ASSUME NEW book, BookOK(book), NEW dest, NEW expected,
           W!Errors(book, dest, expected) = {}
    PROVE  /\ W!SelectionErrors(book.selection, DOMAIN dest) = {}
           /\ W!RefErrors(book.programs, DOMAIN dest) = {}
           /\ W!RefErrors(book.sources, DOMAIN dest) = {}
           /\ \A i \in DOMAIN book.facts :
                 FactClean(book.facts[i], W!Defined(book.programs, DOMAIN dest),
                           W!Defined(book.sources, DOMAIN dest), dest)
  <1> DEFINE programs == W!Defined(book.programs, DOMAIN dest)
             sources == W!Defined(book.sources, DOMAIN dest)
             ofFacts == UNION {W!FactErrors(fact, programs, sources, dest) :
                                  fact \in W!Range(book.facts)}
  <1>1. /\ W!SelectionErrors(book.selection, DOMAIN dest) = {}
        /\ W!RefErrors(book.programs, DOMAIN dest) = {}
        /\ W!RefErrors(book.sources, DOMAIN dest) = {}
        /\ ofFacts = {}
    <2> HIDE DEF ofFacts
    <2> QED
      BY DEF W!Errors, ofFacts
  <1> HIDE DEF programs, sources
  <1>2. \A fact \in W!Range(book.facts) : W!FactErrors(fact, programs, sources, dest) = {}
    BY <1>1
  <1>3. \A i \in DOMAIN book.facts : W!FactErrors(book.facts[i], programs, sources, dest) = {}
    BY <1>2 DEF W!Range
  <1>4. ASSUME NEW fact, W!FactErrors(fact, programs, sources, dest) = {}
        PROVE  FactClean(fact, programs, sources, dest)
    BY <1>4 DEF W!FactErrors, FactClean
  <1> QED
    BY <1>1, <1>3, <1>4 DEF programs, sources

----------------------------------------------------------------------------
(* What becomes of a book *)

Judged ==
    /\ template # None => template \in SUBSET Keys
    /\ returned # None =>
          /\ BookOK(returned.book) /\ DOMAIN returned.dest \subseteq Keys
          /\ returned.outcome \in {"refused", "aborted", "imported"}
          /\ returned.outcome # "refused" =>
                \E expected : W!Errors(returned.book, returned.dest, expected) = {}
          /\ returned.outcome = "imported" => W!Accepted(returned.book, DOMAIN returned.dest)
          /\ returned.outcome = "aborted" => ~W!Accepted(returned.book, DOMAIN returned.dest)

LEMMA SelectionFacts ==
    ASSUME NEW rows \in SUBSET Keys
    PROVE  /\ Cardinality(rows) \in Nat
           /\ \A n \in 1..Cardinality(rows) : SetToSeq(rows)[n] \in Keys
  <1>1. IsFiniteSet(rows)
    BY BooksAssumption, FS_Subset
  <1>2. Cardinality(rows) \in Nat /\ ExistsBijection(1..Cardinality(rows), rows)
    BY <1>1, FS_CardinalityType
  <1>3. \E f \in [1..Cardinality(rows) -> rows] : IsInjective(f)
    BY <1>2 DEF ExistsBijection, Bijection, Injection
  <1>4. SetToSeq(rows) \in [1..Cardinality(rows) -> rows]
    BY <1>3 DEF SetToSeq
  <1> QED
    BY <1>2, <1>4

LEMMA FilledOK ==
    ASSUME NEW rows \in SUBSET Keys, NEW edit \in Edits
    PROVE  BookOK(Filled(rows, edit))
  <1> DEFINE asked == [n \in 1..Cardinality(rows) |->
                          LET k == SetToSeq(rows)[n]
                          IN  [id |-> k, answer |-> edit.answers[k].answer,
                               homepage |-> edit.answers[k].homepage,
                               fits |-> edit.answers[k].fits]]
  <1>1. /\ edit.answers \in [Keys -> [answer : {"YES", "NO", "other", None},
                                      homepage : W!Homepages, fits : BOOLEAN]]
        /\ edit.extra \in Seq(W!Choice) /\ edit.programs \in Seq(W!Program)
        /\ edit.sources \in Seq(W!Source) /\ edit.facts \in Seq(W!Fact)
    BY BooksAssumption
  <1>2. asked \in Seq(W!Choice)
    <2>1. ASSUME NEW n \in 1..Cardinality(rows) PROVE asked[n] \in W!Choice
      <3> DEFINE k == SetToSeq(rows)[n]
      <3>1. k \in Keys
        BY SelectionFacts
      <3> HIDE DEF k
      <3>2. edit.answers[k] \in [answer : {"YES", "NO", "other", None},
                                 homepage : W!Homepages, fits : BOOLEAN]
        BY <1>1, <3>1
      <3>3. asked[n] = [id |-> k, answer |-> edit.answers[k].answer,
                        homepage |-> edit.answers[k].homepage,
                        fits |-> edit.answers[k].fits]
        BY DEF k
      <3> QED
        BY <3>1, <3>2, <3>3 DEF W!Choice, W!Codes
    <2>2. asked \in [1..Cardinality(rows) -> W!Choice] /\ Cardinality(rows) \in Nat
      <3>1. Cardinality(rows) \in Nat
        BY SelectionFacts
      <3>2. asked = [n \in 1..Cardinality(rows) |-> asked[n]]
        OBVIOUS
      <3> HIDE DEF asked
      <3> QED
        BY <2>1, <3>1, <3>2
    <2> HIDE DEF asked
    <2> QED
      BY <2>2
  <1>3. Filled(rows, edit) = [sheets |-> edit.sheets, selection |-> asked \o edit.extra,
                              programs |-> edit.programs, sources |-> edit.sources,
                              facts |-> edit.facts]
    BY DEF Filled
  <1> HIDE DEF asked
  <1> QED
    BY <1>1, <1>2, <1>3 DEF BookOK

LEMMA JudgedStep == Judged /\ [Next]_vars => Judged'
  <1> SUFFICES ASSUME Judged, [Next]_vars PROVE Judged'
    OBVIOUS
  <1>1. CASE UNCHANGED <<template, returned>>
    BY <1>1 DEF Judged
  <1>2. CASE Export
    BY <1>2 DEF Export, Judged, InScope
  <1>3. ASSUME NEW edit \in Edits, ImportWorkbook(edit) PROVE Judged'
    <2> DEFINE book == Filled(template, edit)
    <2>1. template \in SUBSET Keys /\ template' = template /\ BookOK(book)
      BY <1>3, FilledOK DEF ImportWorkbook, Judged
    <2>2. DOMAIN Destination \subseteq Keys
      BY DEF Destination
    <2>3. returned' = [book |-> book, dest |-> Destination,
             outcome |-> IF W!Errors(book, Destination, edit.expected) # {} THEN "refused"
                         ELSE IF ~W!Accepted(book, DOMAIN Destination) THEN "aborted"
                         ELSE "imported"]
      BY <1>3 DEF ImportWorkbook
    <2> HIDE DEF book
    <2>4. returned'.book = book /\ returned'.dest = Destination
      BY <2>3
    <2>5. CASE W!Errors(book, Destination, edit.expected) # {}
      BY <2>1, <2>2, <2>3, <2>5 DEF Judged
    <2>6. CASE W!Errors(book, Destination, edit.expected) = {}
      <3>1. returned'.outcome # "refused" => \E e : W!Errors(book, Destination, e) = {}
        BY <2>6
      <3>2. /\ returned'.outcome \in {"aborted", "imported"}
            /\ returned'.outcome = "imported" => W!Accepted(book, DOMAIN Destination)
            /\ returned'.outcome = "aborted" => ~W!Accepted(book, DOMAIN Destination)
        BY <2>3, <2>6
      <3> QED
        BY <2>1, <2>2, <2>4, <3>1, <3>2 DEF Judged
    <2> QED
      BY <2>5, <2>6
  <1> QED
    BY <1>1, <1>2, <1>3 DEF Next, vars

LEMMA JudgedInit == Init => Judged
  BY DEF Init, Judged

(* A fee without errors that its columns refuse has a figure that is too large. *)
LEMMA LargeFigure ==
    ASSUME NEW fee \in W!Fee, NEW text, W!FeeErrors(fee, text) = {},
           ~W!FeeColumnsHold(W!StagedFee(fee))
    PROVE  \E n \in {fee.min, fee.max} : W!Amount(n) /\ n >= FigureLimit
  <1> DEFINE figures == {fee.min, fee.max} \ {None}
             staged == W!StagedFee(fee)
  <1>1. \/ fee.kind = None /\ figures = {}
        \/ /\ fee.kind # "other" /\ Malformed \notin figures
           /\ \A n \in figures : ~(n < 0)
    BY DEF W!FeeErrors
  <1>2. /\ fee.kind \in W!AmountKinds \cup {"other", None}
        /\ fee.min \in Int \cup {Malformed, None} /\ fee.max \in Int \cup {Malformed, None}
    BY DEF W!Fee
  <1>3. /\ staged.kind = fee.kind /\ staged.min \in {fee.min, None}
        /\ staged.max \in {fee.max, None}
    BY DEF W!StagedFee, W!Fee
  <1>4. staged.kind \in W!AmountKinds \cup {None}
    BY <1>1, <1>2, <1>3
  <1>5. PICK n \in {staged.min, staged.max} \ {None} : ~(-FigureLimit < n /\ n < FigureLimit)
    BY <1>4 DEF W!FeeColumnsHold
  <1>6. n \in {fee.min, fee.max} /\ n \in figures
    BY <1>3, <1>5
  <1>7. n \in Int /\ ~(n < 0) /\ W!Amount(n)
    BY <1>1, <1>2, <1>6 DEF W!Amount
  <1>8. n >= FigureLimit
    <2>1. FigureLimit \in Nat /\ ~(-FigureLimit < n /\ n < FigureLimit)
      BY <1>5, BooksAssumption
    <2> QED
      BY <1>7, <2>1
  <1> QED
    BY <1>6, <1>7, <1>8

(* Of a clean book the tables refuse nothing but what the gaps name. *)
LEMMA OnlyGapsAbort ==
    ASSUME NEW book, BookOK(book), NEW dest, DOMAIN dest \subseteq Keys, NEW expected,
           W!Errors(book, dest, expected) = {}, ~W!Accepted(book, DOMAIN dest)
    PROVE  W!Gaps(book, DOMAIN dest) # {}
  <1> DEFINE known == DOMAIN dest
             gap(name) == name \in W!Gaps(book, known)
  <1>1. Malformed \notin known
    BY BooksAssumption
  <1>2. /\ W!SelectionErrors(book.selection, known) = {}
        /\ W!RefErrors(book.programs, known) = {}
        /\ W!RefErrors(book.sources, known) = {}
        /\ \A i \in DOMAIN book.facts :
              FactClean(book.facts[i], W!Defined(book.programs, known),
                        W!Defined(book.sources, known), dest)
    BY CleanFacts
  <1> HIDE DEF known
  <1>3. /\ \A i \in DOMAIN book.programs :
              /\ book.programs[i].ref \notin {Malformed, None} /\ book.programs[i].id \in known
              /\ \A j \in DOMAIN book.programs :
                    book.programs[j].ref = book.programs[i].ref => j = i
        /\ \A ref : ref \in DOMAIN W!Defined(book.programs, known)
                       <=> \E i \in DOMAIN book.programs : ref = book.programs[i].ref
    <2>1. PICK rows : rows = book.programs
      OBVIOUS
    <2>2. rows \in Seq(W!Program) /\ W!RefErrors(rows, known) = {}
      BY <1>2, <2>1 DEF BookOK
    <2>3. /\ \A i \in DOMAIN rows :
                /\ rows[i].ref \notin {Malformed, None} /\ rows[i].id \in known
                /\ \A j \in DOMAIN rows : rows[j].ref = rows[i].ref => j = i
          /\ \A ref : ref \in DOMAIN W!Defined(rows, known)
                         <=> \E i \in DOMAIN rows : ref = rows[i].ref
      BY <2>2, RefFacts
    <2> QED
      BY <2>1, <2>3
  <1>4. /\ \A i \in DOMAIN book.sources :
              /\ book.sources[i].ref \notin {Malformed, None} /\ book.sources[i].id \in known
              /\ \A j \in DOMAIN book.sources :
                    book.sources[j].ref = book.sources[i].ref => j = i
        /\ \A ref : ref \in DOMAIN W!Defined(book.sources, known)
                       <=> \E i \in DOMAIN book.sources : ref = book.sources[i].ref
    <2>1. PICK rows : rows = book.sources
      OBVIOUS
    <2>2. rows \in Seq(W!Source) /\ W!RefErrors(rows, known) = {}
      BY <1>2, <2>1 DEF BookOK
    <2>3. /\ \A i \in DOMAIN rows :
                /\ rows[i].ref \notin {Malformed, None} /\ rows[i].id \in known
                /\ \A j \in DOMAIN rows : rows[j].ref = rows[i].ref => j = i
          /\ \A ref : ref \in DOMAIN W!Defined(rows, known)
                         <=> \E i \in DOMAIN rows : ref = rows[i].ref
      BY <2>2, RefFacts
    <2> QED
      BY <2>1, <2>3
  <1>9. ASSUME NEW row \in W!Rows(book), ~row.fits
        PROVE  gap("CELL_TOO_LONG")
    BY <1>9 DEF W!Gaps
  <1>10. ASSUME NEW row \in W!Range(book.programs) \cup W!Range(book.sources),
                row.ref \in OtherDigits
         PROVE  gap("REF_IN_OTHER_DIGITS")
    BY <1>10 DEF W!Gaps
  <1>5. CASE ~W!ChoicesHold(book, known)
    <2>1. PICK row \in W!StagedChoices(book) :
              ~(row.id \in known /\ row.fits /\ (row.answer = "YES" => row.homepage = "usable"))
      BY <1>5 DEF W!ChoicesHold
    <2>2. PICK n \in DOMAIN book.selection : row = book.selection[n]
      BY DEF W!StagedChoices
    <2>3. row \in W!Range(book.selection) /\ row \in W!Choice
      BY <2>2 DEF W!Range, BookOK
    <2>4. {r \in W!Range(book.selection) : \/ r.id \notin known
                                           \/ r.answer = "other"
                                           \/ r.answer = "YES" /\ r.homepage = None} = {}
      BY <1>2 DEF W!SelectionErrors
    <2>5. CASE ~row.fits
      <3>1. row \in W!Rows(book)
        BY <2>3 DEF W!Rows
      <3> QED
        BY <1>9, <2>5, <3>1 DEF known
    <2>6. CASE row.fits
      <3>1. row.id \in known /\ row.answer = "YES" /\ row.homepage = "unusable"
        BY <2>1, <2>3, <2>4, <2>6 DEF W!Choice, W!Homepages
      <3>2. gap("HOMEPAGE_UNUSABLE")
        BY <2>3, <3>1 DEF W!Gaps
      <3> QED
        BY <3>2 DEF known
    <2> QED
      BY <2>5, <2>6
  <1>6. CASE ~W!ProgramsHold(book, known)
    <2>1. W!OneRowPerRef(book.programs, W!StagedPrograms(book))
      BY <1>3 DEF W!OneRowPerRef, W!IsInjective, W!StagedPrograms
    <2>2. PICK i \in DOMAIN book.programs :
              \/ ~book.programs[i].named \/ ~book.programs[i].fits
              \/ book.programs[i].ref \in OtherDigits
      BY <1>3, <1>6, <2>1 DEF W!ProgramsHold, W!StagedPrograms
    <2>3. book.programs[i] \in W!Range(book.programs) /\ book.programs[i] \in W!Rows(book)
      BY DEF W!Range, W!Rows
    <2>4. CASE ~book.programs[i].named
      <3>1. gap("NAME_BLANK")
        BY <2>3, <2>4 DEF W!Gaps
      <3> QED
        BY <3>1 DEF known
    <2> QED
      BY <1>9, <1>10, <2>2, <2>3, <2>4 DEF known
  <1>7. CASE ~W!SourcesHold(book, known)
    <2>1. W!OneRowPerRef(book.sources, W!StagedSources(book))
      BY <1>4 DEF W!OneRowPerRef, W!IsInjective, W!StagedSources
    <2>2. CASE \E i \in DOMAIN book.sources : ~book.sources[i].typed
      <3>1. gap("TYPE_UNKNOWN")
        BY <2>2 DEF W!Gaps, W!Range
      <3> QED
        BY <3>1 DEF known
    <2>4. CASE \E i \in DOMAIN book.sources :
                  ~book.sources[i].fits \/ book.sources[i].ref \in OtherDigits
      <3>1. PICK i \in DOMAIN book.sources :
                ~book.sources[i].fits \/ book.sources[i].ref \in OtherDigits
        BY <2>4
      <3>2. book.sources[i] \in W!Range(book.sources) /\ book.sources[i] \in W!Rows(book)
        BY DEF W!Range, W!Rows
      <3> QED
        BY <1>9, <1>10, <3>1, <3>2 DEF known
    <2>3. CASE \A i \in DOMAIN book.sources :
                  /\ book.sources[i].typed /\ book.sources[i].fits
                  /\ book.sources[i].ref \notin OtherDigits
      <3>1. ~W!IsInjective([i \in W!StagedSources(book) |->
                              <<book.sources[i].id, book.sources[i].url>>])
        BY <1>4, <1>7, <2>1, <2>3 DEF W!SourcesHold, W!StagedSources
      <3>2. \E i, j \in DOMAIN book.sources :
                /\ i # j /\ book.sources[i].id = book.sources[j].id
                /\ book.sources[i].url = book.sources[j].url
        BY <3>1 DEF W!IsInjective, W!StagedSources
      <3>3. gap("PAGE_TWICE")
        BY <3>2 DEF W!Gaps
      <3> QED
        BY <3>3 DEF known
    <2> QED
      BY <2>2, <2>3, <2>4
  <1>8. CASE ~W!FactsHold(book, known)
    <2>1. PICK i \in W!StagedFacts(book) :
              ~ /\ book.facts[i].id \in known /\ book.facts[i].fits
                /\ book.facts[i].sheet = "Tuition" =>
                      W!FeeColumnsHold(W!StagedFee(book.facts[i].fee))
                /\ W!StatusOf(book.facts[i]) # "NOT_CHECKED" => book.facts[i].source # None
                /\ book.facts[i].program \in
                      {book.programs[j].ref : j \in W!StagedPrograms(book)} \cup {None}
                /\ book.facts[i].source \in
                      {book.sources[j].ref : j \in W!StagedSources(book)} \cup {None}
      BY <1>8 DEF W!FactsHold
    <2> DEFINE fact == book.facts[i]
    <2>2. /\ i \in DOMAIN book.facts /\ fact \in W!Range(book.facts) /\ fact \in W!Fact
          /\ FactClean(fact, W!Defined(book.programs, known), W!Defined(book.sources, known), dest)
      BY <1>2, <2>1 DEF W!StagedFacts, W!Range, BookOK
    <2>3. W!StatusOf(fact) # "NOT_CHECKED" => fact.source # None
      BY <2>2 DEF FactClean, W!StatusOf, W!FieldStatuses
    <2>4. fact.program \in {book.programs[j].ref : j \in W!StagedPrograms(book)} \cup {None}
      <3> SUFFICES ASSUME fact.program # None
                   PROVE  \E j \in W!StagedPrograms(book) : fact.program = book.programs[j].ref
        OBVIOUS
      <3>1. fact.program \in DOMAIN W!Defined(book.programs, known)
        BY <2>2, RefCheckFacts DEF FactClean
      <3>2. PICK j \in DOMAIN book.programs : fact.program = book.programs[j].ref
        BY <1>3, <3>1
      <3> QED
        BY <1>1, <1>3, <3>2 DEF W!StagedPrograms
    <2>5. CASE fact.id \notin known
      <3>1. gap("FACT_OF_FOREIGN_INSTITUTION")
        BY <2>2, <2>5 DEF W!Gaps
      <3> QED
        BY <3>1 DEF known
    <2>7. CASE ~fact.fits
      <3>1. fact \in W!Rows(book)
        BY <2>2 DEF W!Rows
      <3> QED
        BY <1>9, <2>7, <3>1 DEF known
    <2>8. CASE fact.sheet = "Tuition" /\ ~W!FeeColumnsHold(W!StagedFee(fact.fee))
      <3>1. fact.fee \in W!Fee /\ W!FeeErrors(fact.fee, fact.text) = {}
        BY <2>2, <2>8 DEF FactClean, W!ShapeErrors, W!Fact
      <3>2. PICK n \in {fact.fee.min, fact.fee.max} : W!Amount(n) /\ n >= FigureLimit
        BY <2>8, <3>1, LargeFigure
      <3>3. gap("FIGURE_TOO_LARGE")
        BY <2>2, <2>8, <3>2 DEF W!Gaps
      <3> QED
        BY <3>3 DEF known
    <2>6. CASE /\ fact.id \in known /\ fact.fits
               /\ fact.sheet = "Tuition" => W!FeeColumnsHold(W!StagedFee(fact.fee))
      <3>1. fact.source # None /\ \A j \in W!StagedSources(book) : fact.source # book.sources[j].ref
        BY <2>1, <2>3, <2>4, <2>6
      <3>2. fact.source \in DOMAIN W!Defined(book.sources, known)
        BY <2>2, <3>1, RefCheckFacts DEF FactClean
      <3>3. PICK j \in DOMAIN book.sources : fact.source = book.sources[j].ref
        BY <1>4, <3>2
      <3>4. book.sources[j].url \notin Urls
        BY <1>1, <1>4, <3>1, <3>3 DEF W!StagedSources
      <3>5. book.sources[j] \in W!Range(book.sources)
        BY DEF W!Range
      <3>6. gap("CITED_SOURCE_DROPPED")
        BY <2>2, <3>3, <3>4, <3>5 DEF W!Gaps
      <3> QED
        BY <3>6 DEF known
    <2> QED
      BY <2>5, <2>6, <2>7, <2>8
  <1> QED
    BY <1>5, <1>6, <1>7, <1>8 DEF W!Accepted, known

(* Of a book that the validator has called clean, the keys, foreign keys,    *)
(* CHECKs and widths of the staging tables stop nothing that is not on the   *)
(* list of gaps, whatever the collector returned and whatever institutions   *)
(* there are by then (pilot_workbook.py:743-748).                            *)
THEOREM OnlyKnownGapsAbort == Spec => []AbortsOnlyOnGaps
  <1>1. Judged => AbortsOnlyOnGaps
    BY OnlyGapsAbort DEF Judged, AbortsOnlyOnGaps
  <1> QED
    BY <1>1, JudgedInit, JudgedStep, PTL DEF Spec

(* What is staged is the row of one of the facts of an accepted book without *)
(* errors.                                                                   *)
LEMMA StagedFact ==
    ASSUME Judged, NEW row \in Staged
    PROVE  \E dest, fact :
             /\ dest = returned.dest /\ fact \in W!Fact /\ fact.id \in DOMAIN dest
             /\ row = W!StagedRow(fact)
             /\ BookOK(returned.book)
             /\ W!RefErrors(returned.book.programs, DOMAIN dest) = {}
             /\ W!RefErrors(returned.book.sources, DOMAIN dest) = {}
             /\ FactClean(fact, W!Defined(returned.book.programs, DOMAIN dest),
                          W!Defined(returned.book.sources, DOMAIN dest), dest)
             /\ fact.program # None => \E i \in W!StagedPrograms(returned.book) :
                                          returned.book.programs[i].ref = fact.program
             /\ fact.source # None => \E i \in W!StagedSources(returned.book) :
                                          returned.book.sources[i].ref = fact.source
  <1>1. PICK book, dest : book = returned.book /\ dest = returned.dest
    OBVIOUS
  <1>2. returned # None /\ returned.outcome = "imported"
    BY DEF Staged
  <1>3. PICK i \in W!StagedFacts(book) : row = W!StagedRow(book.facts[i])
    BY <1>1, <1>2 DEF Staged
  <1>8. PICK fact : fact = book.facts[i]
    OBVIOUS
  <1>4. /\ BookOK(book) /\ W!Accepted(book, DOMAIN dest)
        /\ \E expected : W!Errors(book, dest, expected) = {}
    BY <1>1, <1>2 DEF Judged
  <1>5. /\ W!RefErrors(book.programs, DOMAIN dest) = {}
        /\ W!RefErrors(book.sources, DOMAIN dest) = {}
        /\ \A n \in DOMAIN book.facts :
              FactClean(book.facts[n], W!Defined(book.programs, DOMAIN dest),
                        W!Defined(book.sources, DOMAIN dest), dest)
    BY <1>4, CleanFacts
  <1>6. i \in DOMAIN book.facts /\ fact \in W!Fact
    BY <1>4, <1>8 DEF W!StagedFacts, BookOK
  <1>7. /\ fact.id \in DOMAIN dest
        /\ fact.program # None => \E n \in W!StagedPrograms(book) :
                                     book.programs[n].ref = fact.program
        /\ fact.source # None => \E n \in W!StagedSources(book) :
                                     book.sources[n].ref = fact.source
    BY <1>4, <1>8 DEF W!Accepted, W!FactsHold
  <1> QED
    BY <1>1, <1>3, <1>4, <1>5, <1>6, <1>7, <1>8

(* What the insertion of a fact changes in it, and what it keeps. *)
LEMMA StagedRowFacts ==
    ASSUME NEW fact \in W!Fact, NEW row, row = W!StagedRow(fact)
    PROVE  /\ row.id = fact.id /\ row.program = fact.program /\ row.source = fact.source
           /\ row.sheet = fact.sheet /\ row.text = fact.text /\ row.date = fact.date
           /\ row.category = fact.category
           /\ row.fee = W!StagedFee(fact.fee) /\ row.status = W!StatusOf(fact)
  BY DEF W!StagedRow, W!Fact

LEMMA OfOneInstitution ==
    ASSUME NEW R, NEW rows \in Seq(R), NEW known, W!RefErrors(rows, known) = {},
           NEW ref, NEW id, ref # None, W!RefCheck(ref, W!Defined(rows, known), id) = {},
           NEW i \in DOMAIN rows, rows[i].ref = ref
    PROVE  rows[i].id = id
  <1>1. W!Defined(rows, known)[ref] = id
    BY RefCheckFacts
  <1>2. W!Defined(rows, known)[rows[i].ref] = rows[i].id
    BY RefFacts
  <1> QED
    BY <1>1, <1>2

(* A staged fact keeps to the pages and the programmes of its own            *)
(* institution, which the foreign keys of the staging tables do not demand   *)
(* (pilot_workbook.py:978-990).                                              *)
THEOREM FactsKeepToTheirOwn == Spec => []FactsStayTogether
  <1>1. Judged => FactsStayTogether
    <2> SUFFICES ASSUME Judged, NEW row \in Staged
                 PROVE  /\ row.source # None => \E i \in W!StagedSources(returned.book) :
                              /\ returned.book.sources[i].ref = row.source
                              /\ returned.book.sources[i].id = row.id
                        /\ row.program # None => \E i \in W!StagedPrograms(returned.book) :
                              /\ returned.book.programs[i].ref = row.program
                              /\ returned.book.programs[i].id = row.id
      BY DEF FactsStayTogether
    <2>1. PICK dest, fact :
             /\ fact \in W!Fact /\ row = W!StagedRow(fact)
             /\ BookOK(returned.book)
             /\ W!RefErrors(returned.book.programs, DOMAIN dest) = {}
             /\ W!RefErrors(returned.book.sources, DOMAIN dest) = {}
             /\ FactClean(fact, W!Defined(returned.book.programs, DOMAIN dest),
                          W!Defined(returned.book.sources, DOMAIN dest), dest)
             /\ fact.program # None => \E i \in W!StagedPrograms(returned.book) :
                                          returned.book.programs[i].ref = fact.program
             /\ fact.source # None => \E i \in W!StagedSources(returned.book) :
                                          returned.book.sources[i].ref = fact.source
      BY StagedFact
    <2>2. PICK programs, sources : programs = returned.book.programs
                                   /\ sources = returned.book.sources
      OBVIOUS
    <2>3. programs \in Seq(W!Program) /\ sources \in Seq(W!Source)
      BY <2>1, <2>2 DEF BookOK
    <2>4. ASSUME fact.source # None
          PROVE  \E i \in W!StagedSources(returned.book) :
                    sources[i].ref = fact.source /\ sources[i].id = fact.id
      <3>1. PICK i \in W!StagedSources(returned.book) : sources[i].ref = fact.source
        BY <2>1, <2>2, <2>4
      <3>2. i \in DOMAIN sources
        BY <2>2 DEF W!StagedSources
      <3>3. W!RefCheck(fact.source, W!Defined(sources, DOMAIN dest), fact.id) = {}
            /\ W!RefErrors(sources, DOMAIN dest) = {}
        BY <2>1, <2>2 DEF FactClean
      <3>4. sources[i].id = fact.id
        BY <2>3, <2>4, <3>1, <3>2, <3>3, OfOneInstitution
      <3> QED
        BY <3>1, <3>4
    <2>5. ASSUME fact.program # None
          PROVE  \E i \in W!StagedPrograms(returned.book) :
                    programs[i].ref = fact.program /\ programs[i].id = fact.id
      <3>1. PICK i \in W!StagedPrograms(returned.book) : programs[i].ref = fact.program
        BY <2>1, <2>2, <2>5
      <3>2. i \in DOMAIN programs
        BY <2>2 DEF W!StagedPrograms
      <3>3. W!RefCheck(fact.program, W!Defined(programs, DOMAIN dest), fact.id) = {}
            /\ W!RefErrors(programs, DOMAIN dest) = {}
        BY <2>1, <2>2 DEF FactClean
      <3>4. programs[i].id = fact.id
        BY <2>3, <2>5, <3>1, <3>2, <3>3, OfOneInstitution
      <3> QED
        BY <3>1, <3>4
    <2>6. row.source = fact.source /\ row.program = fact.program /\ row.id = fact.id
      BY <2>1, StagedRowFacts
    <2> QED
      BY <2>2, <2>4, <2>5, <2>6
  <1> QED
    BY <1>1, JudgedInit, JudgedStep, PTL DEF Spec

(* A fee whose kind is given and that raises no error has the figures that   *)
(* the CHECKs of tuition demand of that kind.                                *)
LEMMA FeeWithoutErrorsFits ==
    ASSUME NEW fee \in W!Fee, NEW text \in BOOLEAN, fee.kind # None,
           W!FeeErrors(fee, text) = {}
    PROVE  W!FeeFits(fee, text)
  <1> DEFINE figures == {fee.min, fee.max} \ {None}
  <1>1. /\ fee.kind # "other" /\ Malformed \notin figures
        /\ W!FeeShape(fee, text) /\ (\A n \in figures : ~(n < 0))
        /\ (figures # {} => fee.priced)
    BY DEF W!FeeErrors
  <1>2. /\ fee.kind \in W!AmountKinds
        /\ fee.min \in Int \cup {Malformed, None} /\ fee.max \in Int \cup {Malformed, None}
    BY <1>1 DEF W!Fee
  <1>3. \A n \in figures : W!Amount(n) /\ n >= 0 /\ fee.priced
    BY <1>1, <1>2 DEF W!Amount
  <1>4. CASE fee.kind = "EXACT"
    <2>1. fee.min # None /\ fee.max = fee.min
      BY <1>1, <1>4 DEF W!FeeShape
    <2> QED
      BY <1>2, <1>3, <1>4, <2>1 DEF W!FeeFits
  <1>5. CASE fee.kind = "RANGE"
    <2>1. fee.min # None /\ fee.max # None /\ fee.min <= fee.max
      BY <1>1, <1>5 DEF W!FeeShape
    <2> QED
      BY <1>2, <1>3, <1>5, <2>1 DEF W!FeeFits
  <1>6. CASE fee.kind = "FROM"
    <2>1. fee.min # None /\ fee.max = None
      BY <1>1, <1>6 DEF W!FeeShape
    <2> QED
      BY <1>2, <1>3, <1>6, <2>1 DEF W!FeeFits
  <1>7. CASE fee.kind = "UP_TO"
    <2>1. fee.min = None /\ fee.max # None
      BY <1>1, <1>7 DEF W!FeeShape
    <2> QED
      BY <1>2, <1>3, <1>7, <2>1 DEF W!FeeFits
  <1>8. CASE fee.kind = "VARIABLE"
    <2>1. text
      BY <1>1, <1>8 DEF W!FeeShape
    <2> QED
      BY <1>2, <1>3, <1>8, <2>1 DEF W!FeeFits
  <1> QED
    BY <1>2, <1>4, <1>5, <1>6, <1>7, <1>8 DEF W!AmountKinds

LEMMA DateWithoutErrorsFits ==
    ASSUME NEW date \in W!Date, date.kind \in W!DeadlineKinds, date.part => date.month,
           W!DateErrors(date) = {}
    PROVE  W!DateFits(date)
  BY DEF W!Date, W!DateErrors, W!DateFits, W!Undated

(* An amount that raised no error and has no no-break space is stored as it is. *)
LEMMA PlainFeeIsKept ==
    ASSUME NEW fee \in W!Fee, NEW text, W!FeeErrors(fee, text) = {}, fee.kind # None,
           W!StagedFee(fee).spaced = {}
    PROVE  W!StagedFee(fee) = fee
  <1>1. Malformed \notin {fee.min, fee.max} \ {None}
    BY DEF W!FeeErrors
  <1>2. fee.spaced = {}
    BY DEF W!StagedFee, W!Fee
  <1>3. W!StagedFee(fee) = [fee EXCEPT !.min = @, !.max = @]
    BY <1>1, <1>2 DEF W!StagedFee, W!Fee
  <1> QED
    BY <1>3 DEF W!Fee

(* A staged fact that says PUBLISHED fits what the canonical tables demand   *)
(* of it, for any figures without a no-break space, any deadline of a known  *)
(* kind and any destination of its institution (revisions 0006 and 0019;     *)
(* pilot_workbook.py:862-951; import_workbook.py:589-594).                   *)
THEOREM PublishedFactsAreFit == Spec => []PublishedFactsFit
  <1>1. Judged => PublishedFactsFit
    <2> SUFFICES ASSUME Judged, NEW row \in Staged, row.status = "PUBLISHED"
                 PROVE  /\ row.sheet = "Tuition" /\ row.fee.spaced = {} =>
                              W!FeeFits(row.fee, row.text)
                        /\ row.sheet = "Deadlines" /\ row.date.kind \in W!DeadlineKinds
                           /\ (row.date.part => row.date.month) => W!DateFits(row.date)
                        /\ row.category # None /\ returned.dest[row.id] # None =>
                              row.category \in W!CategoriesOf[returned.dest[row.id]]
      BY DEF PublishedFactsFit
    <2>1. PICK dest, fact :
             /\ dest = returned.dest /\ fact \in W!Fact /\ fact.id \in DOMAIN dest
             /\ row = W!StagedRow(fact)
             /\ FactClean(fact, W!Defined(returned.book.programs, DOMAIN dest),
                          W!Defined(returned.book.sources, DOMAIN dest), dest)
      BY StagedFact
    <2>9. /\ row.id = fact.id /\ row.sheet = fact.sheet /\ row.text = fact.text
          /\ row.date = fact.date /\ row.category = fact.category
          /\ row.fee = W!StagedFee(fact.fee) /\ row.status = W!StatusOf(fact)
      BY <2>1, StagedRowFacts
    <2>10. fact.status = "PUBLISHED"
      BY <2>9 DEF W!StatusOf
    <2>2. /\ W!HasValue(fact) /\ W!ShapeErrors(fact, dest[fact.id]) = {}
          /\ fact.fee \in W!Fee /\ fact.date \in W!Date /\ fact.text \in BOOLEAN
      BY <2>1, <2>10 DEF FactClean, W!Fact
    <2>3. fact.category # None /\ dest[fact.id] # None =>
             fact.category \in W!CategoriesOf[dest[fact.id]]
      BY <2>2 DEF W!ShapeErrors
    <2>4. fact.sheet = "Tuition" => W!FeeErrors(fact.fee, fact.text) = {}
      BY <2>2 DEF W!ShapeErrors
    <2>5. fact.sheet = "Tuition" => fact.fee.kind # None
      BY <2>2 DEF W!HasValue
    <2>6. fact.sheet = "Deadlines" => W!DateErrors(fact.date) = {}
      BY <2>2 DEF W!ShapeErrors
    <2>7. ASSUME row.sheet = "Tuition", row.fee.spaced = {}
          PROVE  W!FeeFits(row.fee, row.text)
      <3>1. W!FeeErrors(fact.fee, fact.text) = {} /\ fact.fee.kind # None
        BY <2>4, <2>5, <2>7, <2>9
      <3>2. W!FeeFits(fact.fee, fact.text)
        BY <2>2, <3>1, FeeWithoutErrorsFits
      <3>3. W!StagedFee(fact.fee).spaced = {}
        BY <2>7, <2>9
      <3>4. W!StagedFee(fact.fee) = fact.fee
        BY <2>2, <3>1, <3>3, PlainFeeIsKept
      <3> QED
        BY <2>9, <3>2, <3>4
    <2>8. fact.sheet = "Deadlines" /\ fact.date.kind \in W!DeadlineKinds
          /\ (fact.date.part => fact.date.month) => W!DateFits(fact.date)
      BY <2>2, <2>6, DateWithoutErrorsFits
    <2> QED
      BY <2>1, <2>3, <2>7, <2>8, <2>9
  <1> QED
    BY <1>1, JudgedInit, JudgedStep, PTL DEF Spec

=============================================================================
