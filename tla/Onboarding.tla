----------------------------- MODULE Onboarding -----------------------------
(***************************************************************************)
(* Onboarding as a whole: the target lists give the institutions that are  *)
(* in scope, the template of the collection workbook is exported from them *)
(* (pilot_template.py), lists go on being imported while the collector     *)
(* works, and the book that comes back is validated against the            *)
(* institutions of that later day and staged.                              *)
(*                                                                         *)
(* Bounds: one template and one book, with which a behaviour ends, and no  *)
(* import of a list open while the book is imported; institutions are      *)
(* never deleted, so an open import has nothing the book could see. The    *)
(* same bytes a second time change nothing and are left out.               *)
(***************************************************************************)
EXTENDS TargetLists, SequencesExt

CONSTANTS
    Foreign, Malformed, ProgramRefs, SourceRefs, OtherDigits, Urls, FigureLimit,
    Edits        \* what a collector does to a template, and the number of selected
                 \* institutions, or None, that the operator expects

W == INSTANCE Workbook

ASSUME BooksAssumption ==
    /\ IsFiniteSet(Keys) /\ Malformed \notin Keys /\ FigureLimit \in Nat
    /\ Edits \subseteq
          [sheets : SUBSET W!Sheets, expected : Nat \cup {None},
           answers : [Keys -> [answer : {"YES", "NO", "other", None},
                               homepage : W!Homepages, fits : BOOLEAN]],
           extra : Seq(W!Choice), programs : Seq(W!Program), sources : Seq(W!Source),
           facts : Seq(W!Fact)]

VARIABLES
    template,    \* the institutions in the exported template
    returned     \* the book that came back, with what became of it

vars == <<lists, inst, imports, began, template, returned>>

Init == ListsInit /\ template = None /\ returned = None

(* load_target_rows: the institutions in scope.                             *)
InScope == {k \in Keys : inst[k] # None /\ inst[k].current}

Export ==
    /\ template = None /\ InScope # {}
    /\ \A i \in Importers : ~Open(i)
    /\ template' = InScope
    /\ UNCHANGED <<lists, inst, imports, began, returned>>

(* A template has a row for each of its institutions; the collector answers *)
(* for them, may add rows, and fills in the other sheets.                   *)
Filled(rows, edit) ==
    [sheets |-> edit.sheets,
     selection |->
        [n \in 1..Cardinality(rows) |->
            LET k == SetToSeq(rows)[n]
            IN  [id |-> k, answer |-> edit.answers[k].answer,
                 homepage |-> edit.answers[k].homepage,
                 fits |-> edit.answers[k].fits]] \o edit.extra,
     programs |-> edit.programs, sources |-> edit.sources, facts |-> edit.facts]

Destination == [k \in {x \in Keys : inst[x] # None} |-> inst[k].dest]

(* import_pilot_workbook, one transaction: nothing is stored of a book with *)
(* errors, nor of one that a constraint stops.                              *)
ImportWorkbook(edit) ==
    /\ template # None /\ returned = None
    /\ \A i \in Importers : ~Open(i)
    /\ LET book == Filled(template, edit) IN
       returned' = [book |-> book, dest |-> Destination,
          outcome |-> IF W!Errors(book, Destination, edit.expected) # {} THEN "refused"
                      ELSE IF ~W!Accepted(book, DOMAIN Destination) THEN "aborted"
                      ELSE "imported"]
    /\ UNCHANGED <<lists, inst, imports, began, template>>

Next ==
    \/ returned = None /\ ListsNext /\ UNCHANGED <<template, returned>>
    \/ Export
    \/ \E edit \in Edits : ImportWorkbook(edit)

Spec == Init /\ [][Next]_vars

----------------------------------------------------------------------------
(* Properties *)

(* "Each error would otherwise surface as a constraint violation partway    *)
(* through an import, on a file the validator had already called clean"     *)
(* (pilot_workbook.py:743-748): of the constraints modelled - the keys,     *)
(* foreign keys, CHECKs and widths of the staging tables - the validator    *)
(* misses the named gaps only. The list says nothing of an insertion that   *)
(* ends before the tables see a row.                                        *)
AbortsOnlyOnGaps ==
    returned # None /\ returned.outcome = "aborted" =>
        W!Gaps(returned.book, DOMAIN returned.dest) # {}

(* The stronger claim that paragraph makes, which the gaps refute.          *)
ImportableIsImported == returned # None => returned.outcome # "aborted"

Staged == IF returned # None /\ returned.outcome = "imported"
            THEN {W!StagedRow(returned.book.facts[i]) : i \in W!StagedFacts(returned.book)}
            ELSE {}

(* A staged fact cites a page, and describes a programme, that the book     *)
(* lists for the fact's own institution; the foreign keys of the staging    *)
(* tables follow the references alone (pilot_workbook.py:978-990).          *)
FactsStayTogether ==
    \A fact \in Staged :
        /\ fact.source # None => \E i \in W!StagedSources(returned.book) :
              /\ returned.book.sources[i].ref = fact.source
              /\ returned.book.sources[i].id = fact.id
        /\ fact.program # None => \E i \in W!StagedPrograms(returned.book) :
              /\ returned.book.programs[i].ref = fact.program
              /\ returned.book.programs[i].id = fact.id

(* A staged fact that says PUBLISHED has what the canonical tables demand   *)
(* of it (revisions 0006 and 0019), for a category of students that the     *)
(* institution's destination had when the book came. Excepted is what the   *)
(* validator and the import do not read alike, or not at all: an amount     *)
(* with a no-break space in it, a deadline whose kind is missing or is none *)
(* of the five, and part of a month that is not named.                      *)
PublishedFactsFit ==
    \A fact \in Staged : fact.status = "PUBLISHED" =>
        /\ fact.sheet = "Tuition" /\ fact.fee.spaced = {} => W!FeeFits(fact.fee, fact.text)
        /\ fact.sheet = "Deadlines" /\ fact.date.kind \in W!DeadlineKinds
           /\ (fact.date.part => fact.date.month) => W!DateFits(fact.date)
        /\ fact.category # None /\ returned.dest[fact.id] # None =>
              fact.category \in W!CategoriesOf[returned.dest[fact.id]]

(* The same without the exceptions, which does not hold: number() drops the *)
(* no-break space of an amount (pilot_workbook.py:827), _decimal does not   *)
(* and leaves the figure out (import_workbook.py:475-476, 589-594), and no  *)
(* check asks which kind a deadline is of (pilot_workbook.py:924-960).      *)
EveryPublishedFactFits ==
    \A fact \in Staged : fact.status = "PUBLISHED" =>
        /\ fact.sheet = "Tuition" => W!FeeFits(fact.fee, fact.text)
        /\ fact.sheet = "Deadlines" => W!DateFits(fact.date)

(* The number of selected institutions on the submission is the number of   *)
(* selected rows under it; a repeated institution whose rows disagree       *)
(* refutes it (import_workbook.py:202, 267-272).                            *)
CountIsOfRows ==
    returned # None /\ returned.outcome = "imported" =>
        Cardinality(W!Selected(returned.book.selection, DOMAIN returned.dest))
          = Cardinality({row \in W!StagedChoices(returned.book) : row.answer = "YES"})

=============================================================================
