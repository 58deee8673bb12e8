------------------------------ MODULE Workbook ------------------------------
(***************************************************************************)
(* A collection workbook as a collector returns it: what validate_workbook *)
(* says of it (domains/onboarding/pilot_workbook.py), what                 *)
(* import_pilot_workbook would then store (domains/pilot/                  *)
(* import_workbook.py), and what the staging tables refuse (revisions 0020 *)
(* and 0022).                                                              *)
(*                                                                         *)
(* A row keeps the cells that some check reads. An institution's code is   *)
(* the key of a target institution, Foreign (well formed, of another       *)
(* environment) or Malformed; a reference is well formed, Malformed or     *)
(* None; an amount is a number, Malformed or None. Of everything else a    *)
(* row keeps whether each of its cells fits the column it goes to.         *)
(* official_name_en is treated like the homepage and left out,             *)
(* Language_Requirements like Admissions, a sheet without its columns like *)
(* a missing sheet, an infinite amount like one that is too large, and the *)
(* status WITHDRAWN, which asserts nothing, like NOT_CHECKED. Left out are *)
(* academic years, and an amount spelled NaN, which validate_workbook does *)
(* not survive.                                                            *)
(***************************************************************************)
EXTENDS Integers, Sequences, FiniteSets, Functions

CONSTANTS
    Keys,          \* institutions there may be
    Foreign, Malformed, None,
    ProgramRefs, SourceRefs,
    OtherDigits,   \* references whose digits are not 0 to 9: \d of the template takes
                   \* them (pilot_template.py:145-146), [0-9] of the tables does not
    Urls,          \* pages, after validate_source_url has normalised them
    FigureLimit    \* what an amount must stay below to fit NUMERIC(14, 2)

Codes == Keys \cup {Foreign, Malformed}
Homepages == {"usable", "unusable", None}
Sheets == {"Pilot_Universities", "Programs", "Official_Sources",
           "Admissions", "Tuition", "Deadlines"}
FieldStatuses == {"PUBLISHED", "OFFICIALLY_NOT_PUBLISHED", "NOT_CHECKED"}
AmountKinds == {"EXACT", "RANGE", "FROM", "UP_TO", "VARIABLE"}
Undated == {"NO_FIXED_DEADLINE", "NOT_CURRENTLY_ACCEPTING"}
DeadlineKinds == {"FIXED_DATE", "ROLLING", "UNTIL_FILLED"} \cup Undated

Choice == [id : Codes, answer : {"YES", "NO", "other", None}, homepage : Homepages,
           fits : BOOLEAN]
Program == [id : Codes, ref : ProgramRefs \cup {Malformed, None}, named : BOOLEAN,
            fits : BOOLEAN]
Source == [id : Codes, ref : SourceRefs \cup {Malformed, None},
           url : Urls \cup {Malformed, None}, typed : BOOLEAN, fits : BOOLEAN]
(* spaced: the amounts written with a no-break space between their digits.  *)
Fee == [kind : AmountKinds \cup {"other", None}, min : Int \cup {Malformed, None},
        max : Int \cup {Malformed, None}, spaced : SUBSET {"min", "max"}, priced : BOOLEAN]
Date == [kind : DeadlineKinds \cup {"other", None}, year : BOOLEAN, month : BOOLEAN,
         part : BOOLEAN, day : BOOLEAN, time : BOOLEAN, zone : BOOLEAN]
Fact == [sheet : {"Admissions", "Tuition", "Deadlines"}, id : Codes,
         program : ProgramRefs \cup {Malformed, None}, source : SourceRefs \cup {Malformed, None},
         status : FieldStatuses \cup {"other", None}, text : BOOLEAN, fee : Fee, date : Date,
         category : {"HOME", "LOCAL", None}, fits : BOOLEAN]

NoFee == [kind |-> None, min |-> None, max |-> None, spaced |-> {}, priced |-> FALSE]
NoDate == [kind |-> None, year |-> FALSE, month |-> FALSE, part |-> FALSE,
           day |-> FALSE, time |-> FALSE, zone |-> FALSE]

----------------------------------------------------------------------------
(* validate_workbook: the codes of its errors, warnings left out            *)

(* _validate_selection                                                      *)
SelectionErrors(rows, known) ==
    {IF row.id \notin known THEN "TARGET_UNRESOLVED"
     ELSE IF row.answer = "other" THEN "SELECTED_VALUE_UNRECOGNISED"
     ELSE "SELECTED_WITHOUT_DETAILS" :
        row \in {r \in Range(rows) : \/ r.id \notin known
                                     \/ r.answer = "other"
                                     \/ r.answer = "YES" /\ r.homepage = None}}

Selected(rows, known) == {r.id : r \in {x \in Range(rows) : x.id \in known /\ x.answer = "YES"}}

(* _collect_refs: a reference belongs to the first row that defines it.     *)
Defining(rows, known) ==
    {i \in DOMAIN rows :
        /\ rows[i].ref \notin {Malformed, None} /\ rows[i].id \in known
        /\ \A j \in 1..(i - 1) : rows[j].ref # rows[i].ref \/ rows[j].id \notin known}

Defined(rows, known) ==
    [ref \in {rows[i].ref : i \in Defining(rows, known)} |->
        rows[CHOOSE i \in Defining(rows, known) : rows[i].ref = ref].id]

RefErrors(rows, known) ==
    {IF rows[i].ref = None THEN "REQUIRED_VALUE_MISSING"
     ELSE IF rows[i].ref = Malformed THEN "REF_MALFORMED"
     ELSE IF \E j \in Defining(rows, known) : j < i /\ rows[j].ref = rows[i].ref
       THEN "REF_DUPLICATE"
     ELSE "TARGET_UNRESOLVED" : i \in DOMAIN rows \ Defining(rows, known)}

(* Mutant: a reference need not be defined.                                 *)
RefCheckUndefined(ref, defined, id) ==
    IF ref \in DOMAIN defined /\ defined[ref] # id THEN {"REF_INSTITUTION_MISMATCH"} ELSE {}

(* Mutant: a reference may be another institution's.                        *)
RefCheckAnyOwner(ref, defined, id) ==
    IF ref # None /\ ref \notin DOMAIN defined THEN {"REF_UNKNOWN"} ELSE {}

(* _check_ref                                                               *)
RefCheck(ref, defined, id) ==
    IF ref = None THEN {}
    ELSE IF ref \notin DOMAIN defined THEN {"REF_UNKNOWN"}
    ELSE IF defined[ref] # id THEN {"REF_INSTITUTION_MISMATCH"} ELSE {}

Amount(cell) == cell \notin {Malformed, None}

(* Mutant: EXACT is not held to one figure.                                 *)
FeeShapeLoose(fee, text) ==
    CASE fee.kind \in {"EXACT", "RANGE"} ->
            fee.min # None /\ fee.max # None /\ fee.min <= fee.max
      [] fee.kind = "FROM"     -> fee.min # None /\ fee.max = None
      [] fee.kind = "UP_TO"    -> fee.min = None /\ fee.max # None
      [] fee.kind = "VARIABLE" -> fee.min = None /\ fee.max = None /\ text

(* The figures a kind of fee has, once they are numbers.                    *)
FeeShape(fee, text) ==
    CASE fee.kind = "EXACT"    -> fee.min # None /\ fee.max = fee.min
      [] fee.kind = "RANGE"    -> fee.min # None /\ fee.max # None /\ fee.min <= fee.max
      [] fee.kind = "FROM"     -> fee.min # None /\ fee.max = None
      [] fee.kind = "UP_TO"    -> fee.min = None /\ fee.max # None
      [] fee.kind = "VARIABLE" -> fee.min = None /\ fee.max = None /\ text

(* _check_tuition_amounts, which drops a no-break space before it reads an  *)
(* amount.                                                                  *)
FeeErrors(fee, text) ==
    LET figures == {fee.min, fee.max} \ {None} IN
    IF fee.kind = None /\ figures = {} THEN {}
    ELSE IF fee.kind = "other" THEN {"TUITION_AMOUNT_KIND_UNKNOWN"}
    ELSE IF Malformed \in figures THEN {"TUITION_AMOUNT_NOT_A_NUMBER"}
    ELSE IF \/ fee.kind = None
            \/ ~FeeShape(fee, text)
            \/ \E n \in figures : n < 0
            \/ figures # {} /\ ~fee.priced
      THEN {"TUITION_AMOUNT_SHAPE_INCONSISTENT"}
    ELSE {}

(* _check_deadline_parts: a kind that is none of DeadlineKinds is no error. *)
DateErrors(date) ==
    IF \/ date.kind = "FIXED_DATE" /\ ~date.year
       \/ date.kind \in Undated /\ date.year
       \/ date.day /\ ~date.month
       \/ date.month /\ ~date.year
       \/ date.time /\ ~date.day
       \/ date.zone /\ ~date.time
       \/ date.part /\ date.day
      THEN {"DEADLINE_PARTS_INCONSISTENT"} ELSE {}

CategoriesOf == [GB |-> {"HOME"}, HK |-> {"LOCAL"}]

(* _check_shape                                                             *)
ShapeErrors(fact, dest) ==
    (IF fact.category # None /\ dest # None /\ fact.category \notin CategoriesOf[dest]
       THEN {"STUDENT_CATEGORY_NOT_IN_DESTINATION"} ELSE {})
    \cup CASE fact.sheet = "Tuition"   -> FeeErrors(fact.fee, fact.text)
           [] fact.sheet = "Deadlines" -> DateErrors(fact.date)
           [] OTHER                    -> {}

(* _VALUE_COLUMNS: a fee is stated by its kind, the others by their words.  *)
HasValue(fact) ==
    IF fact.sheet = "Tuition" THEN fact.fee.kind # None ELSE fact.text

(* _validate_fact_sheet: a code that is not well formed ends the row, one   *)
(* that names nothing here does not.                                        *)
FactErrors(fact, programs, sources, dest) ==
    IF fact.id = Malformed THEN {"TARGET_UNRESOLVED"}
    ELSE ShapeErrors(fact, IF fact.id \in DOMAIN dest THEN dest[fact.id] ELSE None)
         \cup RefCheck(fact.program, programs, fact.id)
         \cup RefCheck(fact.source, sources, fact.id)
         \cup (IF fact.status \in {"PUBLISHED", "OFFICIALLY_NOT_PUBLISHED"} /\ fact.source = None
                 THEN {"SOURCE_REF_MISSING"} ELSE {})
         \cup (IF fact.status = "PUBLISHED" /\ ~HasValue(fact)
                 THEN {"PUBLISHED_WITHOUT_VALUE"} ELSE {})
         \cup (IF fact.status = "OFFICIALLY_NOT_PUBLISHED" /\ HasValue(fact)
                 THEN {"VALUE_WITH_UNPUBLISHED_STATUS"} ELSE {})

(* The errors in a book, where dest holds the destination of every known    *)
(* institution, and expected is the number selected or None.                *)
Errors(book, dest, expected) ==
    LET known    == DOMAIN dest
        programs == Defined(book.programs, known)
        sources  == Defined(book.sources, known)
    IN  (IF book.sheets # Sheets THEN {"SHEET_MISSING"} ELSE {})
        \cup SelectionErrors(book.selection, known)
        \cup (IF expected # None /\ Cardinality(Selected(book.selection, known)) # expected
                THEN {"SELECTED_COUNT_MISMATCH"} ELSE {})
        \cup RefErrors(book.programs, known) \cup RefErrors(book.sources, known)
        \cup UNION {FactErrors(fact, programs, sources, dest) : fact \in Range(book.facts)}

----------------------------------------------------------------------------
(* import_pilot_workbook: the rows it inserts                               *)

(* _import_selection: the first row of an institution.                      *)
StagedChoices(book) ==
    {book.selection[i] : i \in {n \in DOMAIN book.selection :
        /\ book.selection[n].id # Malformed
        /\ \A m \in 1..(n - 1) : book.selection[m].id # book.selection[n].id}}

StagedPrograms(book) ==
    {i \in DOMAIN book.programs : book.programs[i].id # Malformed /\ book.programs[i].ref # None}

(* _import_sources leaves out the rows whose URL cannot be stored.          *)
StagedSources(book) ==
    {i \in DOMAIN book.sources : /\ book.sources[i].id # Malformed /\ book.sources[i].ref # None
                                 /\ book.sources[i].url \in Urls}

StagedFacts(book) == {i \in DOMAIN book.facts : book.facts[i].id # Malformed}

(* _field_status                                                            *)
StatusOf(fact) == IF fact.status \in FieldStatuses THEN fact.status ELSE "NOT_CHECKED"

(* _decimal: it knows commas only, and makes NULL of what it cannot read.   *)
StagedFee(fee) ==
    LET Read(cell, name) == IF name \in fee.spaced \/ cell = Malformed THEN None ELSE cell
    IN  [fee EXCEPT !.min = Read(@, "min"), !.max = Read(@, "max")]

(* The row that is inserted for a fact.                                     *)
StagedRow(fact) == [fact EXCEPT !.fee = StagedFee(@), !.status = StatusOf(fact)]

OneRowPerRef(rows, staged) == IsInjective([i \in staged |-> rows[i].ref])

(* pilot_selected_university *)
ChoicesHold(book, known) ==
    \A row \in StagedChoices(book) :
        row.id \in known /\ row.fits /\ (row.answer = "YES" => row.homepage = "usable")

(* pilot_collected_program *)
ProgramsHold(book, known) ==
    LET rows == book.programs
    IN  /\ \A i \in StagedPrograms(book) :
              /\ rows[i].id \in known /\ rows[i].named /\ rows[i].fits
              /\ rows[i].ref \notin OtherDigits \cup {Malformed}
        /\ OneRowPerRef(rows, StagedPrograms(book))

(* pilot_collected_source, with the partial unique index on its pages.      *)
SourcesHold(book, known) ==
    LET rows == book.sources
    IN  /\ \A i \in StagedSources(book) :
              /\ rows[i].id \in known /\ rows[i].typed /\ rows[i].fits
              /\ rows[i].ref \notin OtherDigits \cup {Malformed}
        /\ OneRowPerRef(rows, StagedSources(book))
        /\ IsInjective([i \in StagedSources(book) |-> <<rows[i].id, rows[i].url>>])

(* The columns of pilot_collected_fact that hold a fee.                     *)
FeeColumnsHold(fee) ==
    /\ fee.kind \in AmountKinds \cup {None}
    /\ \A n \in {fee.min, fee.max} \ {None} : -FigureLimit < n /\ n < FigureLimit

(* pilot_collected_fact: its foreign keys follow the references within the  *)
(* submission, whatever institution they belong to.                         *)
FactsHold(book, known) ==
    \A i \in StagedFacts(book) :
        LET fact == book.facts[i] IN
        /\ fact.id \in known /\ fact.fits
        /\ fact.sheet = "Tuition" => FeeColumnsHold(StagedFee(fact.fee))
        /\ StatusOf(fact) # "NOT_CHECKED" => fact.source # None
        /\ fact.program \in {book.programs[j].ref : j \in StagedPrograms(book)} \cup {None}
        /\ fact.source \in {book.sources[j].ref : j \in StagedSources(book)} \cup {None}

(* What the staging tables let in; anything else ends the transaction.      *)
Accepted(book, known) ==
    /\ ChoicesHold(book, known) /\ ProgramsHold(book, known)
    /\ SourcesHold(book, known) /\ FactsHold(book, known)

(* The CHECKs of tuition (revision 0019) on a fee that is published.        *)
FeeFits(fee, text) ==
    /\ fee.kind \in AmountKinds
    /\ fee.kind = "EXACT" => Amount(fee.min) /\ fee.min = fee.max
    /\ fee.kind = "RANGE" => Amount(fee.min) /\ Amount(fee.max) /\ fee.min <= fee.max
    /\ fee.kind = "FROM" => Amount(fee.min) /\ fee.max = None
    /\ fee.kind = "UP_TO" => fee.min = None /\ Amount(fee.max)
    /\ fee.kind = "VARIABLE" => text
    /\ \A n \in {fee.min, fee.max} \ {None} : Amount(n) /\ n >= 0 /\ fee.priced

(* The CHECKs of application_deadline (revision 0006) that tie parts of a   *)
(* date to each other.                                                      *)
DateFits(date) ==
    /\ date.kind \in DeadlineKinds
    /\ date.kind = "FIXED_DATE" => date.year
    /\ date.kind \in Undated => ~date.year
    /\ date.day => date.month
    /\ date.month => date.year
    /\ date.part => date.month /\ ~date.day
    /\ date.time => date.day
    /\ date.zone => date.time

----------------------------------------------------------------------------
(* What validate_workbook does not look at though the tables do             *)

Rows(book) == UNION {Range(book.selection), Range(book.programs),
                     Range(book.sources), Range(book.facts)}

Gaps(book, known) ==
    {gap \in {"HOMEPAGE_UNUSABLE", "NAME_BLANK", "TYPE_UNKNOWN", "PAGE_TWICE",
              "CITED_SOURCE_DROPPED", "FACT_OF_FOREIGN_INSTITUTION",
              "CELL_TOO_LONG", "REF_IN_OTHER_DIGITS", "FIGURE_TOO_LARGE"} :
        CASE gap = "HOMEPAGE_UNUSABLE" ->
                \E row \in Range(book.selection) : row.answer = "YES" /\ row.homepage = "unusable"
          [] gap = "NAME_BLANK" -> \E row \in Range(book.programs) : ~row.named
          [] gap = "TYPE_UNKNOWN" -> \E row \in Range(book.sources) : ~row.typed
          [] gap = "PAGE_TWICE" ->
                \E i, j \in DOMAIN book.sources :
                    /\ i # j /\ book.sources[i].id = book.sources[j].id
                    /\ book.sources[i].url = book.sources[j].url
          [] gap = "CITED_SOURCE_DROPPED" ->
                \E fact \in Range(book.facts) : \E row \in Range(book.sources) :
                    row.ref = fact.source /\ row.url \notin Urls
          [] gap = "FACT_OF_FOREIGN_INSTITUTION" ->
                \E fact \in Range(book.facts) : fact.id \notin known
          [] gap = "CELL_TOO_LONG" -> \E row \in Rows(book) : ~row.fits
          [] gap = "REF_IN_OTHER_DIGITS" ->
                \E row \in Range(book.programs) \cup Range(book.sources) : row.ref \in OtherDigits
          [] gap = "FIGURE_TOO_LARGE" ->
                \E fact \in Range(book.facts) : \E n \in {fact.fee.min, fact.fee.max} :
                    Amount(n) /\ n >= FigureLimit}

=============================================================================
