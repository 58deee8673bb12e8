------------------------------- MODULE Triage -------------------------------
(***************************************************************************)
(* What reviewers are shown of the current candidates before they decide:  *)
(* which of them are compared and with what verdict (claims/grouping.py),  *)
(* whom they may apply to (scope.py), what kind of text or of money they   *)
(* are (quality.py), and which queue they wait in (review.py and the       *)
(* queue of scripts/review_claims.py). Nothing of it is stored.            *)
(*                                                                         *)
(* A candidate states some components of its value and of its context, as  *)
(* a rule or a model found them: those it states are the domains of value  *)
(* and context. A text is what is found in it: hints of a scope, labels of *)
(* kinds of money, amounts.                                                *)
(***************************************************************************)
EXTENDS Readers

Unknown == <<>>
Of(stated, name) == IF name \in DOMAIN stated THEN <<stated[name]>> ELSE Unknown

----------------------------------------------------------------------------
(* Groups *)

(* What a claim of a kind must state to be compared (REQUIRED_CONTEXT).      *)
RequiredContext ==
    [TUITION                  |-> {"currency", "billing_unit", "student_category"},
     LANGUAGE_OVERALL_SCORE   |-> {"test"},
     LANGUAGE_COMPONENT_SCORE |-> {"test", "applies_to"},
     LANGUAGE_TEST            |-> {"test"},
     APPLICATION_DEADLINE     |-> {"deadline_kind"},
     PROGRAM_NAME             |-> {"program_name"},
     DEGREE_LEVEL             |-> {"degree_level"},
     DISCIPLINE_HINT          |-> {"discipline"}]

(* Their identity is nowhere in the claim (__never__).                       *)
NeverGrouped == {"ACADEMIC_CALENDAR_EVENT", "ADMISSION_REQUIREMENT"}

(* What it is about besides institution, scope, programme and period.        *)
AboutToo ==
    [TUITION                  |-> {"student_category", "billing_unit"},
     LANGUAGE_OVERALL_SCORE   |-> {"test"},
     LANGUAGE_COMPONENT_SCORE |-> {"test", "applies_to"},
     LANGUAGE_TEST            |-> {"test"},
     APPLICATION_DEADLINE     |-> {"round"},
     PROGRAM_NAME             |-> {"program_name"},
     DEGREE_LEVEL             |-> {},
     DISCIPLINE_HINT          |-> {}]

(* The academic year, or the entry year, or the year of the value itself.    *)
PeriodKey(c) ==
    LET context == DOMAIN c.context \cap {"academic_year", "entry_year"}
    IN  IF "academic_year" \in context THEN <<"academic_year", c.context.academic_year>>
        ELSE IF "entry_year" \in context THEN <<"entry_year", c.context.entry_year>>
        ELSE IF "year" \in DOMAIN c.value THEN <<"year", c.value.year>>
        ELSE Unknown

(* Mutant: the round of the heading separates dates too. *)
RoundOfSection(c) == Of(c.context, "round_label")

(* Only a round in the wording of the date separates it from others.         *)
RoundKey(c) ==
    IF Of(c.context, "round_label_source") = <<"text">> THEN Of(c.context, "round_label") ELSE Unknown

(* context_key_for                                                           *)
Keyed(c) == /\ c.field \notin NeverGrouped
            /\ RequiredContext[c.field] \subseteq DOMAIN c.value

ContextKey(c) ==
    LET named == [x \in AboutToo[c.field] |-> IF x = "round" THEN RoundKey(c) ELSE Of(c.value, x)]
    IN  named @@ [field       |-> <<c.field>>,
                  institution |-> <<c.institution>>,
                  scope       |-> Of(c.value, "applicant_scopes"),
                  programme   |-> Of(c.context, "program_name"),
                  period      |-> PeriodKey(c)]

HasSentinel(key) == \E x \in DOMAIN key : key[x] = Unknown

(* What decides whether two claims about one thing say the same.             *)
ValueComponents ==
    [TUITION                  |-> {"amount_kind", "amount", "currency"},
     LANGUAGE_OVERALL_SCORE   |-> {"score", "operator"},
     LANGUAGE_COMPONENT_SCORE |-> {"score", "operator"},
     LANGUAGE_TEST            |-> {"test"},
     APPLICATION_DEADLINE     |-> {"deadline_kind", "year", "date", "time"},
     ACADEMIC_CALENDAR_EVENT  |-> {"year", "date"},
     PROGRAM_NAME             |-> {"program_name"},
     DEGREE_LEVEL             |-> {"degree_level"},
     DISCIPLINE_HINT          |-> {"discipline"}]

ValueKey(c) ==
    IF c.field \in DOMAIN ValueComponents
      THEN [x \in ValueComponents[c.field] |-> Of(c.value, x)]
    ELSE c.raw

Group(key, members, verdict) == [key |-> key, members |-> members, verdict |-> verdict]

VerdictOn(key, members) ==
    LET differ == Cardinality({ValueKey(c) : c \in members}) > 1
    IN  CASE differ /\ ~HasSentinel(key) -> "CONFLICTS"
          [] differ /\ HasSentinel(key)  -> "INSUFFICIENT_CONTEXT"
          [] ~differ /\ Cardinality(members) = 1 -> "SINGLE"
          [] ~differ /\ Cardinality(members) > 1 ->
                IF Cardinality({c.source : c \in members}) > 1
                THEN "AGREES" ELSE "POSSIBLE_DUPLICATE"

(* A claim with no key is a group of its own.                                *)
Alone(c) ==
    Group([candidate |-> <<c.id>>], {c},
          IF c.field \in NeverGrouped THEN "NOT_COMPARABLE" ELSE "INSUFFICIENT_CONTEXT")

GroupCandidates(candidates) ==
    LET keyed == {c \in candidates : Keyed(c)}
        about(key) == {c \in keyed : ContextKey(c) = key}
    IN  {Group(key, about(key), VerdictOn(key, about(key))) : key \in {ContextKey(c) : c \in keyed}}
        \cup {Alone(c) : c \in candidates \ keyed}

InVerdict(candidates, verdict) ==
    UNION {g.members : g \in {x \in GroupCandidates(candidates) : x.verdict = verdict}}

CorroboratedIds(candidates) == {c.id : c \in InVerdict(candidates, "AGREES")}
ConflictedIds(candidates)   == {c.id : c \in InVerdict(candidates, "CONFLICTS")}

(* One value at one institution with contexts that contradict each other:    *)
(* what any of them differ in is stated by all.                              *)
ContextConflicts(candidates) ==
    LET keyed == {c \in candidates : Keyed(c)}
        saying(c) == {d \in keyed : /\ d.institution = c.institution /\ d.field = c.field
                                    /\ ValueKey(d) = ValueKey(c)}
        differing(keys) ==
            {x \in UNION {DOMAIN k : k \in keys} : Cardinality({k[x] : k \in keys}) > 1}
    IN  {b \in {saying(c) : c \in keyed} :
            LET keys == {ContextKey(c) : c \in b}
            IN  differing(keys) # {} /\ \A k \in keys, x \in differing(keys) : k[x] # Unknown}

----------------------------------------------------------------------------
(* Claims of one region of one document *)

(* _locator_anchor, and the anchor of a score: a table's block is its own.   *)
RegionOf(at)    == [at EXCEPT !.column = 0, !.from = 0, !.to = 0]
LanguageRegion(at) == [block |-> at.block, table |-> at.table, item |-> at.item]

ContextGroups(claims, anchor) ==
    {{c \in claims : anchor[c] = a} : a \in {anchor[c] : c \in claims}}

ProgramGroups(claims)  == ContextGroups(claims, [c \in claims |-> RegionOf(c.at)])
LanguageGroups(claims) ==   \* of one test
    ContextGroups(claims, [c \in claims |-> LanguageRegion(c.at)])

----------------------------------------------------------------------------
(* Whom a claim may apply to *)

ScopedFieldKinds ==
    {"ADMISSION_REQUIREMENT", "APPLICATION_DEADLINE", "TUITION", "LANGUAGE_TEST",
     "LANGUAGE_OVERALL_SCORE", "LANGUAGE_COMPONENT_SCORE"}

(* The forms of _hints: a country, a system of qualifications, a category.   *)
Hints == {"CN", "A_LEVEL", "INTERNATIONAL"}

Proposal(resolution, hints, from) == [resolution |-> resolution, hints |-> hints, from |-> from]

(* propose_scope: what the rule stored, then the wording, then the headings. *)
ProposeScope(c) ==
    LET proposed(hints, from) == Proposal("PARTIALLY_RESOLVED", hints, from)
    IN  CASE c.field \notin ScopedFieldKinds -> Proposal("NOT_APPLICABLE", {}, "none")
          [] OTHER ->
               IF c.stored # {} THEN proposed(c.stored, "extractor")
               ELSE IF c.evidence # {} THEN proposed(c.evidence, "evidence")
               ELSE IF c.heading # {} THEN proposed(c.heading, "heading")
               ELSE Proposal("UNRESOLVED", {}, "none")

----------------------------------------------------------------------------
(* What kind of text or money it is *)

(* looks_like_chrome: the text is the label of a link of the document.       *)
LooksLikeChrome(doc, text) == \E l \in ToSet(doc.links) : Words(l.text) = Words(text)

(* The kinds of money, the first to match a text first.                      *)
FinancialPatterns ==
    <<"MEAL_PLAN", "HOUSING", "ESTIMATED_TOTAL_COST", "TUITION_FEE", "OTHER_MANDATORY_FEE",
      "COST_OF_ATTENDANCE_COMPONENT">>

FirstMatch(labels) ==
    LET found == {n \in DOMAIN FinancialPatterns : FinancialPatterns[n] \in labels}
    IN  IF found = {} THEN Unknown ELSE <<FinancialPatterns[Min(found)]>>

(* How far a label is from where the amount starts.                          *)
LabelDistance(start, at) == IF at < start THEN start - at - 1 ELSE at - start

(* _nearest_match: from the first occurrence of the amount, or the start of  *)
(* a text it is not in.                                                      *)
NearestMatch(text, amount) ==
    LET where  == {n \in DOMAIN text : text[n] = amount}
        start  == IF where = {} THEN 1 ELSE Min(where)
        labels == {n \in DOMAIN text : text[n] \in ToSet(FinancialPatterns)}
        nearest == {n \in labels : \A m \in labels : LabelDistance(start, n) <= LabelDistance(start, m)}
    IN  FirstMatch({text[n] : n \in nearest})

(* classify_financial_context: the labels of the cell, the wording by how    *)
(* near it is, and the headings from the innermost.                          *)
ClassifyFinancialContext(c) ==
    LET headings == SelectSeq(Reverse(c.headings), LAMBDA h : FirstMatch(h) # Unknown)
        answers  == <<FirstMatch(c.column), FirstMatch(c.row), NearestMatch(c.text, c.amount)>>
        found    == {n \in DOMAIN answers : answers[n] # Unknown}
    IN  IF found # {} THEN answers[Min(found)][1]
        ELSE IF headings # <<>> THEN FirstMatch(headings[1])[1]
        ELSE "UNKNOWN_FINANCIAL_AMOUNT"

----------------------------------------------------------------------------
(* Queues *)

Bands == <<"LOW", "MEDIUM", "HIGH">>
Rank(c) == CHOOSE n \in DOMAIN Bands : Bands[n] = c.band

(* Mutant: the best of the page, whatever field it is of. *)
BestOfPage(candidates, c) ==
    \A d \in {x \in candidates : x.extraction = c.extraction} : Rank(d) <= Rank(c)

(* Nothing better is on its page for its field.                              *)
IsBest(candidates, c) ==
    \A d \in {x \in candidates : x.extraction = c.extraction /\ x.field = c.field} :
        Rank(d) <= Rank(c)

(* queue_for                                                                 *)
QueueFor(candidates, c) ==
    CASE c.decision # "UNREVIEWED" -> "NOT_QUEUED"
      [] c.decision = "UNREVIEWED" /\ c.band \in {"HIGH", "MEDIUM"} -> "PRIMARY"
      [] OTHER -> IF IsBest(candidates, c) THEN "ONLY_CANDIDATE" ELSE "LOW_CONFIDENCE"

----------------------------------------------------------------------------
(* Properties *)

(* What is really asked of a date, which a page may say in part: rules state *)
(* the round and the period, and a model may state the rest.                 *)
Questions ==
    {q \in [applicant_scopes : 1..2, program_name : 1..2, period : 1..2, round_label : 1..2] :
        Cardinality({x \in DOMAIN q : q[x] = 2}) <= 1}

(* The terms a page names a period in: its academic year, the year of entry, *)
(* the year of the date itself, or two of them.                              *)
PeriodTerms(s) ==
    IF "period" \in s
      THEN {{"academic_year"}, {"entry_year"}, {"year"}, {"academic_year", "year"}}
      ELSE {{}}

(* A period starts in the year of its number; its second date is in the next.*)
PeriodIn(q, term, date) == IF term = "year" THEN q.period + date - 1 ELSE q.period

(* Headings name nothing, a round or an academic year, and any of these.     *)
Headings == UNION {[names -> 1..2] : names \in {{}, {"round_label"}, {"academic_year"}}}

SaidOf(q) == {s \in SUBSET DOMAIN q : Cardinality(s) >= 3} \cup {{"round_label"}, {}}

(* A date of one source that says s of its question, its period in terms,    *)
(* under a heading (_context_for): a round is looked for in the wording      *)
(* first, an academic year in the headings first.                            *)
DateOf(q, s, terms, date, heading, source) ==
    LET inValue == [x \in s \cap {"applicant_scopes"} |-> q[x]]
                   @@ [x \in terms \cap {"year"} |-> PeriodIn(q, x, date)]
        wording == [x \in s \cap {"program_name", "round_label"} |-> q[x]]
                   @@ [x \in terms \ {"year"} |-> PeriodIn(q, x, date)]
        years   == [x \in DOMAIN heading \cap {"academic_year"} |-> heading[x]]
        found   == years @@ wording @@ heading
        from    == IF "round_label" \in s THEN "text" ELSE "heading"
    IN  [id |-> source, source |-> source, institution |-> "uni", raw |-> "",
         field    |-> "APPLICATION_DEADLINE",
         question |-> q,
         value    |-> inValue @@ [deadline_kind |-> "APPLICATION", date |-> date],
         context  |-> IF "round_label" \in DOMAIN found THEN found @@ [round_label_source |-> from]
                      ELSE found]

DatesOn(source) ==
    LET underHeadings(q, s) ==
            {DateOf(q, s, terms, date, heading, source) :
                terms \in PeriodTerms(s), date \in 1..2,
                heading \in {h \in Headings : DOMAIN h \cap s = {}}}
    IN  UNION {underHeadings(q, s) : q \in Questions, s \in SaidOf(CHOOSE q \in Questions : TRUE)}

(* Two pages are said to conflict only where they answer one question, and   *)
(* to put one date to contradictory uses only where they do not.             *)
ComparedFairly(c, d) ==
    /\ ConflictedIds({c, d}) # {} => c.question = d.question
    /\ ContextConflicts({c, d}) # {} => c.question # d.question

(* What they name a period by is the same and is theirs: of two dates, not   *)
(* their years, which may be of two periods.                                 *)
InOneTerm(c, d) ==
    \E term \in {"academic_year", "entry_year", "year"} :
        /\ \A x \in {c, d} : PeriodKey(x) \in {Unknown, <<term, PeriodIn(x.question, term, x.value.date)>>}
        /\ term = "year" => c.value.date = d.value.date

(* Two pages that name their periods in one term are compared fairly,        *)
(* however much each leaves unsaid and whatever round its headings name      *)
(* (test_candidate_review: a thin context cannot establish a conflict).      *)
RivalsAnswerOneQuestion ==
    \A c \in DatesOn("A"), d \in DatesOn("B") : InOneTerm(c, d) => ComparedFairly(c, d)

(* Of every field that a page has candidates for, the best is in front of a  *)
(* reviewer or has been decided on.                                          *)
NothingIsPassedOver ==
    LET kinds == [band : ToSet(Bands), decision : {"UNREVIEWED", "REJECTED"},
                  field : {"TUITION", "LANGUAGE_TEST"}, extraction : 1..2]
    IN  \A f \in [1..3 -> kinds] :
            LET found == ToSet(f)
            IN  \A c \in found : \E d \in found :
                    /\ d.extraction = c.extraction /\ d.field = c.field /\ Rank(d) >= Rank(c)
                    /\ QueueFor(found, d) \in {"PRIMARY", "ONLY_CANDIDATE"} \/ d.decision = "REJECTED"

(* An amount of a run of labelled amounts is the money its label says, in    *)
(* whatever order they stand; rules read the first where amounts come first. *)
AmountsByTheirLabels ==
    \A f \in [1..3 -> ToSet(FinancialPatterns)], heading \in {{}, {"HOUSING"}} :
        LET amounts     == <<"1", "2", "3">>
            labelFirst  == <<f[1], "1", f[2], "2", f[3], "3">>
            amountFirst == <<"1", f[1], "2", f[2], "3", f[3]>>
            classOf(text, amount) ==
                ClassifyFinancialContext([column |-> {}, row |-> {}, text |-> text, amount |-> amount,
                                          headings |-> <<heading>>])
        IN  /\ \A n \in 1..3 : classOf(labelFirst, amounts[n]) = f[n]
            /\ classOf(amountFirst, "1") = f[1]

(* The code does not keep this: pages are compared fairly whatever they name *)
(* a period by and whatever year their headings name.                        *)
RivalsInAnyTerms == \A c \in DatesOn("A"), d \in DatesOn("B") : ComparedFairly(c, d)

(* Nor this: two pages that use one date for two rounds                      *)
(* are reported whatever a third page leaves unsaid.                         *)
ContradictionsStand(thirds) ==
    \A c \in DatesOn("A"), d \in DatesOn("B"), e \in thirds :
        ContextConflicts({c, d}) # {} =>
            \E b \in ContextConflicts({c, d, e}) : {c, d} \subseteq b

(* Nor this: claims that are said to agree are not of sections for different *)
(* applicants.                                                               *)
AgreeForOneApplicant(claims) ==
    \A c, d \in claims :
        LET proposed == {ProposeScope(c).hints, ProposeScope(d).hints}
        IN  CorroboratedIds({c, d}) # {} => Cardinality(proposed) = 1

(* Nor this: two statements are not grouped as parts of one, though every    *)
(* row of a table that names a test is.                                      *)
OneStatementEach(pages) ==
    \A pg \in pages :
        \A g \in LanguageGroups(LanguageClaims(ParseHtml(pg))) :
            Cardinality({RegionOf(c.at) : c \in g}) = 1

(* Nor this: a requirement that is nothing but labels of links is known for  *)
(* what it is.                                                               *)
LabelsAreKnown(pages) ==
    \A pg \in pages :
        LET doc == ParseHtml(pg)
        IN  \A c \in AdmissionClaims(pg, doc) :
               (\A w \in ToSet(Words(c.raw)) : pg[w[1]].tag = "a") => LooksLikeChrome(doc, c.raw)

(* Nor this, where two amounts of a text are equal: a claim of a model may   *)
(* quote the second.                                                         *)
EqualAmountsByTheirLabels ==
    \A f \in [1..2 -> ToSet(FinancialPatterns)] :
        NearestMatch(<<f[1], "1", f[2], "1">>, "1") = <<f[2]>>
=============================================================================
