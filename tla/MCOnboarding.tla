---------------------------- MODULE MCOnboarding ----------------------------
(* Two institutions, one spelled in two ways; files that declare their      *)
(* count or not, broken off by blank lines, with labels that disagree.      *)
EXTENDS Onboarding, TLC

CONSTANTS a, b, a2, i1, i2, uk, hk, f1, f2, f3, f4, f5, f6, p, p2, s, s2, s3, u, v

TwoImporters == {i1, i2}
Symmetry == Permutations(TwoImporters)
Fold == (a :> a) @@ (b :> b) @@ (a2 :> a)

Line(name, rank, region, territory) ==
    [name |-> name, rank |-> rank, region |-> region, territory |-> territory]
File(lines, declared, name, version) ==
    [lines |-> lines, declared |-> declared, identity |-> [name |-> name, version |-> version]]
InFile ==
    (f1 :> File(<<Line(a, 1, "GB", "GB"), Blank, Line(b, 2, "GB", Unmapped)>>, 2, uk, 2))
    @@ (f2 :> File(<<Line(a2, 2, "GB", "GB")>>, 0, uk, 1))
    @@ (f3 :> File(<<Line(b, 1, "GB", "HK"), Blank, Blank, Line(a, 1, "HK", "HK")>>, 0, hk, 1))
    @@ (f4 :> File(<<Line(a, 1, Unmapped, Unmapped), Line(b, 1, "GB", "GB")>>, 0, uk, 4))
    @@ (f5 :> File(<<Line(b, 1, "GB", "GB"), Blank, Blank, Line(a, 1, "GB", "GB")>>, 2, hk, 2))
    @@ (f6 :> File(<<Line(a, 1, "HK", "HK")>>, 1, uk, 3))
NoOverrides == {}

(* Books are followed for the lists of the first two imports.               *)
EarlyTemplate == template = None \/ began <= 2

----------------------------------------------------------------------------
(* What collectors do: each edit departs from a plain one in one place, or  *)
(* in two that are checked together.                                        *)

Plain ==
    [sheets |-> W!Sheets, expected |-> None,
     answers |-> [k \in Keys |-> [answer |-> "YES", homepage |-> "usable", fits |-> TRUE]],
     extra |-> <<>>,
     programs |-> <<[id |-> a, ref |-> p, named |-> TRUE, fits |-> TRUE]>>,
     sources |-> <<[id |-> a, ref |-> s, url |-> u, typed |-> TRUE, fits |-> TRUE]>>,
     facts |-> <<>>]

AFact == [sheet |-> "Admissions", id |-> a, program |-> p, source |-> s, status |-> "PUBLISHED",
          text |-> TRUE, fee |-> W!NoFee, date |-> W!NoDate, category |-> None,
          fits |-> TRUE]

Selections ==
    {[Plain EXCEPT !.answers[a] = [answer |-> x, homepage |-> h, fits |-> TRUE],
                   !.extra = e, !.expected = n] :
        n \in {1, None}, x \in {"YES", "NO", "other", None}, h \in W!Homepages,
        e \in {<<>>} \cup {<<[id |-> i, answer |-> y, homepage |-> "usable", fits |-> TRUE]>> :
                              i \in {a, Foreign, Malformed}, y \in {"YES", "NO"}}}
References ==
    {[Plain EXCEPT !.programs = ps, !.facts = <<[AFact EXCEPT !.program = r, !.id = i]>>] :
        ps \in {<<>>} \cup {<<[id |-> x, ref |-> y, named |-> n, fits |-> TRUE]>> :
                              x \in {a, b, Foreign}, y \in {p, p2, Malformed, None}, n \in BOOLEAN},
        r \in {p, p2, None}, i \in {a, b, Foreign, Malformed}}
Citations ==
    {[Plain EXCEPT !.sources = ss, !.facts = <<[AFact EXCEPT !.source = r, !.status = t]>>] :
        ss \in {<<[id |-> x, ref |-> s, url |-> y, typed |-> n, fits |-> TRUE]>> :
                   x \in {a, b}, y \in {u, Malformed, None}, n \in BOOLEAN}
               \cup {<<Plain.sources[1],
                       [id |-> x, ref |-> y, url |-> z, typed |-> TRUE, fits |-> TRUE]>> :
                   x \in {a, b}, y \in {s, s2, s3}, z \in {u, v}},
        r \in {s, s2, None}, t \in {"PUBLISHED", "NOT_CHECKED", "other"}}
WithFee(kind, low, high, spaced, all, status) ==
    [Plain EXCEPT !.facts = <<[AFact EXCEPT
        !.sheet = "Tuition", !.text = all, !.status = status,
        !.fee = [kind |-> kind, min |-> low, max |-> high, spaced |-> spaced,
                 priced |-> all]]>>]
Fees ==
    {WithFee(k, x, y, {}, n, t) :
        k \in W!AmountKinds \cup {"other", None}, x \in {None, Malformed, -1, 1, 2},
        y \in {None, 1, 2}, n \in BOOLEAN, t \in {"PUBLISHED", "OFFICIALLY_NOT_PUBLISHED"}}
    \cup {WithFee(k, x, y, q, TRUE, "PUBLISHED") :
        k \in W!AmountKinds, x \in {None, 1, FigureLimit - 1, FigureLimit},
        y \in {None, 1, FigureLimit}, q \in SUBSET {"min", "max"}}
Dates ==
    {[Plain EXCEPT !.facts = <<[AFact EXCEPT !.sheet = "Deadlines", !.category = c, !.date =
          [kind |-> k, year |-> y, month |-> m, part |-> q, day |-> d, time |-> t, zone |-> t]]>>] :
        k \in {"FIXED_DATE", "NO_FIXED_DEADLINE", "other", None}, c \in {"HOME", "LOCAL"},
        y \in BOOLEAN, m \in BOOLEAN, q \in BOOLEAN, d \in BOOLEAN, t \in BOOLEAN}
Strays ==
    {[Plain EXCEPT !.facts = <<[AFact EXCEPT !.program = None, !.source = None,
                                             !.status = t, !.id = i]>>] :
        t \in {"NOT_CHECKED", "PUBLISHED"}, i \in {b, Foreign, Malformed}}
TornBooks == {[Plain EXCEPT !.sheets = @ \ {"Tuition"}]}
LongCells ==
    {[Plain EXCEPT !.answers[a].fits = FALSE], [Plain EXCEPT !.programs[1].fits = FALSE],
     [Plain EXCEPT !.sources[1].fits = FALSE],
     [Plain EXCEPT !.facts = <<[AFact EXCEPT !.fits = FALSE]>>]}

CollectorsEdits ==
    UNION {Selections, References, Citations, Fees, Dates, Strays, TornBooks, LongCells}

=============================================================================
