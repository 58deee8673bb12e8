------------------------------ MODULE Wording -------------------------------
(***************************************************************************)
(* What the extractors read in one unit of text (Readers says which units):*)
(* which test a score belongs to (claims/language.py), the shape of a fee  *)
(* (claims/tuition.py) and the time of a deadline (claims/deadline.py).    *)
(* A text is a sequence of tokens, one for each match of the patterns and  *)
(* one for a stretch of other words; the comparison words of a score and   *)
(* the symbol of an amount are part of it. Distances are in characters.    *)
(***************************************************************************)
EXTENDS Integers, Sequences, FiniteSets, SequencesExt

LOCAL Least(S) == Head(SetToSortSeq(S, <))

(* A token, with the characters it takes. A space follows each but the one   *)
(* before a comma, whose character stands for that space.                    *)
Token(kind, name, value, width) ==
    [kind |-> kind, name |-> name, value |-> value, width |-> width]
Comma     == Token("joint", ",", 0, 0)
Or        == Token("joint", "or", 0, 2)
Short     == Token("words", "in", 0, 2)
Some      == Token("words", "some", 0, 8)
Many      == Token("words", "many", 0, 40)

(* Where the tokens of a text begin and end.                                 *)
Begin(text, n) ==
    LET at[m \in 1..n] == IF m = 1 THEN 0 ELSE at[m - 1] + text[m - 1].width + 1
    IN  at[n]
End(text, n)   == Begin(text, n) + text[n].width

Positions(text, kind) == {n \in DOMAIN text : text[n].kind = kind}

----------------------------------------------------------------------------
(* Scores *)

Tests == {"IELTS", "TOEFL", "PTE"}
KnownTests == [IELTS |-> <<0, 9>>, TOEFL |-> <<0, 120>>, PTE |-> <<10, 90>>]
Floors     == [IELTS |-> 4, TOEFL |-> 30, PTE |-> 30]

Plausible(test, v)        == KnownTests[test][1] <= v /\ v <= KnownTests[test][2]
PlausibleOverall(test, v) == Plausible(test, v) /\ v >= Floors[test]

Test(t)  == Token("test", t, 0, 5)
Score(v) == Token("score", "", v, 3)
Floor(v) == Token("floor", "ALL_COMPONENTS", v, 22)   \* "no component below 6.5"
Part(v)  == Token("part", "", v, 6)                   \* digits of a longer token

MaxBindingGap   == 24
MaxTestDistance == 80

(* Mutant: the words of the pattern never match, only punctuation does. *)
PunctuationOnly(token) == token.kind = "joint" /\ token.name = ","

(* A coordinator: what follows belongs to the other alternative.             *)
Coordinates(token) == token.kind = "joint"

HasDigit(token) == token.kind \in {"score", "floor", "part"}

(* _binds: what is between two tokens reads as one pairing.                  *)
Binds(text, a, b) ==
    /\ Begin(text, b) - End(text, a) <= MaxBindingGap
    /\ \A n \in a + 1..b - 1 : ~Coordinates(text[n]) /\ ~HasDigit(text[n])

(* _distance, _nearest: the first of the nearest mentions.                   *)
Distance(text, n, m) ==
    LET apart(x, y) == IF x < y THEN y - x ELSE x - y
    IN  Least({apart(Begin(text, n), Begin(text, m)), apart(Begin(text, n), End(text, m))})
Nearest(text, n) ==
    LET mentions == Positions(text, "test")
        nearest  == {m \in mentions : \A k \in mentions : Distance(text, n, m) <= Distance(text, n, k)}
    IN  Least(nearest)

(* _attribute: the mention the wording pairs with a value, a name after it   *)
(* before one at the same gap ahead of it; or the nearest.                   *)
Attribute(text, n) ==
    LET gap(m)  == IF m < n THEN Begin(text, n) - End(text, m) ELSE Begin(text, m) - End(text, n)
        bound   == {m \in Positions(text, "test") :
                      IF m < n THEN Binds(text, m, n) ELSE Binds(text, n, m)}
        best    == {m \in bound : \A k \in bound :
                      gap(m) < gap(k) \/ (gap(m) = gap(k) /\ k <= m)}
        m       == IF bound # {} THEN CHOOSE k \in best : TRUE ELSE Nearest(text, n)
    IN  [test |-> text[m].name,
         how  |-> IF bound # {} THEN "binding" ELSE "positional",
         far  |-> bound = {} /\ Distance(text, n, m) > MaxTestDistance]

(* The floors for every component that are attributed to a test.             *)
ComponentScores(text) ==
    LET of == [n \in Positions(text, "floor") |-> Attribute(text, n)]
    IN  IF Positions(text, "test") = {} THEN {}
        ELSE {[test |-> of[n].test, score |-> text[n].value] :
                n \in {m \in DOMAIN of : ~of[m].far /\ Plausible(of[m].test, text[m].value)}}

(* _from_text: the first score attributed to each test, with floors and      *)
(* digits of longer tokens left out.                                         *)
OverallScores(text) ==
    LET of == [n \in Positions(text, "score") |-> Attribute(text, n)]
        usable == {n \in DOMAIN of : ~of[n].far /\ PlausibleOverall(of[n].test, text[n].value)}
        first(n) == \A m \in usable : m < n => of[m].test # of[n].test
    IN  IF Positions(text, "test") = {} THEN {}
        ELSE {[test |-> of[n].test, score |-> text[n].value, how |-> of[n].how] :
                n \in {m \in usable : first(m)}}

----------------------------------------------------------------------------
(* Fees *)

(* A number: with a currency symbol or thousands separators, or abutting     *)
(* more digits (a colour, a list of ids).                                    *)
Number(v, symbol, grouped, abuts) ==
    Token("number", "", v, 6) @@ [symbol |-> symbol, grouped |-> grouped, abuts |-> abuts]
From   == Token("from", "", 0, 4)
UpTo   == Token("upto", "", 0, 5)
Joiner == Token("joiner", "to", 0, 2)

(* _amounts_in *)
IsMoney(t) == t.kind = "number" /\ ~t.abuts /\ (t.symbol \/ t.grouped)
AmountsIn(text) == SetToSortSeq({n \in DOMAIN text : IsMoney(text[n])}, <)

(* _classify, of a text with an amount: two amounts and a joiner are a range *)
(* if they ascend and ambiguous if not; otherwise what is before the first   *)
(* says what it is, and 0 is an end that is not stated.                      *)
Classify(text) ==
    LET amounts == AmountsIn(text)
        joined  == /\ Len(amounts) >= 2
                   /\ amounts[2] = amounts[1] + 2
                   /\ text[amounts[1] + 1].kind = "joiner"
        first   == text[amounts[1]].value
        second  == text[amounts[2]].value
        says(kind) == \E n \in 1..amounts[1] - 1 : text[n].kind = kind
        Shape(kind, lo, hi) == [kind |-> kind, min |-> lo, max |-> hi]
    IN  IF joined
          THEN IF first <= second THEN Shape("RANGE", first, second)
               ELSE Shape("AMOUNT_SHAPE_AMBIGUOUS", second, first)
        ELSE IF says("upto") THEN Shape("UP_TO", 0, first)
        ELSE IF says("from") THEN Shape("FROM", first, 0)
        ELSE Shape("EXACT", first, first)

----------------------------------------------------------------------------
(* Deadlines *)

Date(d) == Token("date", "", d, 10)
Time(t) == Token("time", "", t, 5)
By      == Token("context", "by", 0, 2)

MaxTimeGap == 30
NoTime == -1

(* The tokens wholly within the window after a date, or before it.           *)
After(text, n)  == {m \in n + 1..Len(text) : End(text, m) <= End(text, n) + MaxTimeGap}
Ahead(text, n)  == {m \in 1..n - 1 : Begin(text, m) >= Begin(text, n) - MaxTimeGap}

(* _time_parts: the first time after the date or else before it, in a window *)
(* with a word that introduces it and no other date.                         *)
TimeOf(text, n) ==
    LET usable(window) == /\ \A m \in window : text[m].kind # "date"
                          /\ \E m \in window : text[m].kind = "context"
                          /\ window \cap Positions(text, "time") # {}
        first(window) == text[Least(window \cap Positions(text, "time"))].value
    IN  IF usable(After(text, n)) THEN first(After(text, n))
        ELSE IF usable(Ahead(text, n)) THEN first(Ahead(text, n))
        ELSE NoTime

(* _from_text: a statement without a date comes before any date, and only    *)
(* the first date is read.                                                   *)
ReadDeadline(text) ==
    LET dates == Positions(text, "date")
    IN  IF Positions(text, "undated") # {} THEN [kind |-> "UNDATED", day |-> 0, time |-> NoTime]
        ELSE IF dates = {} THEN [kind |-> "NONE", day |-> 0, time |-> NoTime]
        ELSE [kind |-> "FIXED_DATE", day |-> text[Least(dates)].value,
              time |-> TimeOf(text, Least(dates))]

----------------------------------------------------------------------------
(* Properties *)

(* A requirement that pairs a test with a score, in either order, and may    *)
(* set a floor for its components.                                           *)
Clauses(t, v) ==
    {<<Score(v), Short, Test(t)>>, <<Test(t), Short, Score(v)>>, <<Test(t), Score(v)>>}
FloorOf == [IELTS |-> 5, TOEFL |-> 20, PTE |-> 50]
WithFloor(clause, t) == clause \o <<Some, Floor(FloorOf[t])>>
ScoreOf == [IELTS |-> 7, TOEFL |-> 100, PTE |-> 76]

Requirement(t) ==
    Clauses(t, ScoreOf[t]) \cup {WithFloor(c, t) : c \in Clauses(t, ScoreOf[t])}

(* What may stand around them: a year, a postcode; the sentences before.     *)
Surroundings == {<<>>, <<Part(5), Many>>, <<Many, Many, Some>>}

Alternatives ==
    {y[1] \o y[2] \o <<y[3]>> \o y[4] \o y[5] :
        y \in Surroundings \X Requirement("IELTS") \X {Comma, Or} \X Requirement("TOEFL")
                \X ({<<>>} \cup {<<j>> \o r : j \in {Comma, Or}, r \in Requirement("PTE")})}

(* Alternatives joined by "or" or a comma keep their own scores and floors,  *)
(* each paired by the wording, whatever the order within each, and a digit   *)
(* of a postcode is none of them.                                            *)
ScoresAsWritten ==
    \A text \in Alternatives :
        LET named == {text[n].name : n \in Positions(text, "test")}
        IN  /\ OverallScores(text) =
                  {[test |-> t, score |-> ScoreOf[t], how |-> "binding"] : t \in named}
            /\ \A c \in ComponentScores(text) : c.score = FloorOf[c.test]
            /\ Len(SelectSeq(text, LAMBDA k : k.kind = "floor")) =
                  Cardinality(ComponentScores(text))

(* Numbers with a sign of money, and others.                                 *)
Money(v) == {Number(v, y[1], y[2], FALSE) : y \in (BOOLEAN \X BOOLEAN) \ {<<FALSE, FALSE>>}}
NotMoney == {Number(9, FALSE, FALSE, FALSE), Number(9, TRUE, TRUE, TRUE)}
Around   == {<<>>, <<Short>>} \cup {<<n>> : n \in NotMoney}
Prices   == {2, 3}

(* A fee keeps the shape it was written in, both ends of a range included,   *)
(* with years and codes around it and with words about others after it.      *)
FeesAsWritten ==
    \A before, after \in Around, tail \in {<<>>, <<From>>, <<UpTo>>} :
        \A v, w \in Prices : \A m \in Money(v), k \in Money(w) :
            LET reading(wording) == Classify(before \o wording \o after \o tail)
                range == IF v <= w THEN "RANGE" ELSE "AMOUNT_SHAPE_AMBIGUOUS"
            IN  /\ \A wording \in {<<m, Joiner, k>>, <<From, m, Joiner, k>>} :
                      reading(wording) = [kind |-> range, min |-> Least({v, w}),
                                          max |-> IF v <= w THEN w ELSE v]
                /\ reading(<<m>>)       = [kind |-> "EXACT", min |-> v, max |-> v]
                /\ reading(<<From, m>>) = [kind |-> "FROM",  min |-> v, max |-> 0]
                /\ reading(<<UpTo, m>>) = [kind |-> "UP_TO", min |-> 0, max |-> v]

(* Dates, each with a time behind it or none, and words between.             *)
Dated(d) == {<<Date(d)>>, <<Date(d), By, Time(d)>>, <<Date(d), Short, Time(d)>>}
Between  == {<<>>, <<By>>, <<Some>>, <<Some, Some>>, <<Some, By>>, <<Many>>, <<Many, By>>}

(* The date read is the first, and the time read with it is the one behind   *)
(* it and never that of a later date, however near.                          *)
DatesAsWritten ==
    \A lead, gap \in Between : \A d \in Dated(1), e \in Dated(2) :
        LET alone == ReadDeadline(lead \o d)
            read  == ReadDeadline(lead \o d \o gap \o e)
        IN  /\ read.day = 1 /\ read.time \in {1, NoTime}
            /\ By \in ToSet(d) => alone.time = 1
            /\ Len(d) = 1 => alone.time = NoTime /\ read.time = NoTime

(* The code does not keep this: a time ahead of its date is given to the date *)
(* before it, when its own is cut off by the window.                         *)
TimesAheadAreKept(gaps) ==
    \A gap \in gaps :
        ReadDeadline(<<Date(1)>> \o gap \o <<By, Time(2), Many, Date(2)>>).time = NoTime

(* Nor this: alternatives may be told apart without a word or a comma.       *)
TellsApartWithout(joints) ==
    \A t, u \in Tests, j \in joints :
        t # u => \A c \in OverallScores(<<Test(t), Score(ScoreOf[t])>> \o j \o
                                        <<Test(u), Score(ScoreOf[u])>> \o j \o
                                        <<Test("PTE"), Score(ScoreOf["PTE"])>>) :
                     c.score = ScoreOf[c.test]

(* Nor this: both ends of a range are read when only the first shows a       *)
(* currency and neither has separators.                                      *)
RangesKeepBothEnds(seconds) ==
    \A k \in seconds :
        Classify(<<Number(2, TRUE, FALSE, FALSE), Joiner, k>>).kind = "RANGE"
=============================================================================
