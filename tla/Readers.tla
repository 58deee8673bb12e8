------------------------------ MODULE Readers -------------------------------
(***************************************************************************)
(* Which parts of a document the claim extractors read, and where the      *)
(* claims they make say they come from (domains/claims: tuition, language, *)
(* deadline, admission, llm, openai_extract). What a wording means is left *)
(* out (module Wording): any text may be about fees, tests, dates, awards  *)
(* or requirements, and any word of it be the one that matters.            *)
(***************************************************************************)
EXTENDS Document

(* is_chrome: by the innermost container only.                               *)
IsChrome(b) == b.container \in ChromeContainers \cup {"noscript"}

(* A claim: what it is about, the extractor that made it, the wording that   *)
(* gave the value, the text around it, and where that is.                    *)
Claim(field, raw, evidence, at) ==
    [field |-> field, raw |-> raw, evidence |-> evidence, at |-> at]

InBlock(n)          == [NoWhere EXCEPT !.block = n]
InItem(n, m)        == [NoWhere EXCEPT !.kind = "list_item", !.block = n, !.item = m]
InCell(t, row, col) == [NoWhere EXCEPT !.kind = "table_cell", !.table = t, !.row = row,
                                       !.column = col]

(* The units of a block that rules read: the items of a list, or its text.   *)
UnitsOf(blocks, n) ==
    LET b == blocks[n]
    IN  IF b.kind = "list"
          THEN {[text |-> b.items[m], at |-> InItem(n, m)] : m \in DOMAIN b.items}
        ELSE IF Blank(b.text) THEN {}
        ELSE {[text |-> b.text, at |-> InBlock(n)]}

UnitsOutside(blocks, Furniture(_)) ==
    UNION {UnitsOf(blocks, n) : n \in {m \in DOMAIN blocks : ~Furniture(blocks[m])}}

(* The places of the words of a unit; a span in an item of a list is one of  *)
(* the item.                                                                 *)
SpansOf(u) == {[u.at EXCEPT !.from = n, !.to = n] : n \in {m \in DOMAIN u.text : u.text[m] # Space}}

(* Score and fee tables are read where a header row labels a column: the     *)
(* cells of the other rows at the position of its cells, in any container.   *)
Labelled(table) ==
    IF table.headers = <<>> THEN {}
    ELSE {at \in (DOMAIN table.rows) \X (DOMAIN table.headers[1]) : at[2] \in DOMAIN table.rows[at[1]]}

TableClaims(doc, field) ==
    UNION {{LET text == doc.tables[t].rows[at[1]][at[2]].text
            IN  Claim(field, text, text, InCell(t, at[1], at[2])) : at \in Labelled(doc.tables[t])} :
             t \in DOMAIN doc.tables}

(* tuition.extract: a claim from each unit and each labelled cell.           *)
TuitionClaims(doc) ==
    {Claim("TUITION", u.text, u.text, u.at) : u \in UnitsOutside(doc.blocks, IsChrome)}
    \cup TableClaims(doc, "TUITION")

(* Mutant: a claim about a score is located by its block. *)
WholeUnit(u) == {u.at}

(* language.extract: the words that name a test or give its score are each   *)
(* located for themselves.                                                   *)
LanguageSpans(u) == SpansOf(u)

LanguageClaims(doc) ==
    TableClaims(doc, "LANGUAGE_OVERALL_SCORE") \cup
    UNION {{Claim("LANGUAGE_OVERALL_SCORE", <<u.text[y[1]]>>, u.text, y[2]) :
              y \in {z \in (DOMAIN u.text) \X LanguageSpans(u) :
                        u.text[z[1]] # Space /\ z[2].from \in {0, z[1]}}} :
             u \in UnitsOutside(doc.blocks, IsChrome)}

(* deadline.extract: one claim from each unit.                               *)
DeadlineClaims(doc) ==
    {Claim("APPLICATION_DEADLINE", u.text, u.text, u.at) :
        u \in UnitsOutside(doc.blocks, IsChrome)}

(* extract_calendar: every date of a block's text, located for itself; lists *)
(* have none.                                                                *)
CalendarClaims(doc) ==
    UNION {{Claim("ACADEMIC_CALENDAR_EVENT", SubSeq(doc.blocks[n].text, at.from, at.to),
                  doc.blocks[n].text,
                  [at EXCEPT !.kind = IF doc.blocks[n].kind = "pdf_page" THEN "pdf_page" ELSE @]) :
              at \in SpansOf([text |-> doc.blocks[n].text, at |-> InBlock(n)])} :
             n \in {m \in DOMAIN doc.blocks : ~IsChrome(doc.blocks[m])}}

----------------------------------------------------------------------------
(* Requirements and programmes *)

(* The unit is one anchor and nothing else.                                  *)
IsLabel(pg, doc, u) ==
    IF u.at.kind = "list_item"
    THEN \E l \in ToSet(doc.links) : /\ l.itemOnly /\ l.block = u.at.block
                                     /\ Words(l.text) = Words(u.text)
    ELSE LinkOnly(pg, doc.blocks[u.at.block].node)

(* admission.extract: prose outside anything that is inside furniture, and   *)
(* not the label of a link.                                                  *)
AdmissionUnits(pg, doc) ==
    {u \in UnitsOutside(doc.blocks, LAMBDA b : IsChrome(b) \/ b.chrome) :
        /\ doc.blocks[u.at.block].kind \in {"list", "paragraph", "quote"}
        /\ ~IsLabel(pg, doc, u)}

AdmissionClaims(pg, doc) ==
    {Claim("ADMISSION_REQUIREMENT", u.text, u.text, u.at) : u \in AdmissionUnits(pg, doc)}

(* Mutant: the innermost container alone says where a text is from. *)
BodyByContainer(x) == x.container \in BodyContainers

(* _body_origin *)
BodyOrigin(x) == ~x.chrome /\ x.container \in BodyContainers

(* extract_program: the headings, and then the links that repeat none.       *)
ProgrammeHeadings(doc) ==
    {n \in DOMAIN doc.blocks : /\ doc.blocks[n].kind = "heading"
                               /\ ~IsChrome(doc.blocks[n]) /\ BodyOrigin(doc.blocks[n])}

ProgrammeLinks(doc) ==
    {n \in DOMAIN doc.links :
        /\ BodyOrigin(doc.links[n])
        /\ \A m \in ProgrammeHeadings(doc) :
              Words(doc.blocks[m].text) # Words(doc.links[n].text)}

ProgrammeClaims(doc) ==
    {Claim("PROGRAM_NAME", doc.blocks[n].text, doc.blocks[n].text, InBlock(n)) :
        n \in ProgrammeHeadings(doc)}
    \cup
    {Claim("PROGRAM_NAME", doc.links[n].text, doc.links[n].text,
           [NoWhere EXCEPT !.kind = "link", !.link = n, !.block = doc.links[n].block]) :
        n \in ProgrammeLinks(doc)}

----------------------------------------------------------------------------
(* Models *)

(* What a model may quote: a word of the page, or one that is not on it.     *)
Invented == Word(99, 99)
QuotesFor(pg) == {Invented} \cup Spoken(pg)

(* _verified: the block cited, if the quote is there, or the first it is in. *)
VerifiedBlock(blocks, quote, cited) ==
    LET in == {n \in DOMAIN blocks : quote \in ToSet(blocks[n].text)}
    IN  IF cited \in in THEN cited ELSE IF in = {} THEN 0 ELSE Min(in)

(* llm.extract *)
ModelClaims(pg, doc) ==
    {Claim("TUITION", <<y[1]>>, <<y[1]>>, InBlock(VerifiedBlock(doc.blocks, y[1], y[2]))) :
        y \in {z \in QuotesFor(pg) \X (0..Len(doc.blocks) + 1) :
                  VerifiedBlock(doc.blocks, z[1], z[2]) # 0}}

(* openai_extract._validate_item: the quote is in the block cited, and is    *)
(* located by its first occurrence there.                                    *)
ValidatedItems(pg, doc) ==
    UNION {{Claim("TUITION", <<q>>, <<q>>,
                  LET text == doc.blocks[n].text
                      first == Min({m \in DOMAIN text : text[m] = q})
                  IN  [InBlock(n) EXCEPT !.from = first, !.to = first]) :
              q \in {x \in QuotesFor(pg) : x \in ToSet(doc.blocks[n].text)}} :
             n \in DOMAIN doc.blocks}

----------------------------------------------------------------------------
(* Properties *)

(* Content and navigation, with headings, lists and links; and tables.       *)
SitePages == PagesOf({"section", "nav", "h2", "p", "ul", "li", "a"}, PageNodes)
PdfPages  == [1..2 -> {"text", "blank", "unreadable"}]

RuleClaims(pg, doc) ==
    {TuitionClaims(doc), LanguageClaims(doc), DeadlineClaims(doc), CalendarClaims(doc),
     AdmissionClaims(pg, doc), ProgrammeClaims(doc)}

(* The quote is in what the pointer of its claim leads to, and, where it is  *)
(* a span, a cell or a link, is all of it.                                   *)
Found(doc, c) ==
    LET text == Resolve(doc, c.at)
    IN  IF c.at.from # 0 /\ c.at.kind # "list_item" THEN text = c.raw
        ELSE ToSet(c.raw) \subseteq ToSet(text) /\ (c.at.kind # "block" => text = c.evidence)

(* The claims of the rules, on every page, and no two of one extractor about *)
(* one field with one pointer, which is all that tells them apart when they  *)
(* are inserted.                                                             *)
PointIn(doc, claims) ==
    /\ \A c \in claims : Found(doc, c)
    /\ \A c, d \in claims : c.at = d.at => c = d

RulesPointIn(pg, doc) == \A claims \in RuleClaims(pg, doc) : PointIn(doc, claims)

RulesPoint ==
    /\ \A pg \in SitePages \cup TablePages : RulesPointIn(pg, ParseHtml(pg))
    /\ \A pages \in PdfPages : RulesPointIn(<<>>, ParsePdf(pages))

(* The claims of the models, whatever they answer.                           *)
ModelsPointIn(pg, doc) ==
    \A c \in ModelClaims(pg, doc) \cup ValidatedItems(pg, doc) : Found(doc, c)

ModelsPoint == \A pg \in TextPages : ModelsPointIn(pg, ParseHtml(pg))

(* The elements of a page that are inside its furniture.                     *)
Furniture(pg) ==
    {i \in DOMAIN pg : \E j \in Above(pg, i) \cup {i} :
                          pg[j].tag \in ChromeContainers \cup {"noscript"}}

BlockNode(doc, at) == doc.blocks[at.block].node

InBlocks(pg) == {i \in DOMAIN pg : \E j \in Above(pg, i) : pg[j].tag \in BlockTags}

(* Programmes and admission requirements are read from blocks, and links in  *)
(* blocks, of the content of a page and never of its navigation, header or   *)
(* footer, however deep in sections of them.                                 *)
ContentOnlyIn(pg, doc) ==
    \A c \in ProgrammeClaims(doc) \cup AdmissionClaims(pg, doc) :
        BlockNode(doc, c.at) \notin Furniture(pg)

ContentOnly == \A pg \in SitePages : ContentOnlyIn(pg, ParseHtml(pg))

(* The label of a link in a paragraph, a heading or an item is no requirement *)
(* (one that stands bare is read as any bare text).                          *)
LabelsAreNoRequirements ==
    \A pg \in SitePages :
        \A c \in AdmissionClaims(pg, ParseHtml(pg)), i \in InBlocks(pg) :
            pg[i].tag = "a" => Words(TextOf(pg, i)) # Words(c.raw)

(* The code does not keep this: a link in a navigation that a list of the    *)
(* content holds is read, for it is said to be where the list is.            *)
LinksInFurnitureAreNotRead(pages) ==
    \A pg \in pages :
        LET doc == ParseHtml(pg)
        IN  \A n \in ProgrammeLinks(doc) : doc.links[n].node \notin Furniture(pg)

(* Nor this: fees, scores and dates are read from sections of the navigation,*)
(* and from tables wherever they are.                                        *)
FurnitureIsNotRead(pages) ==
    \A pg \in pages :
        LET doc == ParseHtml(pg)
        IN  \A c \in TuitionClaims(doc) \cup LanguageClaims(doc) \cup DeadlineClaims(doc) :
               c.at.kind # "table_cell" => BlockNode(doc, c.at) \notin Furniture(pg)

(* Nor this: the claims a model makes of one block and one field are told    *)
(* apart.                                                                    *)
ModelClaimsAreToldApart(pages) ==
    \A pg \in pages :
        \A c, d \in ModelClaims(pg, ParseHtml(pg)) : c.at = d.at => c = d
=============================================================================
