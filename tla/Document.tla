------------------------------ MODULE Document ------------------------------
(***************************************************************************)
(* How a page becomes a normalised document: the walk over the parsed tree *)
(* that turns it into blocks, tables and links in document order           *)
(* (extraction/html_document.py), the pages of a PDF, and the pointers     *)
(* into a document that claims carry (claims/locator.py).                  *)
(*                                                                         *)
(* A page is the sequence of its elements in document order, each with its *)
(* depth. An element that has text has a word after its start tag and one  *)
(* after each child; the source has no other whitespace. A word is the     *)
(* element it belongs to and the one it follows.                           *)
(***************************************************************************)
EXTENDS Naturals, Sequences, FiniteSets, SequencesExt

CONSTANT PageNodes   \* bound: the elements of the body of a page

ASSUME PageNodesAssumption == PageNodes \in Nat

Level      == [h1 |-> 1, h2 |-> 2, h3 |-> 3]
HeadingTags == DOMAIN Level

DroppedTags      == {"script"}
ContainerTags    == {"main", "article", "section", "nav", "header", "footer", "aside", "form"}
BodyContainers   == {"main", "article", "section"}
ChromeContainers == {"nav", "header", "footer"}
ItemTags         == {"li", "dt", "dd"}

(* The tags whose block consumes everything below it.                        *)
BlockTags == HeadingTags \cup {"p", "ul", "ol", "dl", "table", "pre", "blockquote", "noscript"}

----------------------------------------------------------------------------
(* Pages *)

(* What the parser may put in an element of a tag, among the tags of a page. *)
Flow(tags) == tags \ (ItemTags \cup {"tr", "td", "th", "thead", "caption"})
MayHold(tag, tags) ==
    CASE tag \in {"ul", "ol"} -> tags \cap {"li"}
      [] tag = "dl"           -> tags \cap {"dt", "dd"}
      [] tag = "table"        -> tags \cap {"tr", "thead", "caption"}
      [] tag = "thead"        -> tags \cap {"tr"}
      [] tag = "tr"           -> tags \cap {"td", "th"}
      [] tag \in HeadingTags \cup {"p", "pre", "dt", "caption"} -> tags \cap {"a", "span", "script"}
      [] tag \in {"a", "span", "script"} -> {}
      [] OTHER -> Flow(tags)

TextOptions(tag) ==
    CASE tag \in {"ul", "ol", "dl", "table", "thead", "tr"} -> {FALSE}
      [] tag \in {"a", "span", "script", "caption", "th", "pre"} -> {TRUE}
      [] OTHER -> BOOLEAN

Element(tag, depth, text) == [tag |-> tag, depth |-> depth, text |-> text]

(* The element open at a depth where a page ends; the body at depth 0.       *)
OpenAt(pg, d) ==
    IF d = 0 THEN Element("body", 0, FALSE)
    ELSE pg[CHOOSE i \in DOMAIN pg : /\ pg[i].depth = d
                                     /\ \A j \in i + 1..Len(pg) : pg[j].depth > d]

(* A page may go on with an element.                                         *)
GoesOn(pg, e, tags) ==
    /\ e.depth <= 1 + (IF pg = <<>> THEN 0 ELSE Last(pg).depth)
    /\ e.tag \in MayHold(OpenAt(pg, e.depth - 1).tag, tags)

PagesOf(tags, nodes) ==
    LET elements == UNION {{Element(t, d, x) : d \in 1..nodes, x \in TextOptions(t)} :
                             t \in tags}
        pages[n \in 0..nodes] ==
          IF n = 0 THEN {<<>>}
          ELSE {Append(y[1], y[2]) :
                  y \in {z \in pages[n - 1] \X elements : GoesOn(z[1], z[2], tags)}}
    IN  pages[nodes]

(* The members of a set of numbers in ascending order.                       *)
InOrder(S) == [n \in 1..Cardinality(S) |-> CHOOSE x \in S : Cardinality({y \in S : y < x}) = n - 1]

(* What stands at some positions of a sequence, in its order.                *)
Picked(s, positions) == [n \in 1..Cardinality(positions) |-> s[InOrder(positions)[n]]]

(* The elements below an element, its children (0 is the body), and what is  *)
(* above it.                                                                 *)
Below(pg, i) ==
    {j \in i + 1..Len(pg) : \A k \in i + 1..j : pg[k].depth > pg[i].depth}
Children(pg, i) ==
    LET inside == IF i = 0 THEN DOMAIN pg ELSE Below(pg, i)
        depth  == IF i = 0 THEN 0 ELSE pg[i].depth
    IN  InOrder({j \in inside : pg[j].depth = depth + 1})
Above(pg, i) == {j \in 1..i - 1 : i \in Below(pg, j)}

----------------------------------------------------------------------------
(* Text *)

Space == <<0, 0>>
Word(i, after) == <<i, after>>

(* Mutant: elements are removed while the tree is iterated, and the one that *)
(* follows a removed element is skipped.                                     *)
DoomedWhileIterating(pg) ==
    {i \in DOMAIN pg : pg[i].tag \in DroppedTags /\ (i > 1 => pg[i - 1].tag \notin DroppedTags)}

(* The elements that are removed before the walk.                            *)
Doomed(pg) == {i \in DOMAIN pg : pg[i].tag \in DroppedTags}

(* _drop: what follows stays, behind a word boundary.                        *)
AfterDrop(pg) ==
    [i \in DOMAIN pg |-> IF i \in Doomed(pg) THEN [pg[i] EXCEPT !.tag = "dropped"] ELSE pg[i]]

OwnWord(pg, i, after) == IF pg[i].text THEN <<Word(i, after)>> ELSE <<>>

(* text_content                                                              *)
TextFrom(text, pg, i) ==
    IF pg[i].tag = "dropped" THEN <<Space>>
    ELSE OwnWord(pg, i, i) \o
         FlattenSeq([n \in DOMAIN Children(pg, i) |->
            text[Children(pg, i)[n]] \o OwnWord(pg, i, Children(pg, i)[n])])

TextOf(pg, i) == LET text[j \in DOMAIN pg] == TextFrom(text, pg, j) IN text[i]

Words(text) == Picked(text, {n \in DOMAIN text : text[n] # Space})
Blank(text) == Words(text) = <<>>

----------------------------------------------------------------------------
(* Blocks *)

NoTable == [caption |-> <<>>, headers |-> <<>>, rows |-> <<>>]

(* Everything of a block that is not its own is at its default.              *)
Block(kind, i, container, chrome) ==
    [kind |-> kind, node |-> i, text |-> <<>>, items |-> <<>>, level |-> 0,
     container |-> container, chrome |-> chrome, table |-> NoTable]

(* Headings, paragraphs, quotes and preformatted text.                       *)
TextBlock(pg, i, container, chrome) ==
    LET tag == pg[i].tag
        kind == CASE tag \in HeadingTags   -> "heading"
                  [] tag = "pre"           -> "preformatted"
                  [] tag = "blockquote"    -> "quote"
                  [] OTHER                 -> "paragraph"
    IN  IF Blank(TextOf(pg, i)) THEN <<>>
        ELSE <<[Block(kind, i, container, chrome) EXCEPT
                  !.text = TextOf(pg, i),
                  !.level = IF tag \in HeadingTags THEN Level[tag] ELSE 0]>>

ItemsOf(pg, nodes) ==
    Picked([n \in DOMAIN nodes |-> TextOf(pg, nodes[n])],
           {n \in DOMAIN nodes : ~Blank(TextOf(pg, nodes[n]))})

OfTags(pg, nodes, tags) == Picked(nodes, {n \in DOMAIN nodes : pg[nodes[n]].tag \in tags})

(* The items of a list; of a definition list the terms, then the bodies.     *)
ListItems(pg, i) ==
    LET children == Children(pg, i)
    IN  IF pg[i].tag = "dl" THEN OfTags(pg, children, {"dt"}) \o OfTags(pg, children, {"dd"})
        ELSE OfTags(pg, children, {"li"})

ListBlock(pg, i, container, chrome) ==
    LET items == ItemsOf(pg, ListItems(pg, i))
    IN  IF items = <<>> THEN <<>>
        ELSE <<[Block("list", i, container, chrome) EXCEPT !.items = items]>>

(* row_cells *)
RowCells(pg, row) ==
    LET cells == OfTags(pg, Children(pg, row), {"td", "th"})
    IN  [n \in DOMAIN cells |-> [text |-> TextOf(pg, cells[n]), header |-> pg[cells[n]].tag = "th"]]

(* _table: the rows at any depth; a header row is one in a thead, or one of  *)
(* header cells before there is any other.                                   *)
TableOf(pg, i) ==
    LET all == InOrder({j \in Below(pg, i) : pg[j].tag = "tr" /\ RowCells(pg, j) # <<>>})
        captions == {j \in Below(pg, i) : pg[j].tag = "caption"}
        inHead(r) == \E j \in Above(pg, r) : pg[j].tag = "thead"
        plain(r)  == ~inHead(r) /\ \E c \in ToSet(RowCells(pg, r)) : ~c.header
        isHeader(n) == \/ inHead(all[n])
                       \/ n = 1 /\ ~plain(all[n])
        cells == [n \in DOMAIN all |-> RowCells(pg, all[n])]
    IN  [caption |-> IF captions = {} THEN <<>> ELSE TextOf(pg, Min(captions)),
         headers |-> Picked(cells, {n \in DOMAIN all : isHeader(n)}),
         rows    |-> Picked(cells, {n \in DOMAIN all : ~isHeader(n)})]

TableBlock(table, i, container, chrome) ==
    IF table.rows = <<>> /\ table.headers = <<>> THEN <<>>
    ELSE <<[Block("table", i, container, chrome) EXCEPT
              !.text = table.caption, !.table = table]>>

(* Bare text of an element that is no block, after everything inside it.     *)
BareText(pg, i) ==
    <<Word(i, i)>> \o
    FlattenSeq([n \in DOMAIN Children(pg, i) |-> <<Space, Word(i, Children(pg, i)[n])>>])

DirectText(pg, i, container, chrome) ==
    IF i # 0 /\ pg[i].text
    THEN <<[Block("paragraph", i, container, chrome) EXCEPT !.text = BareText(pg, i)]>>
    ELSE <<>>

(* The block of an element whose tag makes one.                              *)
BlockOf(pg, k, container, chrome) ==
    CASE pg[k].tag \in {"ul", "ol", "dl"} -> ListBlock(pg, k, container, chrome)
      [] pg[k].tag = "table"    -> TableBlock(TableOf(pg, k), k, container, chrome)
      [] pg[k].tag = "noscript" -> TextBlock(pg, k, "noscript", chrome)
      [] OTHER                  -> TextBlock(pg, k, container, chrome)

Containers == ContainerTags \cup {"none"}

Here(pg, k, container) == IF pg[k].tag \in ContainerTags THEN pg[k].tag ELSE container
Inside(pg, k, chrome)  == chrome \/ pg[k].tag \in ChromeContainers

(* _walk: what is inside one element, and then its bare text.                *)
WalkFrom(walk, pg, i, container, chrome) ==
    LET emit(k) == IF pg[k].tag = "dropped" THEN <<>>
                   ELSE IF pg[k].tag \in BlockTags
                     THEN BlockOf(pg, k, Here(pg, k, container), Inside(pg, k, chrome))
                   ELSE walk[<<k, Here(pg, k, container), Inside(pg, k, chrome)>>]
    IN  FlattenSeq([n \in DOMAIN Children(pg, i) |-> emit(Children(pg, i)[n])])
            \o DirectText(pg, i, container, chrome)

Walk(pg, i, container, chrome) ==
    LET walk[w \in (0..Len(pg)) \X Containers \X BOOLEAN] == WalkFrom(walk, pg, w[1], w[2], w[3])
    IN  walk[<<i, container, chrome>>]

BlocksOf(pg) == Walk(AfterDrop(pg), 0, "none", FALSE)

----------------------------------------------------------------------------
(* Links *)

(* The block an anchor was collected for, 0 for none: bare text and          *)
(* preformatted text collect no anchors.                                     *)
BlockOfAnchor(pg, blocks, a) ==
    LET holds == {b \in DOMAIN blocks : /\ a \in Below(pg, blocks[b].node)
                                        /\ pg[blocks[b].node].tag \in BlockTags \ {"pre"}}
    IN  IF holds = {} THEN 0 ELSE CHOOSE b \in holds : TRUE

(* _is_link_only_unit *)
LinkOnly(pg, i) ==
    LET anchors == {j \in Below(pg, i) : pg[j].tag = "a"}
    IN  \E a \in anchors : anchors = {a} /\ Words(TextOf(pg, i)) = Words(TextOf(pg, a))

(* _enclosing_item_is_link_only: the innermost item between the anchor and   *)
(* its block.                                                                *)
ItemIsLinkOnly(pg, a, block) ==
    LET items == {j \in Above(pg, a) \cap Below(pg, block) : pg[j].tag \in ItemTags}
    IN  items # {} /\ LinkOnly(pg, CHOOSE j \in items : \A k \in items : k <= j)

LinkOf(pg, blocks, a) ==
    LET b == BlockOfAnchor(pg, blocks, a)
    IN  [node |-> a, text |-> TextOf(pg, a), block |-> b,
         container |-> IF b = 0 THEN "none" ELSE blocks[b].container,
         chrome    |-> b # 0 /\ blocks[b].chrome,
         itemOnly  |-> b # 0 /\ ItemIsLinkOnly(pg, a, blocks[b].node)]

(* _links: every anchor in document order, wherever it is.                   *)
LinksOf(pg, blocks) ==
    LET anchors == InOrder({i \in DOMAIN pg : pg[i].tag = "a"})
    IN  [n \in DOMAIN anchors |-> LinkOf(pg, blocks, anchors[n])]

TablesOf(blocks) ==
    LET with == Picked(blocks, {n \in DOMAIN blocks : blocks[n].kind = "table"})
    IN  [n \in DOMAIN with |-> with[n].table]

(* parse_html_document *)
DocumentOf(pg, blocks) ==
    [blocks |-> blocks, tables |-> TablesOf(blocks), links |-> LinksOf(pg, blocks)]

ParseHtml(pg) == DocumentOf(AfterDrop(pg), BlocksOf(pg))

(* parse_pdf_document: a block for each page whose text could be read, which *)
(* keeps the number of its page, blank or not.                               *)
ParsePdf(pages) ==
    LET readable == InOrder({n \in DOMAIN pages : pages[n] # "unreadable"})
    IN  [blocks |-> [n \in DOMAIN readable |->
                       [Block("pdf_page", readable[n], "pdf", FALSE) EXCEPT
                          !.text  = IF pages[readable[n]] = "text" THEN <<Word(readable[n], 0)>>
                                    ELSE <<>>,
                          !.level = readable[n]]],
         tables |-> <<>>, links |-> <<>>]

----------------------------------------------------------------------------
(* Pointers into a document *)

(* Mutant: a heading's own level does not bound its path. *)
SeedOfSection(b) == 7

(* What a heading on the path must be shallower than: a heading's own level. *)
Seed(b) == IF b.kind = "heading" THEN b.level ELSE 7

(* heading_path_for: backwards, keeping a heading only when it is shallower  *)
(* than the shallowest kept so far.                                          *)
PathFrom(path, blocks, n, shallowest) ==
    IF n = 0 \/ shallowest = 1 THEN <<>>
    ELSE IF blocks[n].kind = "heading" /\ blocks[n].level < shallowest
      THEN Append(path[<<n - 1, blocks[n].level>>], n)
    ELSE path[<<n - 1, shallowest>>]

HeadingPathFor(blocks, index) ==
    LET path[at \in (0..Len(blocks)) \X (1..7)] == PathFrom(path, blocks, at[1], at[2])
    IN  path[<<index - 1, Seed(blocks[index])>>]

NoWhere == [kind |-> "block", block |-> 0, item |-> 0, table |-> 0, row |-> 0, column |-> 0,
            header |-> FALSE, link |-> 0, from |-> 0, to |-> 0]
Unresolved == <<"unresolved">>

At(s, n) == IF n \in DOMAIN s THEN s[n] ELSE Unresolved

CellAt(doc, at) ==
    LET table == IF at.table \in DOMAIN doc.tables THEN doc.tables[at.table] ELSE NoTable
        part  == IF at.header THEN table.headers ELSE table.rows
    IN  IF at.row \in DOMAIN part /\ at.column \in DOMAIN part[at.row]
        THEN part[at.row][at.column].text ELSE Unresolved

LinkAt(doc, at) == IF at.link \in DOMAIN doc.links THEN doc.links[at.link].text ELSE Unresolved

(* resolve: the text a pointer leads to. No extractor points at JSON-LD.     *)
Resolve(doc, at) ==
    CASE at.kind = "table_cell" -> CellAt(doc, at)
      [] at.kind = "link"       -> LinkAt(doc, at)
      [] OTHER ->
            IF at.block \notin DOMAIN doc.blocks THEN Unresolved
            ELSE LET block == doc.blocks[at.block]
                 IN  IF at.kind = "list_item" THEN At(block.items, at.item)
                     ELSE IF at.from = 0 THEN block.text
                     ELSE SubSeq(block.text, at.from, at.to)

----------------------------------------------------------------------------
(* Properties *)

(* Bare text, paragraphs, lists in lists, scripts and their neighbours; and  *)
(* tables, which take more elements to say anything.                         *)
TextPages  == PagesOf({"div", "p", "ul", "li", "script", "noscript"}, PageNodes)
TablePages ==
    {pg \in PagesOf({"table", "thead", "tr", "th", "td", "caption"}, PageNodes + 2) :
        \A i \in DOMAIN pg :
            /\ pg[i].tag = "table" => \A j \in Above(pg, i) : pg[j].tag # "table"
            /\ pg[i].tag = "caption" =>
                  /\ pg[i - 1].tag = "table"
                  /\ \E j \in Below(pg, i - 1) : pg[j].tag \in {"th", "td"}}
HeadPages  == PagesOf({"div", "h1", "h2", "p"}, PageNodes)

CellsOf(table) == FlattenSeq(table.headers \o table.rows)

(* The words of a document, each as often as it occurs.                      *)
WordsOf(doc) ==
    LET wordsOf(b) ==
          Words(b.text) \o
          FlattenSeq([n \in DOMAIN b.items |-> Words(b.items[n])]) \o
          FlattenSeq([n \in DOMAIN CellsOf(b.table) |-> Words(CellsOf(b.table)[n].text)])
    IN  FlattenSeq([n \in DOMAIN doc.blocks |-> wordsOf(doc.blocks[n])])

(* The words of a page that are not source code.                             *)
Spoken(pg) ==
    UNION {{Word(i, k) : k \in {i} \cup ToSet(Children(pg, i))} :
             i \in {j \in DOMAIN pg : pg[j].text /\ pg[j].tag \notin DroppedTags}}

(* Two words with a removed element between them stay two words.             *)
StayApart(pg, text) ==
    \A n \in 1..Len(text) - 1 :
        LET before == text[n] after == text[n + 1]
        IN  before # Space /\ after # Space => after[2] \notin Doomed(pg)

(* Every word of a page but those of its scripts is in its document, once.   *)
(* Pages that nest tables, that wrap the terms of a definition list or       *)
(* caption a table with no cells are left out: they do not keep it.          *)
SaysOnce(words, pg) == ToSet(words) = Spoken(pg) /\ Len(words) = Cardinality(Spoken(pg))

EveryWordOnce ==
    \A pg \in TextPages \cup TablePages : SaysOnce(WordsOf(ParseHtml(pg)), pg)

(* What stood on the two sides of a script has not become one word.          *)
WordsStayApart ==
    \A pg \in TextPages :
        \A b \in ToSet(ParseHtml(pg).blocks) :
            \A text \in {b.text} \cup ToSet(b.items) : StayApart(pg, text)

(* The headings of a page that a place in it is under: each deeper than the  *)
(* one before, with none as shallow between it and the place.                *)
HeadingsOver(pg, place, limit) ==
    LET shown == {i \in 1..place - 1 : pg[i].tag \in HeadingTags /\ ~Blank(TextOf(pg, i))}
    IN  {i \in shown : /\ Level[pg[i].tag] < limit
                       /\ \A j \in shown : j > i => Level[pg[j].tag] > Level[pg[i].tag]}

PathOf(doc, n) ==
    {doc.blocks[m].node : m \in ToSet(HeadingPathFor(doc.blocks, n))}

UnderItsHeadings(pg, doc, n) ==
    LET b == doc.blocks[n]
    IN  PathOf(doc, n) = HeadingsOver(pg, b.node, IF b.kind = "heading" THEN b.level ELSE 7)

(* A paragraph is under the headings the page puts it under, and a heading   *)
(* under those above it and not under the one listed before it; bare text is *)
(* left out, see TextUnderItsHeading.                                        *)
AllUnderTheirHeadings(pg, doc) ==
    \A n \in DOMAIN doc.blocks :
        doc.blocks[n].kind = "heading" \/ pg[doc.blocks[n].node].tag = "p" =>
            UnderItsHeadings(pg, doc, n)

BlocksAreUnderTheirHeadings ==
    \A pg \in HeadPages : AllUnderTheirHeadings(pg, ParseHtml(pg))

(* The code does not keep this: the bare text of an element comes after      *)
(* everything inside it, and so under the headings of what it introduces.    *)
TextUnderItsHeading(pages) ==
    \A pg \in pages :
        LET doc == ParseHtml(pg)
        IN  \A n \in DOMAIN doc.blocks : UnderItsHeadings(pg, doc, n)

(* Nor this: the words of a document are in the order of the page.           *)
Before(v, w) == v[2] < w[2] \/ (v[2] = w[2] /\ v[1] > w[1])
InPageOrder(pages) ==
    \A pg \in pages :
        LET words == WordsOf(ParseHtml(pg))
        IN  \A n \in 1..Len(words) - 1 : Before(words[n], words[n + 1])
=============================================================================
