-------------------------------- MODULE Scan --------------------------------
(***************************************************************************)
(* The OCR page (ocr/OcrPage.tsx): an image goes out, the text of the      *)
(* document streams back, and the page shows it as Markdown converted from *)
(* the HTML the chandra model writes, beside the image it was read from.   *)
(*                                                                         *)
(* A document is a sequence of top-level nodes.  A node is a word, an      *)
(* element [tag, kids], or a picture with its caption.  Formatting marks   *)
(* are left out of the conversion; what it keeps, drops and repeats is not.*)
(***************************************************************************)
EXTENDS Naturals, Sequences, FiniteSets, SequencesExt

CONSTANTS
  MaxScans,   \* extractions started
  MaxNodes    \* top-level nodes of one document

ASSUME ScanAssumption == MaxScans \in Nat /\ MaxNodes \in Nat \ {0}

VARIABLES scan

scanVars == <<scan>>

-----------------------------------------------------------------------------
(* The HTML a model may write, and its conversion                          *)

ScanWord(w) == [tag |-> "text", kids |-> <<w>>]
ScanEl(tag, kids) == [tag |-> tag, kids |-> kids]

\* What a document of the instance is made of: the tags the conversion tells
\* apart, nested where HTML allows it (a table inside a cell included).
ScanLeaf == {ScanWord("a"), ScanEl("code", <<ScanWord("b")>>), ScanEl("img", <<"caption">>)}
ScanCell == {ScanEl("td", <<l>>) : l \in ScanLeaf}
ScanRow  == {ScanEl("tr", <<c>>) : c \in ScanCell} \cup {ScanEl("tr", <<ScanEl("td", <<ScanWord("c")>>), c>>) : c \in ScanCell}
ScanTable == {ScanEl("table", <<r, s>>) : r, s \in ScanRow}
ScanNested == {ScanEl("table", <<ScanEl("tr", <<ScanEl("td", <<t>>)>>)>>) : t \in ScanTable}
ScanList == {ScanEl("ul", <<k, ScanEl("li", <<l>>)>>) : k \in {ScanEl("li", <<ScanWord("d")>>), ScanWord("e")}, l \in ScanLeaf}
Paragraph == {ScanEl("p", <<k>>) : k \in ScanLeaf}
ScanNode == {ScanEl("div", <<ScanWord("f"), k>>) : k \in ScanLeaf \cup ScanList \cup ScanTable}
          \cup Paragraph \cup {ScanEl("div", <<k>>) : k \in ScanNested}

\* Every node at any depth of such a document: what the conversion walks over.
ScanPart ==
  LET words == {ScanWord(w) : w \in {"a", "b", "c", "d", "e", "f"}}
      cells == ScanCell \cup {ScanEl("td", <<k>>) : k \in ScanTable \cup {ScanWord("c")}}
      rows  == ScanRow \cup {ScanEl("tr", <<c>>) : c \in cells}
      items == {ScanEl("li", <<k>>) : k \in ScanLeaf \cup {ScanWord("d")}}
  IN  words \cup ScanLeaf \cup cells \cup rows \cup ScanTable \cup ScanNested
        \cup items \cup ScanList \cup ScanNode

\* textContent: every word below the node, in order.
TextContent[n \in ScanPart] ==
  IF n.tag \in {"text", "img"} THEN n.kids
  ELSE FlattenSeq([i \in DOMAIN n.kids |-> TextContent[n.kids[i]]])

\* querySelectorAll("tr"): the rows at any depth, those of a nested table too.
RowsBelow[n \in ScanPart] ==
  IF n.tag \in {"text", "img"} THEN <<>>
  ELSE FlattenSeq([i \in DOMAIN n.kids |->
         (IF n.kids[i].tag = "tr" THEN <<n.kids[i]>> ELSE <<>>) \o RowsBelow[n.kids[i]]])

\* The cells of a row are its direct TD and TH children; a row that has
\* fewer than the widest one is padded with empty cells.
CellsOf(row) ==
  LET tds == SelectSeq(row.kids, LAMBDA k : k.tag = "td")
  IN  [i \in DOMAIN tds |-> TextContent[tds[i]]]

Widest(rows) ==
  CHOOSE n \in {Len(CellsOf(rows[i])) : i \in DOMAIN rows} \cup {1} :
    \A i \in DOMAIN rows : Len(CellsOf(rows[i])) <= n

\* Mutant: rows are left as long as they are.
PaddedNot(cells, n) == cells

Padded(cells, n) == [i \in 1..n |-> IF i <= Len(cells) THEN cells[i] ELSE <<>>]

tableToMarkdown(table) ==
  LET rows == RowsBelow[table]
  IN  [i \in DOMAIN rows |-> Padded(CellsOf(rows[i]), Widest(rows))]

\* The words of the Markdown, in order.  A list keeps only its LI children, a
\* table its cells, code the text below it; every other tag its children.
nodeToMarkdown[n \in ScanPart] ==
  CASE n.tag \in {"text", "img", "code"} -> TextContent[n]
    [] n.tag = "ul" ->
         LET lis == SelectSeq(n.kids, LAMBDA k : k.tag = "li")
         IN  FlattenSeq([i \in DOMAIN lis |-> nodeToMarkdown[lis[i]]])
    [] n.tag = "table" ->
         LET grid == tableToMarkdown(n) IN FlattenSeq([i \in DOMAIN grid |-> FlattenSeq(grid[i])])
    [] OTHER -> FlattenSeq([i \in DOMAIN n.kids |-> nodeToMarkdown[n.kids[i]]])

\* parseChandraBlocks(): a zone is a top-level div that carries a bbox.
parseOcrBlocks(nodes) == SelectSeq(nodes, LAMBDA n : n.tag = "div")

\* HTML is recognised by the first bbox in the text; before it, or without
\* it, the text is taken for the lines of the other model, kept as they are.
ocrToMarkdown(nodes) ==
  IF parseOcrBlocks(nodes) # <<>>
  THEN FlattenSeq([i \in DOMAIN nodes |-> nodeToMarkdown[nodes[i]]])
  ELSE FlattenSeq([i \in DOMAIN nodes |-> TextContent[nodes[i]]])

\* HTML as it is meant to be: lists of items, tables that hold no table.
WellFormed[n \in ScanPart] ==
  \/ n.tag \in {"text", "img"}
  \/ /\ n.tag = "ul" => \A i \in DOMAIN n.kids : n.kids[i].tag = "li"
     /\ n.tag = "table" => \A i \in DOMAIN n.kids : RowsBelow[n.kids[i]] = <<>>
     /\ \A i \in DOMAIN n.kids : WellFormed[n.kids[i]]

-----------------------------------------------------------------------------
(* The page                                                                *)

\* text: the nodes shown with the extraction they came from; beside: the
\* image of the result panel; run: the extraction whose stream is read.
ScanInit ==
  \E first \in ScanNode, rest \in [2..MaxNodes -> Paragraph], avail \in BOOLEAN :
    scan = [avail |-> avail, image |-> FALSE, loading |-> FALSE, text |-> <<>>,
            beside |-> 0, view |-> "text", run |-> 0, 
            doc |-> [i \in 1..MaxNodes |-> IF i = 1 THEN first ELSE rest[i]],
            history |-> {}, mixed |-> FALSE]

\* "Extraire le texte" needs an image and no extraction under way; the image
\* and the instruction cannot be changed meanwhile, the history rows can be
\* opened.
FormIdle == scan.avail /\ ~scan.loading

PickImage ==
  /\ FormIdle
  /\ scan' = [scan EXCEPT !.image = ~@]

\* Mutant: the panel keeps the image of the result before.
ExtractBeside ==
  /\ FormIdle /\ scan.image /\ scan.run < MaxScans
  /\ scan' = [scan EXCEPT !.loading = TRUE, !.text = <<>>, !.view = "text",
                          !.run = @ + 1, !.mixed = FALSE]

Extract ==
  /\ FormIdle /\ scan.image /\ scan.run < MaxScans
  /\ scan' = [scan EXCEPT !.loading = TRUE, !.text = <<>>, !.view = "text",
                          !.run = @ + 1, !.beside = scan.run + 1, !.mixed = FALSE]

\* streamOcr calls back with each piece, appended to the text on screen.
Received == Cardinality({i \in DOMAIN scan.text : scan.text[i].run = scan.run})

ScanChunk ==
  /\ scan.loading /\ Received < MaxNodes
  /\ scan' = [scan EXCEPT !.text =
                Append(@, [run |-> scan.run, node |-> scan.doc[Received + 1]])]

\* The stream ends and the history is read again, or it breaks: the text so
\* far stays on screen.
StreamEnds ==
  /\ scan.loading
  /\ scan' = [scan EXCEPT !.loading = FALSE,
                          !.history = IF Received = MaxNodes THEN @ \cup {scan.run} ELSE @]

\* A row of the history: its text and its image, whatever is under way.
OpenRow(h) ==
  /\ scan' = [scan EXCEPT
       !.text = [i \in 1..MaxNodes |-> [run |-> h, node |-> scan.doc[i]]],
       !.beside = h, !.view = "text", !.mixed = scan.loading]

\* The zones are offered when the result has an image and a zone.
ZonesOffered ==
  scan.beside # 0 /\ parseOcrBlocks([i \in DOMAIN scan.text |-> scan.text[i].node]) # <<>>

ToggleView ==
  /\ scan.text # <<>> /\ ZonesOffered
  /\ scan' = [scan EXCEPT !.view = IF @ = "text" THEN "boxes" ELSE "text"]

ScanNext ==
  \/ PickImage
  \/ Extract
  \/ ScanChunk
  \/ StreamEnds
  \/ \E h \in scan.history : OpenRow(h)
  \/ ToggleView

ScanSpec == ScanInit /\ [][ScanNext]_scanVars

-----------------------------------------------------------------------------
(* Properties                                                              *)

\* The page holds what the code can put there.
ScanTypeOK ==
  /\ scan.view \in {"text", "boxes"} /\ scan.run \in 0..MaxScans
  /\ scan.beside \in 0..MaxScans /\ scan.history \subseteq 1..MaxScans
  /\ {scan.avail, scan.image, scan.loading, scan.mixed} \subseteq BOOLEAN

\* The text on screen was read from the image beside it, whatever was started
\* or opened before (extract, setResultImage and the rows of the history).
\* Excepted: a row opened while an extraction streams, to which the rest of
\* the stream is appended.
OneSource ==
  ~scan.mixed => \A i \in DOMAIN scan.text : scan.text[i].run = scan.beside

\* The Markdown of the page says every word of the model's HTML once and in
\* its order, and every row of a table has the same number of cells
\* (nodeToMarkdown, tableToMarkdown, ocrToMarkdown), for HTML whose lists
\* hold items and whose tables hold no table.
MarkdownKeepsWords ==
  LET nodes == [i \in DOMAIN scan.text |-> scan.text[i].node]
      said  == FlattenSeq([i \in DOMAIN nodes |-> TextContent[nodes[i]]])
  IN  (\A i \in DOMAIN nodes : WellFormed[nodes[i]]) =>
        /\ ocrToMarkdown(nodes) = said
        /\ \A i \in DOMAIN nodes : \A k \in DOMAIN nodes[i].kids :
             nodes[i].kids[k].tag = "table" =>
               LET grid == tableToMarkdown(nodes[i].kids[k])
               IN  \A r \in DOMAIN grid : Len(grid[r]) = Len(grid[1])
=============================================================================
