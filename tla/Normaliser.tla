----------------------------- MODULE Normaliser ------------------------------
(***************************************************************************)
(* helpers/mdnormalizer/normalize.go: the answer of the language model, a  *)
(* tree of Markdown, becomes a text and the entities that Telegram marks   *)
(* it with.  The walk through the tree is a behaviour: a node with         *)
(* children is opened and closed, any other is one step.  An item of a     *)
(* list, a cell of a table and a label are read as plain text.             *)
(*                                                                         *)
(* Of the characters, "a" is one UTF-16 unit and "w" two; "e", an escaped  *)
(* space, is two and vanishes but from code; "-" stands for what lists and *)
(* tables add, and for the address or the word that labels what has no     *)
(* label.                                                                  *)
(***************************************************************************)
EXTENDS Integers, SequencesExt

CONSTANTS
  Pieces,              \* what may be in the text of a node
  Contents,            \* what may be in an item, a cell or a label
  MaxText, MaxDepth    \* bounds

Letters == {"a", "w"}

\* Of the nodes below an item, a cell or a label: a text or an address; a code span; and one
\* that has no text among its children, which is raw HTML, a box to tick, or in an item a
\* block of code or HTML.
PartKinds == {"text", "code", "other"}

NodeParts == [kind : PartKinds, text : Seq(Letters \cup {"e"})]

ASSUME NormaliserAssumption ==
  /\ Pieces \subseteq Seq(Letters \cup {"e"}) /\ Contents \subseteq Seq(NodeParts)
  /\ MaxDepth \in Nat \ {0}

\* Where in the document a part is; "closing" is the line that ends a block of HTML.
PartPlaces == {"body", "item", "cell", "label", "header", "closing"}

VARIABLES
  strict,      \* an option
  open,        \* the nodes that the walk is in
  sb,          \* the text so far
  offset,
  entities,
  failed,      \* Normalize returns an error
  read         \* history: all parts of the document up to here

nmvars == <<strict, open, sb, offset, entities, failed, read>>

BlockNodes  == {"document", "blockquote"}
InlineNodes == {"emphasis", "strikethrough"}    \* emphasis is italic or bold

Units(chars) == Len(chars) + Cardinality({i \in DOMAIN chars : chars[i] \in {"w", "e"}})

\* The document and what is walked of it have their types (mdnormalizer).
NmTypeOK ==
  /\ strict \in BOOLEAN /\ failed \in BOOLEAN
  /\ Len(open) <= MaxDepth /\ sb \in Seq(Letters \cup {"e", "nl", "-"})
  /\ \A i \in DOMAIN read : read[i].place \in PartPlaces /\ read[i].kind \in PartKinds
  /\ \A i \in DOMAIN open :
       /\ open[i].node \in BlockNodes \cup InlineNodes \cup {"paragraph"}
       /\ open[i].start \in 0 .. offset
       /\ i > 1 => open[i - 1].start <= open[i].start
  /\ failed => strict

NmInit ==
  /\ strict \in BOOLEAN
  /\ open = <<[node |-> "document", start |-> 0]>>
  /\ sb = <<>> /\ offset = 0 /\ entities = <<>>
  /\ failed = FALSE /\ read = <<>>
-----------------------------------------------------------------------------
Visible(chars) ==
  LET visible[n \in 0 .. Len(chars)] ==
        IF n = 0 THEN <<>>
        ELSE IF chars[n] \in Letters THEN Append(visible[n - 1], chars[n]) ELSE visible[n - 1]
  IN  visible[Len(chars)]

\* Fault: the characters are counted.
UnitsAsRunes(chars) == Len(chars)

\* utf16Length
TextLength(chars) == Units(chars)

\* ensureBlockSeparation
Separation == IF sb = <<>> THEN <<>> ELSE IF Last(sb) = "nl" THEN <<>> ELSE <<"nl">>

addEntity(type, from, length) ==
  IF length = 0 THEN entities ELSE Append(entities, [type |-> type, offset |-> from, length |-> length])

\* The text of one step; an entity on the part of it between two others.
Write(before, marked, after, type) ==
  /\ sb' = sb \o before \o marked \o after
  /\ offset' = offset + TextLength(before \o marked \o after)
  /\ entities' = IF type = "none" THEN entities
                 ELSE addEntity(type, offset + TextLength(before), TextLength(marked))

\* Fault: the option is not looked at.
fallbackFails == failed' = TRUE

\* What Telegram cannot show is shown as something else, or with the option an error.
fallback == failed' = strict

Walking(nodes) == ~failed /\ open # <<>> /\ Last(open).node \in nodes

Room == Len(sb) < MaxText

At(place, node) ==
  [i \in DOMAIN node |-> [place |-> place, kind |-> node[i].kind, text |-> node[i].text]]

InBody(piece) == <<[place |-> "body", kind |-> "text", text |-> piece]>>

Visit(parts) ==
  /\ read' = read \o parts
  /\ UNCHANGED <<strict, open>>

\* Fault: code spans are left out.
TextAlone(node) ==
  FlattenSeq([i \in DOMAIN node |-> IF node[i].kind = "text" THEN node[i].text ELSE <<>>])

\* Only these nodes are written; of others the children are looked at, which they have not.
plainText(node) ==
  FlattenSeq([i \in DOMAIN node |->
                IF node[i].kind \in {"text", "code"} THEN node[i].text ELSE <<>>])

\* TrimSpace takes nothing away (of an escaped space at the end it would leave the backslash).
Trimmed(chars) == chars # <<>> => Last(chars) # "e"
-----------------------------------------------------------------------------
(* walkBlocks                                                              *)

OpenBlock(node) ==
  /\ Walking(BlockNodes) /\ Room /\ Len(open) < MaxDepth
  /\ Write(Separation, <<>>, <<>>, "none")
  /\ open' = Append(open, [node |-> node, start |-> offset'])
  /\ UNCHANGED <<strict, failed, read>>

\* A paragraph or a heading.
CloseParagraph ==
  /\ Walking({"paragraph"})
  /\ Write(<<>>, <<>>, <<"nl">>, "none")
  /\ open' = Front(open)
  /\ UNCHANGED <<strict, failed, read>>

CloseQuote ==
  /\ Walking({"blockquote"})
  /\ entities' = addEntity("blockquote", Last(open).start, offset - Last(open).start)
  /\ sb' = Append(sb, "nl") /\ offset' = offset + 1
  /\ open' = Front(open)
  /\ UNCHANGED <<strict, failed, read>>

\* Fenced or indented, with the language of a fence; its text is kept as it is.
handleCodeBlock(piece) ==
  /\ Walking(BlockNodes) /\ Room
  /\ Write(Separation, Append(piece, "nl"), <<"nl">>, "pre")
  /\ Visit(InBody(piece))
  /\ UNCHANGED failed

\* A list of two items: plain text, one a line, each after a dot or a number.
handleList(first, second) ==
  LET line(item) == <<"-">> \o Visible(plainText(item))
  IN  /\ Walking(BlockNodes) /\ Room /\ Trimmed(plainText(first)) /\ Trimmed(plainText(second))
      /\ Write(Separation, line(first) \o <<"nl">> \o line(second), <<"nl">>, "none")
      /\ Visit(At("item", first) \o At("item", second))
      /\ UNCHANGED failed

\* Fault: the first row is taken for the header.
RowsSkipped(header, row) == <<>>

\* The header is no TableRow, and left out.
RowsOf(header, row) == row

\* A table with a header and one row of two cells
handleTable(header, first, second) ==
  LET row == plainText(first) \o <<"-">> \o plainText(second)
  IN  /\ Walking(BlockNodes) /\ Room /\ Trimmed(plainText(first)) /\ Trimmed(plainText(second))
      /\ Write(Separation, RowsOf(header, row), IF strict THEN <<>> ELSE <<"nl">>, "pre")
      /\ Visit(At("header", header) \o (At("cell", first) \o At("cell", second)))
      /\ fallback

\* A block of HTML: its lines, of which the one that closes it, if there is one, is none.
handleFallbackBlock(piece, closing) ==
  /\ Walking(BlockNodes) /\ Room /\ piece # <<>> /\ Trimmed(piece)
  /\ Write(Separation, piece, IF strict THEN <<>> ELSE <<"nl">>, "pre")
  /\ Visit(InBody(piece) \o At("closing", closing))
  /\ fallback

\* A rule leaves nothing.
ThematicBreak ==
  /\ Walking(BlockNodes) /\ Separation # <<>>
  /\ Write(Separation, <<>>, <<>>, "none")
  /\ UNCHANGED <<strict, open, failed, read>>
-----------------------------------------------------------------------------
(* walkInline                                                              *)

Inline == InlineNodes \cup {"paragraph"}

OpenInline(node) ==
  /\ Walking(Inline) /\ Room /\ Len(open) < MaxDepth
  /\ open' = Append(open, [node |-> node, start |-> offset])
  /\ UNCHANGED <<strict, sb, offset, entities, failed, read>>

CloseInline ==
  /\ Walking(InlineNodes)
  /\ entities' = addEntity(Last(open).node, Last(open).start, offset - Last(open).start)
  /\ open' = Front(open)
  /\ UNCHANGED <<strict, sb, offset, failed, read>>

\* A text without formulas, raw HTML, or a break of a line.
handleText(piece) ==
  /\ Walking(Inline) /\ Room
  /\ Write(<<>>, Visible(piece), <<>>, "none")
  /\ Visit(InBody(piece))
  /\ UNCHANGED failed

LineBreak ==
  /\ Walking(Inline) /\ Room
  /\ Write(<<>>, <<>>, <<"nl">>, "none")
  /\ UNCHANGED <<strict, open, failed, read>>

CodeSpan(piece) ==
  /\ Walking(Inline) /\ Room
  /\ Write(<<>>, piece, <<>>, "code")
  /\ Visit(InBody(piece))
  /\ UNCHANGED failed

\* The part of a text between $ or $$ becomes code; with the option not even that.
handleMath(piece) ==
  /\ Walking(Inline) /\ Room
  /\ fallback
  /\ IF strict THEN UNCHANGED <<sb, offset, entities, read, open, strict>>
     ELSE Write(<<>>, piece, <<>>, "code") /\ Visit(InBody(piece))

\* A label in plain text, or what stands for it.
Labelled(label) == IF plainText(label) = <<>> THEN <<"-">> ELSE Visible(plainText(label))

\* A link is marked on its label, or on its address if nothing else can be shown.  An address
\* without a label is a link that is labelled with it.
handleLink(label) ==
  /\ Walking(Inline) /\ Room /\ Trimmed(plainText(label))
  /\ Write(<<>>, Labelled(label), <<>>, "text_link")
  /\ Visit(At("label", label))
  /\ UNCHANGED failed

\* Labelled "image" if there is nothing else.
handleImage(label) ==
  /\ Walking(Inline) /\ Room /\ Trimmed(plainText(label))
  /\ Write(<<>>, Labelled(label), <<>>, "text_link")
  /\ Visit(At("label", label))
  /\ fallback

EndDocument ==
  /\ Walking({"document"})
  /\ open' = <<>>
  /\ UNCHANGED <<strict, sb, offset, entities, failed, read>>

NmNext ==
  \/ OpenBlock("paragraph") \/ OpenBlock("blockquote") \/ CloseParagraph \/ CloseQuote
  \/ \E node \in InlineNodes : OpenInline(node)
  \/ CloseInline \/ ThematicBreak \/ LineBreak \/ EndDocument
  \/ \E piece \in Pieces :
       handleCodeBlock(piece) \/ handleText(piece) \/ CodeSpan(piece) \/ handleMath(piece)
  \/ \E piece \in Pieces, closing \in Contents : handleFallbackBlock(piece, closing)
  \/ \E label \in Contents : handleLink(label) \/ handleImage(label)
  \/ \E first, second \in Contents : handleList(first, second)
  \/ \E header, first, second \in Contents : handleTable(header, first, second)

NmSpec == NmInit /\ [][NmNext]_nmvars
-----------------------------------------------------------------------------
Ends == {Units(SubSeq(sb, 1, n)) : n \in 0 .. Len(sb)}

\* As Telegram counts, in units of UTF-16, every entity begins and ends between two
\* characters of the text, and of two that overlap one is inside the other
\* (addEntity, appendText).
EntitiesFit ==
  /\ \A i \in DOMAIN entities :
       {entities[i].offset, entities[i].offset + entities[i].length} \subseteq Ends
  /\ \A i, j \in DOMAIN entities :
       LET d == entities[i] e == entities[j]
       IN  i < j => \/ d.offset + d.length <= e.offset
                    \/ e.offset <= d.offset /\ d.offset + d.length <= e.offset + e.length

\* What the message leaves out: the header of a table (handleTable), the closing line of a
\* block of HTML (handleFallbackBlock), and in items, cells and labels whatever is no text,
\* address or code span, which are raw HTML and boxes to tick, and in items blocks of code
\* and of HTML (plainText).  Nobody is told, not even with the option that makes an error of
\* what cannot be shown (normalize.go:33).
LeftOut(part) ==
  \/ part.place \in {"header", "closing"}
  \/ part.place \in {"item", "cell", "label"} /\ part.kind = "other"

\* All other text of the document is in the message, in its order and once (walkBlocks,
\* walkInline).
TextKept ==
  Visible(sb) =
    Visible(FlattenSeq([i \in DOMAIN read |-> IF LeftOut(read[i]) THEN <<>> ELSE read[i].text]))

\* The message is the document but for what is left out, marked where the document is
\* (Normalize).
MessageFits == EntitiesFit /\ TextKept
=============================================================================
