--------------------------- MODULE DocumentSchema ---------------------------
(***************************************************************************)
(* Which blocks a document may hold: service/printer/schema/blocks.py.     *)
(*                                                                         *)
(* A block is the record of its fields that decide where ink goes.  A text *)
(* that is rendered on one line is the bitmap the fonts make of it before  *)
(* it is fitted to the paper; a text that is wrapped is no field (see      *)
(* Renderer), except where a list has several: then `rest` are the others, *)
(* each the lines it was wrapped to, of which there is always one.         *)
(***************************************************************************)
EXTENDS Integers, Sequences

CONSTANT None       \* an optional field that is absent

Bitmaps   == [w : Nat \ {0}, h : Nat \ {0}]
Caption   == Bitmaps \cup {None}
Wrapped   == Seq(Bitmaps) \ {<<>>}
Aligns    == {"left", "center", "right"}
Sizes     == {"sm", "md", "lg"}
Listed(s, n) == Len(s) \in 1 .. n

-----------------------------------------------------------------------------
(* Text and structure.                                                     *)

HeaderBlock == [type : {"header"}, style : {"inverse_band", "ornamental", "minimal"},
                align : Aligns, title : Bitmaps, sub : Caption]
SectionTitleBlock == [type : {"section_title"}, style : {"underline", "inverse", "rule_above"},
                      align : Aligns, title : Bitmaps]
ParagraphBlock == [type : {"paragraph"}, align : Aligns]
LargeTextBlock == [type : {"large_text"}, align : Aligns, title : Bitmaps]
PullQuoteBlock == [type : {"pull_quote"}, title : Bitmaps, sub : Caption]
DropCapBlock   == [type : {"drop_cap"}, title : Bitmaps]
FooterBlock    == [type : {"footer"}]
CodeBlock      == [type : {"code"}, size : Sizes, imgs : Seq(Bitmaps)]
RichTextBlock  == [type : {"rich_text"}, align : Aligns,
                   runs : Seq([img : Bitmaps, italic : BOOLEAN, underline : BOOLEAN])]

IsText(b) ==
    \/ b \in HeaderBlock \/ b \in SectionTitleBlock \/ b \in ParagraphBlock
    \/ b \in LargeTextBlock \/ b \in PullQuoteBlock \/ b \in DropCapBlock \/ b \in FooterBlock
    \/ b \in CodeBlock /\ b.imgs # <<>>
    \/ b \in RichTextBlock /\ Listed(b.runs, 64)

-----------------------------------------------------------------------------
(* The literary frame.                                                     *)

EpigraphBlock  == [type : {"epigraph"}, sub : Caption]
OneLineBlock   == [type : {"byline", "dateline", "salutation"}, title : Bitmaps]
SignatureBlock == [type : {"signature"}, title : Bitmaps, sub : Caption]
ColophonBlock  == [type : {"colophon"}]
AddressBlock   == [type : {"address"}, imgs : Seq(Bitmaps)]

IsLiterary(b) ==
    \/ b \in EpigraphBlock \/ b \in OneLineBlock \/ b \in SignatureBlock \/ b \in ColophonBlock
    \/ b \in AddressBlock /\ Listed(b.imgs, 8)

-----------------------------------------------------------------------------
(* Lists and data.                                                         *)

ChecklistBlock == [type : {"checklist"}, rest : Seq(Wrapped)]
BulletsBlock   == [type : {"bullets"}, title : Bitmaps, rest : Seq(Wrapped)]
NumberedBlock  == [type : {"numbered"}, imgs : Seq(Bitmaps), rest : Seq(Wrapped)]
KvBlock        == [type : {"kv"}, rest : Seq(Wrapped), pairs : Seq(Wrapped)]
TableCompactBlock ==
    [type : {"table_compact"}, rows : Seq(Seq(Bitmaps)), headers : Seq(Bitmaps) \cup {None}]

Columns(b) == Len(b.rows[1])
ColumnCount(b) ==
    /\ Columns(b) \in 2 .. 3
    /\ \A r \in DOMAIN b.rows : Len(b.rows[r]) = Columns(b)
    /\ b.headers # None => Len(b.headers) = Columns(b)

\* The prefixes of a numbered list and the values of a kv go with its texts.
IsList(b) ==
    \/ b \in ChecklistBlock /\ Len(b.rest) < 64
    \/ b \in BulletsBlock /\ Len(b.rest) < 64
    \/ b \in NumberedBlock /\ Len(b.rest) < 64 /\ Len(b.imgs) = Len(b.rest) + 1
    \/ b \in KvBlock /\ Len(b.rest) < 64 /\ Len(b.pairs) = Len(b.rest) + 1
    \/ b \in TableCompactBlock /\ Listed(b.rows, 64) /\ ColumnCount(b)

-----------------------------------------------------------------------------
(* Decoration, embedded objects and flow control.                          *)

RuleBlock      == [type : {"rule", "gradient_band"}]
OrnamentBlock  == [type : {"ornament"}, title : Bitmaps]
LabelledBlock  == [type : {"progress_bar", "tear_here"}, sub : Caption]
AsciiArtBlock  == [type : {"ascii_art"}, font : {"default", "small"}, imgs : Seq(Bitmaps)]
\* `content` is what the renderer will find in the data; the values of a
\* sparkline are counted in a unit small enough for all of them.
SparklineBlock == [type : {"sparkline"}, sub : Caption, series : Seq(Int),
                   content : {"ok", "not_finite"}]
QrBlock        == [type : {"qr"}, size : Sizes, sub : Caption, content : {"ok", "too_long"}]
BarcodeBlock   == [type : {"barcode"}, img : Bitmaps, content : {"ok", "invalid"}]
PictureBlock   ==
    [type : {"image"}, img : Bitmaps, width : 1 .. 528, bleed : BOOLEAN, align : Aligns,
     sub : Caption,
     content : {"ok", "not_base64", "not_an_image", "too_many_pixels", "unhandled"}]
BleedNoAlign(b) == b.bleed => b.align = "left"

IsVisual(b) ==
    \/ b \in RuleBlock \/ b \in OrnamentBlock \/ b \in LabelledBlock
    \/ b \in SparklineBlock /\ Len(b.series) \in 2 .. 200
    \/ b \in QrBlock \/ b \in BarcodeBlock
    \/ b \in AsciiArtBlock /\ b.imgs # <<>>
    \/ b \in PictureBlock /\ BleedNoAlign(b)

SpacerBlock == [type : {"spacer"}, lines : 1 .. 10]
FeedBlock   == [type : {"feed"}, lines : 1 .. 20]
CutBlock    == [type : {"cut"}]
IsFlow(b) == b \in SpacerBlock \/ b \in FeedBlock \/ b \in CutBlock

\* What Document.model_validate lets pass; it refuses all else with 400.
AnyBlock(b) == IsText(b) \/ IsLiterary(b) \/ IsList(b) \/ IsVisual(b) \/ IsFlow(b)
=============================================================================
