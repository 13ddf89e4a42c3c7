------------------------------ MODULE Renderer ------------------------------
(***************************************************************************)
(* Rendering of a document: service/printer/render/renderer.py and what    *)
(* service/printer/app.py (_render_or_400) makes of the outcome.           *)
(*                                                                         *)
(* Blocks are rendered one after the other.  A block with a text to wrap   *)
(* runs the loop of TextWrap and is then laid out by BlockLayout; the      *)
(* bitmaps are stacked into the preview and, cut by cut, into the chunks   *)
(* the worker prints.                                                      *)
(***************************************************************************)
EXTENDS TextWrap, BlockLayout, FiniteSets

CONSTANTS
    Blocks,         \* what a document may begin with
    Fillers,        \* what may follow
    Texts,          \* texts to wrap, [text, ink]
    GlyphHeights,   \* heights a rendered line may have
    Lengths,        \* values of options.max_length_mm, or None
    MaxHeight,      \* config.max_rendered_height_px
    MaxBlocks       \* bound on the blocks of a document

CallOf(b, t) ==
    [text |-> t.text, ink |-> t.ink, narrow |-> NarrowWidth(b), wide |-> WrapWidth(b),
     rows |-> IndentedRows(b), slices |-> b.type # "drop_cap"]

AllBlocks == {b \in Blocks \cup Fillers : AnyBlock(b)}

ASSUME CallsAssumption ==
    \A b \in {b \in AllBlocks : b.type \in Wraps}, t \in Texts : IsCall(CallOf(b, t))

\* What the bundled fonts give, the fallback font included: how tall a line of
\* each face is, and how wide the prefixes of a numbered list.
LowLines(ls, h) == \A i \in DOMAIN ls : ls[i].h <= h
FontsGive(b) ==
    CASE b.type = "header" -> b.title.h <= 60
      [] b.type = "section_title" -> b.title.h <= 53
      [] b.type = "epigraph" -> b.sub # None => b.sub.h <= LINE
      [] b.type = "address" -> LowLines(b.imgs, 30)
      [] b.type \in {"checklist", "kv"} -> \A i \in DOMAIN b.rest : LowLines(b.rest[i], LINE)
      [] b.type = "bullets" ->
           b.title.h <= LINE /\ \A i \in DOMAIN b.rest : LowLines(b.rest[i], LINE)
      [] b.type = "numbered" ->
           /\ \A i \in DOMAIN b.rest : LowLines(b.rest[i], LINE)
           /\ LowLines(b.imgs, LINE) /\ PrefixCol(b) < LIVE
           /\ \A i \in DOMAIN b.imgs : b.imgs[i].w + 4 <= PrefixCol(b)
      [] b.type = "table_compact" -> \A r \in DOMAIN TableRows(b) : LowLines(TableRows(b)[r], 28)
      [] OTHER -> TRUE

ASSUME FontsAssumption ==
    GlyphHeights \subseteq 1 .. LINE /\ \A b \in AllBlocks : FontsGive(b)

VARIABLES
    stage,          \* "block", "wrap", or how the rendering ended
    block,          \* the block being rendered, or the last one
    canvas,         \* what it was drawn on
    parts,          \* preview_parts: type and height of each block so far
    segments,       \* finished chunks, each the heights stacked into it
    current,        \* the heights of the chunk being filled
    sawCut, pendingCut

docVars == <<block, canvas, parts, segments, current, sawCut, pendingCut>>
vars == <<wrapVars, stage, docVars>>

Ends == {"rendered", "http_400", "http_413", "http_500"}
Blank == Canvas(0, <<>>)

Init ==
    /\ WrapInit /\ stage = "block" /\ block = [type |-> "none"] /\ canvas = Blank
    /\ parts = <<>> /\ segments = <<>> /\ current = <<>>
    /\ sawCut = FALSE /\ pendingCut = FALSE

-----------------------------------------------------------------------------
Candidates == AllBlocks \cap (IF parts = <<>> THEN Blocks ELSE Fillers)
NextBlock == stage = "block" /\ Len(parts) < MaxBlocks

\* A cut ends the segment; whatever else is drawn goes into it.
ClosedKeepingEmpty == Append(segments, current)                       \* mutant
Closed == IF current = <<>> THEN segments ELSE Append(segments, current)

Stack(b, h) ==
    IF b.type = "cut" THEN segments' = Closed /\ current' = <<>>
    ELSE current' = Append(current, h) /\ UNCHANGED segments

Place(b, cv) ==
    /\ canvas' = cv
    /\ parts' = Append(parts, [type |-> b.type, h |-> cv.h])
    /\ Stack(b, cv.h)
    /\ sawCut' = (sawCut \/ b.type = "cut")
    /\ pendingCut' = (b.type = "cut")
    /\ stage' = "block"

\* The document is validated as a whole before any of it is rendered.
Invalid(b) ==
    /\ stage = "block" /\ parts = <<>> /\ ~AnyBlock(b)
    /\ stage' = "http_400"
    /\ UNCHANGED <<wrapVars, docVars>>

\* A block without a text to wrap.
Draw(b) ==
    /\ NextBlock /\ b.type \notin Wraps /\ block' = b
    /\ Refusal(b) = None /\ ~Raises(b) /\ ~Fails(Drawn(b, <<>>))
    /\ Place(b, Drawn(b, <<>>))
    /\ UNCHANGED wrapVars

\* Its renderer raises: the document is refused, or the handler answers 500.
Raise(b) ==
    /\ NextBlock /\ b.type \notin Wraps /\ block' = b
    /\ Refusal(b) # None \/ Raises(b) \/ Fails(Drawn(b, <<>>))
    /\ stage' = IF Refusal(b) # None THEN Refusal(b) ELSE "http_500"
    /\ canvas' = Blank
    /\ UNCHANGED <<wrapVars, parts, segments, current, sawCut, pendingCut>>

BeginText(b) ==
    /\ NextBlock /\ b.type \in Wraps /\ block' = b
    /\ \E t \in Texts : WrapCall(CallOf(b, t))
    /\ stage' = "wrap" /\ canvas' = Blank
    /\ UNCHANGED <<parts, segments, current, sawCut, pendingCut>>

Wrap == stage = "wrap" /\ WrapStep /\ UNCHANGED <<stage, docVars>>

LineImages(h) == [i \in DOMAIN lines |-> [w |-> Larger(1, Ink(lines[i].lo, lines[i].hi)), h |-> h]]

\* The wrapped lines are rendered and laid out; a drop cap may have none.
DrawText(h) ==
    /\ stage = "wrap" /\ wrapped
    /\ Place(block, Drawn(block, LineImages(h)))
    /\ call' = NoCall /\ pos' = 0 /\ lo' = 0 /\ stop' = 0 /\ lines' = <<>> /\ wrapped' = TRUE
    /\ UNCHANGED block

-----------------------------------------------------------------------------
StackHeight(hs) == Total(hs, Len(hs))
PreviewHeight == Heights(parts, Len(parts))
MmToPx(mm) == 8 * mm

\* The document is rendered: the limits on its height, then the empty document.
Finish(maxLength) ==
    /\ stage = "block" /\ parts # <<>>
    /\ segments' = Closed /\ current' = <<>>
    /\ stage' = IF PreviewHeight > MaxHeight THEN "http_413"
                ELSE IF maxLength # None /\ PreviewHeight > MmToPx(maxLength) THEN "http_400"
                ELSE IF Closed = <<>> THEN "http_400" ELSE "rendered"
    /\ UNCHANGED <<wrapVars, block, canvas, parts, sawCut, pendingCut>>

TrailingCut == sawCut /\ pendingCut
ChunkHeights == [i \in DOMAIN segments |-> StackHeight(segments[i])]

Next ==
    \/ \E b \in Blocks \cup Fillers : Invalid(b)
    \/ \E b \in Candidates : Draw(b) \/ Raise(b) \/ BeginText(b)
    \/ Wrap
    \/ \E h \in GlyphHeights : DrawText(h)
    \/ \E mm \in Lengths : Finish(mm)

Spec == Init /\ [][Next]_vars

-----------------------------------------------------------------------------
(* Properties.                                                             *)

Part == [type : {b.type : b \in AllBlocks}, h : Nat]   \* what parts holds
TypeOK ==
    /\ IsCall(call) /\ 0 <= lo /\ lo <= pos /\ pos <= stop /\ stop <= Size
    /\ lines \in Seq([lo : Nat, hi : Nat]) /\ wrapped \in BOOLEAN
    /\ stage \in {"block", "wrap"} \cup Ends
    /\ (block \in AllBlocks \/ block = [type |-> "none"])
    /\ parts \in Seq(Part)
    /\ segments \in Seq(Seq(Nat)) /\ current \in Seq(Nat)
    /\ sawCut \in BOOLEAN /\ pendingCut \in BOOLEAN

\* How far a block may reach beyond its canvas: italics are slanted after they
\* were fitted, and an inverse section title is inset by 12 after it was fitted
\* to the whole width.
Overhang(b) ==
    CASE b.type = "section_title" -> IF b.style = "inverse" THEN 12 ELSE 0
      [] b.type = "rich_text" ->
           Max({0} \cup {Slant(b.runs[i].img.h) : i \in {i \in DOMAIN b.runs : b.runs[i].italic}})
      [] b.type \in {"byline", "signature"} ->
           Larger(Slant(b.title.h), IF b.type = "byline" \/ b.sub = None THEN 0 ELSE Slant(b.sub.h))
      [] OTHER -> 0

\* A line of the mono face is up to 28 tall, with box-drawing characters: more
\* than its place at the foot of a row, or in the last row of code.
TooTall(imgs, h) == {imgs[i].h - h : i \in {i \in DOMAIN imgs : imgs[i].h > h}}
Excess(b) ==
    CASE b.type = "kv" -> Max({0} \cup UNION {TooTall(b.pairs[i], LINE) : i \in DOMAIN b.pairs})
      [] b.type = "code" -> Max({0} \cup TooTall(b.imgs, CodeStep(b.size) + 4))
      [] OTHER -> 0

\* Nothing that is drawn is cut off: every box lies on its canvas, except for
\* the known overhangs at the sides and those of tall lines, and the canvas
\* fits the print head.
InkOnPaper ==
    /\ canvas.w + (IF canvas.w = HEAD THEN 0 ELSE GUTTER) <= HEAD
    /\ \A i \in DOMAIN canvas.ink :
         LET box == canvas.ink[i] IN
           /\ box.w > 0 /\ box.h > 0
           /\ box.y >= 0 - Excess(block) /\ box.y + box.h <= canvas.h + Excess(block)
           /\ box.x >= 0 - Overhang(block)
           /\ box.x + box.w <= canvas.w + Overhang(block)

Disjoint(p, q) ==
    p.x + p.w <= q.x \/ q.x + q.w <= p.x \/ p.y + p.h <= q.y \/ q.y + q.h <= p.y

\* Code and addresses step by less than a line of the fallback font is tall,
\* the others by less than such a line of the mono face.
TightStep(b) ==
    CASE b.type = "code" -> ~LowLines(b.imgs, CodeStep(b.size))
      [] b.type = "address" -> ~LowLines(b.imgs, 22)
      [] b.type = "kv" -> \E i \in DOMAIN b.pairs : ~LowLines(b.pairs[i], LINE)
      [] b.type = "table_compact" -> \E r \in DOMAIN TableRows(b) : ~LowLines(TableRows(b)[r], LINE)
      [] OTHER -> FALSE

\* A bitmap replaces what is under it, so no box may reach into another.
NoOverprint ==
    TightStep(block) \/
    \A i, j \in DOMAIN canvas.ink : i # j => Disjoint(canvas.ink[i], canvas.ink[j])

\* The chunks are the stretches of the document between its cuts, none empty,
\* and what they stack up to is the preview without its cut marks.  The last
\* chunk is cut if the document ends in a cut.
Cut(i) == parts[i].type = "cut"
Begins == {i \in DOMAIN parts : ~Cut(i) /\ (i = 1 \/ Cut(i - 1))}
ChunksAreStretches ==
    stage = "rendered" =>
      /\ Len(segments) = Cardinality(Begins) /\ segments # <<>>
      /\ \A k \in DOMAIN segments : \E i \in Begins :
           /\ Cardinality({j \in Begins : j < i}) = k - 1
           /\ \A n \in DOMAIN segments[k] :
                ~Cut(i + n - 1) /\ segments[k][n] = parts[i + n - 1].h /\ segments[k][n] > 0
           /\ i + Len(segments[k]) = Len(parts) + 1 \/ Cut(i + Len(segments[k]))
      /\ PreviewHeight = StackHeight(ChunkHeights) + Cardinality({i \in DOMAIN parts : Cut(i)})
      /\ TrailingCut <=> Cut(Len(parts))

\* A document that passed validation is answered 500 only for QR data beyond
\* the largest version, numbers that are not finite or too far apart, an image
\* on which Pillow raises what is not handled, or when scaling leaves nothing:
\* of an image too flat for one row, or of a column of three, or of one without
\* visible text.
FailsOnNothingLeft ==
    stage = "http_500" =>
      \/ Raises(block)
      \/ /\ block.type = "image" /\ block.img.h * ImageW(block) <= block.img.w
         /\ \/ block.img.h * ImageW(block) < block.img.w
            \/ <<block.img.h, ImageW(block), block.img.w>> \in Truncated
      \/ /\ block.type = "table_compact"
         /\ Columns(block) = 3 \/ \E c \in 1 .. 2 : \A r \in DOMAIN TableRows(block) :
                                    TableRows(block)[r][c].w = 1
=============================================================================
