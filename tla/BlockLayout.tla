---------------------------- MODULE BlockLayout ----------------------------
(***************************************************************************)
(* The canvas each block of a document is drawn on, in pixels:             *)
(* service/printer/render/blocks/*.py.                                     *)
(*                                                                         *)
(* A canvas is its size and the boxes that text, images and bars are       *)
(* pasted into, by number, or by row and column.  What the fonts measure   *)
(* is an input: blocks hold bitmap sizes (DocumentSchema), and `ls` are    *)
(* the lines of a text that was wrapped.                                   *)
(***************************************************************************)
EXTENDS DocumentSchema, FiniteSetsExt, Functions

\* The <<n, to, from>> for which int(n * (to / from)), whole as a quotient, is
\* one less in floats: <<49, 1, 49>>, say.
CONSTANT Truncated

HEAD   == 576       \* PRINT_HEAD_WIDTH_PX
GUTTER == 24
LIVE   == HEAD - 2 * GUTTER
LINE   == 26        \* BODY_LINE_H

Larger(a, b) == Max({a, b})
Clip0(n)     == Larger(0, n)

\* The first n numbers of f, added up.
Total(f, n) ==
    LET sum[i \in Nat] == IF i = 0 THEN 0 ELSE sum[i - 1] + f[i] IN sum[n]

\* int(n * (to / from)).
Scaled(n, to, from) ==
    (n * to) \div from
      - (IF (n * to) % from = 0 /\ <<n, to, from>> \in Truncated THEN 1 ELSE 0)

-----------------------------------------------------------------------------
(* Fitting, styling and placing a bitmap (typography.py, blocks/text.py).  *)

\* supersample_render: what is wider than max_width_px is scaled down to it.
FitUncapped(img, max) == img                                          \* mutant
FitToNothing(img, max) ==                                             \* mutant
    IF img.w > max THEN [w |-> max, h |-> Scaled(img.h, max, img.w)] ELSE img
Fit(img, max) ==
    IF img.w > max THEN [w |-> max, h |-> Larger(1, Scaled(img.h, max, img.w))] ELSE img

\* apply_italic: the shear of 0.21 moves the top row to the right.
Slant(h) == (21 * (h - 1) + 50) \div 100
Italic(img) == [img EXCEPT !.w = @ + Slant(img.h)]
Underlined(img) == [img EXCEPT !.h = @ + 2]

Widths(imgs, n)  == Total([i \in DOMAIN imgs |-> imgs[i].w], n)
Heights(imgs, n) == Total([i \in DOMAIN imgs |-> imgs[i].h], n)
Tallest(imgs) == Max({imgs[i].h : i \in DOMAIN imgs})
FitAll(imgs, max) == [i \in DOMAIN imgs |-> Fit(imgs[i], max)]

At(img, x, y) == [x |-> x, y |-> y, w |-> img.w, h |-> img.h]
Centered(img) == (LIVE - img.w) \div 2

\* _place_horizontally and its copies in the block renderers.
Placed(img, align, left, right) ==
    CASE align = "left"   -> left
      [] align = "center" -> Centered(img)
      [] align = "right"  -> LIVE - img.w - right

\* An optional piece: its band, and its box if it is there.
Band(img, max, gap) == IF img = None THEN 0 ELSE Fit(img, max).h + gap
Boxed(img, max, X(_), y) == IF img = None THEN <<>> ELSE <<At(Fit(img, max), X(Fit(img, max)), y)>>

Rows(imgs, X(_), top, step) ==
    [i \in DOMAIN imgs |-> At(imgs[i], X(imgs[i]), top + (i - 1) * step)]

Canvas(h, ink) == [w |-> LIVE, h |-> h, ink |-> ink]
Zero(img) == 0

-----------------------------------------------------------------------------
(* Text and structure (blocks/text.py).                                    *)

Header(b) ==
    LET title == Fit(b.title, LIVE - 24)
        subH(gap) == Band(b.sub, LIVE - 24, gap)
        sub(X(_), y) == Boxed(b.sub, LIVE - 24, X, y)
        orn  == [w |-> 20, h |-> 29]
        row  == Larger(title.h, orn.h)
        start == (LIVE - (title.w + 2 * (orn.w + 12))) \div 2
    IN  CASE b.style = "inverse_band" ->
               Canvas(56 + subH(8) + 12,
                 <<At(title, Placed(title, b.align, 12, 12), Clip0((56 - title.h) \div 2))>>
                   \o sub(Centered, 60))
          [] b.style = "ornamental" ->
               Canvas(8 + row + subH(6) + 12,
                 (IF start >= 0
                    THEN <<At(orn, start, 8 + row - orn.h),
                           At(title, start + orn.w + 12, 8 + row - title.h),
                           At(orn, start + orn.w + title.w + 24, 8 + row - orn.h)>>
                    ELSE <<At(title, Placed(title, b.align, 0, 0), 8)>>)
                   \o sub(Centered, 8 + row + 6))
          [] b.style = "minimal" ->
               LET X(img) == Placed(img, b.align, 0, 0) IN
               Canvas(4 + title.h + 5 + subH(6) + 12,
                 <<At(title, X(title), 4)>> \o sub(X, 4 + title.h + 4 + 1 + 6))

SectionTitle(b) ==
    LET img == Fit(b.title, LIVE)
        band == Larger(36, img.h + 12)
        inTitle == Clip0((36 - img.h) \div 2)
    IN  CASE b.style = "underline" ->
               Canvas(57, <<At(img, Placed(img, b.align, 0, 0), 4 + inTitle)>>)
          [] b.style = "inverse" ->
               Canvas(4 + band + 17,
                 <<At(img, Placed(img, b.align, 12, 12), 4 + ((band - img.h) \div 2))>>)
          [] b.style = "rule_above" ->
               Canvas(66, <<At(img, Placed(img, b.align, 0, 0), 13 + inTitle)>>)

Paragraph(b, ls) ==
    Canvas(LINE * Len(ls) + 4,
           Rows(FitAll(ls, LIVE), LAMBDA img : Placed(img, b.align, 0, 0), 0, LINE))

Footer(b, ls) ==
    LET imgs == FitAll(ls, LIVE)
        step == Tallest(imgs) + 2
    IN  Canvas(step * Len(ls) + 12, Rows(imgs, Centered, 8, step))

LargeText(b) ==
    LET img == Fit(b.title, LIVE)
    IN  Canvas(img.h + 8, <<At(img, Placed(img, b.align, 0, 0), 4)>>)

PullQuote(b) ==
    LET quote == Fit(b.title, LIVE - 20)
    IN  Canvas(quote.h + 12 + Band(b.sub, LIVE - 20, 6),
               <<At(quote, 20, 6)>>
                 \o Boxed(b.sub, LIVE - 20, LAMBDA img : 20, quote.h + 12))

\* A line is indented while it starts beside the cap.
CapOf(b) == Fit(b.title, 80)
Indent(b) == CapOf(b).w + 6
DropCap(b, ls) ==
    LET X(i) == IF (i - 1) * LINE < CapOf(b).h THEN Indent(b) ELSE 0
    IN  Canvas(Larger(CapOf(b).h, Len(ls) * LINE) + 4,
               <<At(CapOf(b), 0, 0)>>
                 \o [i \in DOMAIN ls |-> At(Fit(ls[i], LIVE - X(i)), X(i), (i - 1) * LINE)])

CodeStep(size) == CASE size = "sm" -> 18 [] size = "md" -> 20 [] size = "lg" -> 22
Code(b) ==
    Canvas(CodeStep(b.size) * Len(b.imgs) + 4,
           Rows(FitAll(b.imgs, LIVE), Zero, 0, CodeStep(b.size)))

\* rich_text: fragments fill a line until the next would not fit.
Fragment(run) ==
    LET img == Fit(run.img, LIVE)
        slanted == IF run.italic THEN Italic(img) ELSE img
    IN  IF run.underline THEN Underlined(slanted) ELSE slanted

Flow(imgs, from, i) == Widths(imgs, i) - Widths(imgs, from - 1) > LIVE

\* For each fragment, the first one on its line.
LineStarts(imgs) ==
    LET start[i \in DOMAIN imgs] ==
            IF i = 1 THEN 1
            ELSE IF Flow(imgs, start[i - 1], i) THEN i ELSE start[i - 1]
    IN  start

RichText(b) ==
    LET img == [i \in DOMAIN b.runs |-> Fragment(b.runs[i])]
        start == LineStarts(img)
        tall(s) == Max({img[i].h : i \in {i \in DOMAIN img : start[i] = s}})
        top(s)  == Total([i \in DOMAIN img |-> IF start[i] = i THEN tall(i) + 4 ELSE 0], s - 1)
        width(s, n) == Total([i \in DOMAIN img |-> IF start[i] = s THEN img[i].w ELSE 0], n)
        left(s) == Placed([w |-> width(s, Len(b.runs))], b.align, 0, 0)
    IN  Canvas(top(Len(b.runs) + 1) + 4,
               [i \in DOMAIN img |->
                  At(img[i], left(start[i]) + width(start[i], i - 1),
                     top(start[i]) + tall(start[i]) - img[i].h)])

-----------------------------------------------------------------------------
(* The literary frame (blocks/literary.py).                                *)

ItalicAll(ls, max) == [i \in DOMAIN ls |-> Italic(Fit(ls[i], max))]

Epigraph(b, ls) ==
    LET imgs == ItalicAll(ls, LIVE - 120)
        step == Tallest(imgs) + 2
        attr == Italic(Fit(b.sub, LIVE - 120))
    IN  Canvas(6 + step * Len(ls) + Band(b.sub, LIVE - 120, 4) + 10,
               Rows(imgs, LAMBDA img : 60, 6, step)
                 \o (IF b.sub = None THEN <<>>
                     ELSE <<At(attr, LIVE - 60 - attr.w, 6 + step * Len(ls) + 4)>>))

Signature(b) ==
    LET Right(img) == LIVE - img.w
        parts == (IF b.sub = None THEN <<>> ELSE <<Italic(Fit(b.sub, LIVE))>>)
                   \o <<Italic(Fit(b.title, LIVE))>>
    IN  Canvas(12 + Heights(parts, Len(parts)) + 2 * (Len(parts) - 1) + 6,
               [i \in DOMAIN parts |->
                  At(parts[i], Right(parts[i]), 12 + Heights(parts, i - 1) + 2 * (i - 1))])

Colophon(b, ls) ==
    LET imgs == ItalicAll(ls, 360)
        step == Tallest(imgs) + 2
    IN  Canvas(12 + step * Len(ls) + 6, Rows(imgs, Centered, 12, step))

Address(b) == Canvas(4 + 22 * Len(b.imgs) + 8, Rows(FitAll(b.imgs, LIVE), Zero, 4, 22))

\* byline, dateline and salutation: one line at the left, with its paddings.
OneLine(b) ==
    LET img == IF b.type = "byline" THEN Italic(Fit(b.title, LIVE)) ELSE Fit(b.title, LIVE)
        bottom == CASE b.type = "byline" -> 8 [] b.type = "dateline" -> 6
                    [] b.type = "salutation" -> 14
    IN  Canvas(4 + img.h + bottom, <<At(img, 0, 4)>>)

-----------------------------------------------------------------------------
(* Lists and data (blocks/lists.py).  b.rest are the items after the one   *)
(* whose text is wrapped, each the lines it was wrapped to.                *)

Items(b, ls) == <<ls>> \o b.rest
LinesOfItems(items, n) == n                                           \* mutant
LinesOf(items, n) == Total([i \in DOMAIN items |-> Len(items[i])], n)

\* Each item at its row: its mark, box <<i, 0>>, and its lines from x on.
ListOf(items, x, Mark(_, _)) ==
    LET y(i) == LINE * LinesOf(items, i - 1)
        line(i, j) == Fit(items[i][j], LIVE - x)
    IN  Canvas(LINE * LinesOf(items, Len(items)) + 4,
               [ij \in UNION {{i} \X (0 .. Len(items[i])) : i \in DOMAIN items} |->
                  LET i == ij[1]  j == ij[2]
                  IN  IF j = 0 THEN Mark(i, y(i)) ELSE At(line(i, j), x, y(i) + (j - 1) * LINE)])

Checklist(b, ls) ==
    ListOf(Items(b, ls), 26, LAMBDA i, y : [x |-> 2, y |-> y + 4, w |-> 17, h |-> 17])

Bullets(b, ls) == ListOf(Items(b, ls), 28, LAMBDA i, y : At(Fit(b.title, 24), 4, y))

\* The prefix column is as wide as the last number, and 12 pixels.
PrefixCol(b) == Fit(b.imgs[Len(b.imgs)], LIVE).w + 12
Numbered(b, ls) ==
    ListOf(Items(b, ls), PrefixCol(b),
           LAMBDA i, y : LET img == Fit(b.imgs[i], PrefixCol(b))
                         IN At(img, PrefixCol(b) - img.w - 4, y))

\* kv: keys in the first 200 pixels, values beside them, both at the foot of
\* their row.  The first key is the wrapped text.
Kv(b, ls) ==
    LET keys == Items(b, ls)
        rows == [i \in DOMAIN keys |-> Larger(Len(keys[i]), Len(b.pairs[i]))]
        top(i) == LINE * Total(rows, i - 1)
        text(x) == IF x = 0 THEN keys ELSE b.pairs
        cell(x, i, j) == Fit(text(x)[i][j], IF x = 0 THEN 192 ELSE LIVE - 200)
    IN  Canvas(top(Len(keys) + 1) + 4,
               [xij \in UNION {{x} \X {i} \X (1 .. Len(text(x)[i])) : x \in {0, 200}, i \in DOMAIN keys} |->
                  LET x == xij[1]  i == xij[2]  j == xij[3]
                  IN  At(cell(x, i, j), x, top(i) + j * LINE - cell(x, i, j).h)])

\* table_compact: a column is as wide as its widest cell and 12 pixels, scaled
\* down when all of them are wider than the paper; a cell that no longer fits
\* is rendered again at what is left of its column.
TableRows(b) == IF b.headers = None THEN b.rows ELSE <<b.headers>> \o b.rows
ColumnWidths(b) ==
    LET natural == [c \in DOMAIN b.rows[1] |->
            12 + Max({Fit(TableRows(b)[r][c], LIVE).w : r \in DOMAIN TableRows(b)})]
        total == Total(natural, Columns(b))
    IN  IF total <= LIVE THEN natural
        ELSE [c \in DOMAIN natural |-> Larger(1, Scaled(natural[c], LIVE, total))]

TableCompact(b) ==
    LET left(c) == Total(ColumnWidths(b), c - 1)
        cell(img, c) == IF Fit(img, LIVE).w > ColumnWidths(b)[c] - 12
                          THEN Fit(img, ColumnWidths(b)[c] - 12) ELSE Fit(img, LIVE)
        rule == IF b.headers = None THEN 0 ELSE 6
        top(r) == (r - 1) * LINE + (IF r = 1 THEN 0 ELSE rule)
    IN  Canvas(LINE * Len(TableRows(b)) + rule + 4,
               [rc \in (1 .. Len(TableRows(b))) \X (1 .. Columns(b)) |->
                  At(cell(TableRows(b)[rc[1]][rc[2]], rc[2]), left(rc[2]), top(rc[1]))])

-----------------------------------------------------------------------------
(* Decoration and embedded objects (blocks/visual.py, embedded.py,         *)
(* flow.py).  A rule, a gradient or ASCII art fills its canvas.            *)

Filled(h) == Canvas(h, <<[x |-> 0, y |-> 0, w |-> LIVE, h |-> h]>>)

Ornament(b) ==
    LET img == Fit(b.title, LIVE)
    IN  Canvas(img.h + 8, <<At(img, Clip0(Centered(img)), 4)>>)

\* The band of a label is at least a line of text.
LabelBand(b, pad) == IF b.sub = None THEN 0 ELSE Larger(LINE, Fit(b.sub, LIVE).h) + pad
Label(b) == Boxed(b.sub, LIVE, Zero, 0)

ProgressBar(b) ==
    Canvas(LabelBand(b, 4) + 16,
           Label(b) \o <<[x |-> 0, y |-> LabelBand(b, 4), w |-> LIVE, h |-> 16]>>)

Sparkline(b) ==
    LET low == Min(Range(b.series))
        span == Larger(1, Max(Range(b.series)) - low)
        slot == Larger(1, LIVE \div Len(b.series))
        bar(i) == Larger(1, Scaled(30, b.series[i] - low, span))
        top == LabelBand(b, 2)
    IN  Canvas(top + 32,
               Label(b) \o [i \in DOMAIN b.series |->
                   [x |-> (i - 1) * slot, y |-> top + 32 - bar(i),
                    w |-> Larger(1, slot - (IF slot >= 3 THEN 1 ELSE 0)), h |-> bar(i)]])

TearHere(b) ==
    Canvas(LabelBand(b, 4) + 16,
           Label(b) \o <<[x |-> 0, y |-> LabelBand(b, 4) + 8, w |-> LIVE, h |-> 1]>>)

QrSide(size) == CASE size = "sm" -> 192 [] size = "md" -> 320 [] size = "lg" -> 480
Qr(b) ==
    LET img == [w |-> QrSide(b.size), h |-> QrSide(b.size)]
    IN  Canvas(img.h + 4 + Band(b.sub, LIVE, 4),
               <<At(img, Centered(img), 2)>> \o Boxed(b.sub, LIVE, Centered, img.h + 4))

\* image: scaled to its width, or to the whole head with bleed; a barcode is
\* scaled to the live width and never vanishes.
ScaledH(img, w) == IF img.w = w THEN img.h ELSE Scaled(img.h, w, img.w)
ImageW(b) == IF b.bleed THEN HEAD ELSE b.width
ImageBlock(b) ==
    LET img == [w |-> ImageW(b), h |-> ScaledH(b.img, ImageW(b))]
        width == IF b.bleed THEN HEAD ELSE LIVE
        X(i) == IF b.bleed THEN (HEAD - i.w) \div 2 ELSE Centered(i)
    IN  [w |-> width, h |-> img.h + Band(b.sub, LIVE, 4),
         ink |-> <<At(img, IF b.bleed THEN 0 ELSE Placed(img, b.align, 0, 0), 0)>>
                   \o Boxed(b.sub, LIVE, X, img.h + 4)]

Barcode(b) == Filled(Larger(1, ScaledH(b.img, LIVE)))

\* Rendered at half size and doubled.
AsciiArt(b) ==
    LET h == 2 * Len(b.imgs) * (IF b.font = "small" THEN 8 ELSE 16)
    IN  Canvas(h + 4, <<[x |-> 0, y |-> 2, w |-> LIVE, h |-> h]>>)

-----------------------------------------------------------------------------
(* The registry of renderers, and how a block can fail.                    *)

\* Blocks that wrap a text, the width of its lines, and beside the cap.
Wraps == {"paragraph", "footer", "drop_cap", "epigraph", "colophon",
          "checklist", "bullets", "numbered", "kv"}
WrapWidth(b) ==
    CASE b.type \in {"paragraph", "footer", "drop_cap"} -> LIVE
      [] b.type = "epigraph" -> LIVE - 120
      [] b.type = "colophon" -> 360
      [] b.type = "checklist" -> LIVE - 26
      [] b.type = "bullets" -> LIVE - 28
      [] b.type = "numbered" -> LIVE - PrefixCol(b)
      [] b.type = "kv" -> 192
IndentedRows(b) == IF b.type = "drop_cap" THEN (CapOf(b).h + LINE - 1) \div LINE ELSE 0
NarrowWidth(b) == IF b.type = "drop_cap" THEN LIVE - Indent(b) ELSE LIVE

Drawn(b, ls) ==
    CASE b.type = "header" -> Header(b)
      [] b.type = "section_title" -> SectionTitle(b)
      [] b.type = "paragraph" -> Paragraph(b, ls)
      [] b.type = "footer" -> Footer(b, ls)
      [] b.type = "large_text" -> LargeText(b)
      [] b.type = "pull_quote" -> PullQuote(b)
      [] b.type = "drop_cap" -> DropCap(b, ls)
      [] b.type = "code" -> Code(b)
      [] b.type = "rich_text" -> RichText(b)
      [] b.type = "epigraph" -> Epigraph(b, ls)
      [] b.type \in {"byline", "dateline", "salutation"} -> OneLine(b)
      [] b.type = "signature" -> Signature(b)
      [] b.type = "colophon" -> Colophon(b, ls)
      [] b.type = "address" -> Address(b)
      [] b.type = "checklist" -> Checklist(b, ls)
      [] b.type = "bullets" -> Bullets(b, ls)
      [] b.type = "numbered" -> Numbered(b, ls)
      [] b.type = "kv" -> Kv(b, ls)
      [] b.type = "table_compact" -> TableCompact(b)
      [] b.type = "ornament" -> Ornament(b)
      [] b.type = "progress_bar" -> ProgressBar(b)
      [] b.type = "sparkline" -> Sparkline(b)
      [] b.type = "qr" -> Qr(b)
      [] b.type = "image" -> ImageBlock(b)
      [] b.type = "barcode" -> Barcode(b)
      [] b.type = "ascii_art" -> AsciiArt(b)
      [] b.type = "tear_here" -> TearHere(b)
      [] b.type = "rule" -> Filled(8)
      [] b.type = "gradient_band" -> Filled(128)
      [] b.type = "spacer" -> Canvas(LINE * b.lines, <<>>)
      [] b.type = "feed" -> Canvas(14 * b.lines, <<>>)
      [] b.type = "cut" -> Canvas(1, <<>>)

\* RenderInputError and RenderResourceLimitError: what the sender must mend.
Refusal(b) ==
    IF b.type = "image" /\ b.content \in {"not_base64", "not_an_image"} THEN "http_400"
    ELSE IF b.type = "image" /\ b.content = "too_many_pixels" THEN "http_413"
    ELSE IF b.type = "barcode" /\ b.content = "invalid" THEN "http_400" ELSE None

\* Any other exception is a 500.  No QR version holds the data; the numbers are
\* not finite, or the span of them is not, and int() refuses the NaN; Pillow
\* raises something else than OSError or ValueError (a decompression bomb, a
\* broken chunk, an image too large once it is scaled).
Raises(b) ==
    \/ b.type = "qr" /\ b.content = "too_long"
    \/ b.type = "sparkline" /\ b.content = "not_finite"
    \/ b.type = "image" /\ b.content = "unhandled"

\* And a bitmap cannot be resized to nothing.
Fails(cv) == \E i \in DOMAIN cv.ink : cv.ink[i].w <= 0 \/ cv.ink[i].h <= 0
=============================================================================
