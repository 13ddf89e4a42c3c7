------------------------------ MODULE TextWrap ------------------------------
(***************************************************************************)
(* Line breaking, service/printer/render/typography.py (_iter_atoms,       *)
(* wrap_text) and the same loop with a narrow column beside the drop cap   *)
(* (render/blocks/text.py, render_drop_cap).                               *)
(*                                                                         *)
(* A text is the class of each character: of a word of the primary font, a *)
(* glyph of the fallback font, which stands alone, or white space.         *)
(* call.ink[i] is the width of the first i characters, so that a stretch   *)
(* (i, j] of the text is ink[j] - ink[i] wide.  One step is one turn of    *)
(* the loop over the atoms, or of the loop that slices one.                *)
(***************************************************************************)
EXTENDS Integers, Sequences

Classes == {"word", "glyph", "space"}

\* What a call must be: widths grow with the text; the first `rows` lines are
\* `narrow`, the others `wide`; wrap_text, unlike render_drop_cap, slices.
IsCall(c) ==
    /\ c.text \in Seq(Classes)
    /\ c.ink \in [0 .. Len(c.text) -> Nat]
    /\ \A i, j \in 0 .. Len(c.text) : i <= j => c.ink[i] <= c.ink[j]
    /\ c.narrow \in Nat /\ c.wide \in Nat /\ c.rows \in Nat
    /\ c.slices \in BOOLEAN /\ (c.slices => c.rows = 0)

VARIABLES
    call,           \* the arguments
    pos,            \* characters consumed
    lo,             \* the current line is (lo, pos]; empty while lo = pos
    stop,           \* end of the atom being sliced; pos when none is
    lines,          \* the finished lines, without trailing white space
    wrapped         \* the function has returned

wrapVars == <<call, pos, lo, stop, lines, wrapped>>

Size        == Len(call.text)
Space(i)    == call.text[i] = "space"
Ink(i, j)   == call.ink[j] - call.ink[i]
Limit(done) == IF done < call.rows THEN call.narrow ELSE call.wide
HasText     == lo < pos

\* (i, j] is one atom: a run of white space, a run of the primary font, or one
\* character of the fallback font.
IsAtom(i, j) ==
    /\ i < j /\ j <= Size
    /\ \A k \in i + 1 .. j : call.text[k] = call.text[i + 1]
    /\ IF call.text[i + 1] = "glyph" THEN j = i + 1
       ELSE j < Size => call.text[j + 1] # call.text[i + 1]

NoCall == [text |-> <<>>, ink |-> [i \in {0} |-> 0], narrow |-> 0, wide |-> 0,
           rows |-> 0, slices |-> FALSE]

WrapInit ==
    /\ call = NoCall /\ pos = 0 /\ lo = 0 /\ stop = 0
    /\ lines = <<>> /\ wrapped = TRUE

WrapCall(c) ==
    /\ call' = c /\ pos' = 0 /\ lo' = 0 /\ stop' = 0
    /\ lines' = <<>> /\ wrapped' = FALSE

-----------------------------------------------------------------------------
\* The current line without its trailing white space.
IsStripped(line) ==
    /\ line.lo = lo /\ line.hi \in lo + 1 .. pos /\ ~Space(line.hi)
    /\ \A k \in line.hi + 1 .. pos : Space(k)

Break ==
    \E k \in lo + 1 .. pos :
        /\ IsStripped([lo |-> lo, hi |-> k])
        /\ lines' = Append(lines, [lo |-> lo, hi |-> k])

AtAtom(j) == ~wrapped /\ stop = pos /\ pos < Size /\ IsAtom(pos, j)

Overlong(j) == call.slices /\ Ink(pos, j) > Limit(Len(lines))

FitsWord(j) == Ink(pos, j) <= Limit(Len(lines))                        \* mutant
Fits(j) == Ink(lo, pos) + Ink(pos, j) <= Limit(Len(lines))

WrapSpace(j) ==
    /\ AtAtom(j) /\ Space(pos + 1)
    /\ lo' = IF HasText THEN lo ELSE j
    /\ pos' = j /\ stop' = j
    /\ UNCHANGED <<call, lines, wrapped>>

WrapAtom(j) ==
    /\ AtAtom(j) /\ ~Space(pos + 1) /\ ~Overlong(j)
    /\ IF HasText /\ ~Fits(j) THEN Break /\ lo' = pos ELSE UNCHANGED <<lines, lo>>
    /\ pos' = j /\ stop' = j
    /\ UNCHANGED <<call, wrapped>>

\* An atom wider than the line starts on a line of its own and is sliced.
WrapLong(j) ==
    /\ AtAtom(j) /\ ~Space(pos + 1) /\ Overlong(j)
    /\ IF HasText THEN Break ELSE UNCHANGED lines
    /\ lo' = pos /\ stop' = j
    /\ UNCHANGED <<call, pos, wrapped>>

SliceEnds == HasText /\ Ink(lo, pos + 1) > Limit(Len(lines))

SlicePast ==                                                          \* mutant
    /\ ~wrapped /\ pos < stop
    /\ IF SliceEnds THEN Break /\ lo' = pos ELSE UNCHANGED <<lines, lo>>
    /\ pos' = pos + 2
    /\ UNCHANGED <<call, stop, wrapped>>

Slice ==
    /\ ~wrapped /\ pos < stop
    /\ IF SliceEnds THEN Break /\ lo' = pos ELSE UNCHANGED <<lines, lo>>
    /\ pos' = pos + 1
    /\ UNCHANGED <<call, stop, wrapped>>

WrapEndUnflushed ==                                                   \* mutant
    /\ ~wrapped /\ stop = pos /\ pos = Size
    /\ lines' = IF lines = <<>> THEN <<[lo |-> 0, hi |-> Size]>> ELSE lines
    /\ wrapped' = TRUE
    /\ UNCHANGED <<call, pos, lo, stop>>

\* `return lines or [text]`; the drop cap's loop has no such default.
WrapEnd ==
    /\ ~wrapped /\ stop = pos /\ pos = Size
    /\ IF HasText THEN Break
       ELSE lines' = IF lines = <<>> /\ call.slices THEN <<[lo |-> 0, hi |-> Size]>>
                     ELSE lines
    /\ wrapped' = TRUE
    /\ UNCHANGED <<call, pos, lo, stop>>

WrapStep ==
    \/ \E j \in 1 .. Size : WrapSpace(j) \/ WrapAtom(j) \/ WrapLong(j)
    \/ Slice \/ WrapEnd

-----------------------------------------------------------------------------
(* Properties: what greedy line breaking is, without the loop.             *)

Inked(line) == \E k \in line.lo + 1 .. line.hi : ~Space(k)

\* What a line may hold though it is wider than its limit: one character, or,
\* where nothing is sliced, one word.
Unit(i, k) ==
    \/ k = i + 1
    \/ ~call.slices /\ \A m \in i + 1 .. k : call.text[m] = "word"

LineFits(i) ==
    \/ Ink(lines[i].lo, lines[i].hi) <= Limit(i - 1)
    \/ Unit(lines[i].lo, lines[i].hi) \/ ~Inked(lines[i])

\* The text breaks at s inside a word.
InsideWord(s) == s > 0 /\ s < Size /\ call.text[s] = "word" /\ call.text[s + 1] = "word"

\* A line ends at s only where the next atom would not have fitted on it, and
\* inside a word only if the word is wider than a line and the next character
\* would not have fitted.
EndsLate(i, s) ==
    IF InsideWord(s)
      THEN /\ call.slices /\ Ink(lines[i].lo, s + 1) > Limit(i - 1)
           /\ \E a, j \in 0 .. Size : a < s /\ s < j /\ IsAtom(a, j) /\ Ink(a, j) > call.wide
      ELSE \A j \in 1 .. Size : IsAtom(s, j) => Ink(lines[i].lo, j) > Limit(i - 1)

\* Every line fits its width as rendered, takes all that fits, and words are
\* broken only when no line could hold them.
GreedyWrap ==
    /\ \A i \in 1 .. Len(lines) : LineFits(i)
    /\ \A i \in 1 .. Len(lines) - 1 : EndsLate(i, lines[i + 1].lo)

\* Nothing is lost, repeated or reordered: each visible character that has been
\* consumed is on exactly one line or on the current one, and lines follow the
\* order of the text.
NothingLost ==
    /\ \A p \in 1 .. pos : ~Space(p) =>
          \/ ~wrapped /\ lo < p
          \/ \E i \in 1 .. Len(lines) : lines[i].lo < p /\ p <= lines[i].hi
    /\ \A i, j \in 1 .. Len(lines) : i < j => lines[i].hi <= lines[j].lo
    /\ \A i \in 1 .. Len(lines) : lines[i].hi <= IF wrapped THEN Size ELSE lo
=============================================================================
