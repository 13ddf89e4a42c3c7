--------------------------- MODULE RendererProofs ---------------------------
(* Proofs about Renderer, for any blocks, fonts, texts and widths.           *)
EXTENDS LayoutProofs

-----------------------------------------------------------------------------
(* The loop of TextWrap.  What it keeps is said in two parts, for a call     *)
(* that is at work and for one that has returned.                           *)

WrapTyped ==
    /\ IsCall(call) /\ lo \in Nat /\ pos \in Nat /\ stop \in Nat
    /\ lo <= pos /\ pos <= stop /\ stop <= Size
    /\ lines \in Seq([lo : Nat, hi : Nat])

Covered(p) == \E i \in 1 .. Len(lines) : lines[i].lo < p /\ p <= lines[i].hi
InOrder    == \A i, j \in 1 .. Len(lines) : i < j => lines[i].hi <= lines[j].lo
UpTo(s)    == \A i \in 1 .. Len(lines) : lines[i].hi <= s

\* k is the last visible character of the current line.
LastInk(k) == k \in lo + 1 .. pos /\ ~Space(k) /\ \A m \in k + 1 .. pos : Space(m)

\* What is consumed is on a line or on the current one, (lo, pos], which fits.
Consumed == \A p \in 1 .. pos : ~Space(p) => lo < p \/ Covered(p)
CurrentFits ==
    \A k \in Nat : LastInk(k) => Ink(lo, k) <= Limit(Len(lines)) \/ Unit(lo, k)

\* The atom that is being sliced holds the current line and fits on none.
Slicing ==
    pos < stop => /\ call.slices
                  /\ \E a \in Nat : /\ a <= lo /\ IsAtom(a, stop) /\ ~Space(a + 1)
                                    /\ Ink(a, stop) > call.wide

\* The current line begins where the last one had to end.
StartsLate == lines # <<>> => (lo < pos \/ pos < stop) /\ EndsLate(Len(lines), lo)

Going == /\ Consumed /\ UpTo(lo) /\ CurrentFits /\ Slicing /\ StartsLate
         /\ ~InsideWord(stop)
Done  == UpTo(Size) /\ \A p \in 1 .. pos : ~Space(p) => Covered(p)

WrapInv ==
    /\ WrapTyped /\ InOrder /\ GreedyWrap
    /\ ~wrapped => Going
    /\ wrapped => Done

LEMMA WrapInvSuffices == WrapInv => GreedyWrap /\ NothingLost
  <1> SUFFICES ASSUME WrapInv PROVE NothingLost
    BY DEF WrapInv
  <1>1. CASE wrapped
    BY <1>1, Zenon DEF WrapInv, Done, UpTo, InOrder, Covered, NothingLost
  <1>2. CASE ~wrapped
    BY <1>2, Zenon DEF WrapInv, Going, Consumed, UpTo, InOrder, Covered, NothingLost
  <1>3. QED
    BY <1>1, <1>2

LEMMA WrapTypes ==
    ASSUME WrapTyped
    PROVE  /\ lo \in Nat /\ pos \in Nat /\ stop \in Nat /\ Size \in Nat
           /\ lo <= pos /\ pos <= stop /\ stop <= Size
           /\ lines \in Seq([lo : Nat, hi : Nat]) /\ Len(lines) \in Nat
           /\ \A i \in 1 .. Len(lines) : lines[i].lo \in Nat /\ lines[i].hi \in Nat
  <1>1. /\ lo \in Nat /\ pos \in Nat /\ stop \in Nat
        /\ lo <= pos /\ pos <= stop /\ stop <= Size
        /\ lines \in Seq([lo : Nat, hi : Nat])
    BY DEF WrapTyped
  <1>2. call.text \in Seq(Classes)
    BY DEF WrapTyped, IsCall
  <1>3. Size \in Nat
    BY <1>2 DEF Size
  <1>4. \A i \in 1 .. Len(lines) : lines[i] \in [lo : Nat, hi : Nat]
    BY <1>1, ElementsOf, Zenon
  <1>5. QED
    BY <1>1, <1>3, <1>4

\* The call's widths and text.
LEMMA InkMonotone ==
    ASSUME WrapTyped, NEW i \in Nat, NEW j \in Nat, i <= j, j <= Size
    PROVE  call.ink[i] \in Nat /\ call.ink[j] \in Nat /\ call.ink[i] <= call.ink[j]
  <1>1. /\ call.ink \in [0 .. Len(call.text) -> Nat] /\ Len(call.text) \in Nat
        /\ \A m, n \in 0 .. Len(call.text) : m <= n => call.ink[m] <= call.ink[n]
    BY DEF WrapTyped, IsCall
  <1>2. i \in 0 .. Len(call.text) /\ j \in 0 .. Len(call.text)
    BY <1>1 DEF Size
  <1>3. QED
    BY <1>1, <1>2

LEMMA InkSplits ==
    ASSUME WrapTyped, NEW i \in Nat, NEW m \in Nat, NEW j \in Nat, i <= m, m <= j, j <= Size
    PROVE  /\ Ink(i, m) \in Nat /\ Ink(m, j) \in Nat /\ Ink(i, j) \in Nat
           /\ Ink(i, j) = Ink(i, m) + Ink(m, j)
  <1>1. m <= Size /\ i <= j
    BY WrapTypes
  <1>2. /\ call.ink[i] \in Nat /\ call.ink[m] \in Nat /\ call.ink[j] \in Nat
        /\ call.ink[i] <= call.ink[m] /\ call.ink[m] <= call.ink[j]
    BY <1>1, InkMonotone
  <1>3. QED
    BY <1>2 DEF Ink

LEMMA LimitType ==
    ASSUME WrapTyped, NEW n \in Nat
    PROVE  Limit(n) \in Nat /\ (call.slices => Limit(n) = call.wide)
  <1>1. call.narrow \in Nat /\ call.wide \in Nat
    BY DEF WrapTyped, IsCall
  <1>2. Limit(n) \in Nat
    BY <1>1 DEF Limit
  <1>3. call.slices => call.rows = 0
    BY Zenon DEF WrapTyped, IsCall
  <1>4. ~(n < 0)
    OBVIOUS
  <1>5. call.rows = 0 => Limit(n) = call.wide
    BY <1>4 DEF Limit
  <1>6. QED
    BY <1>2, <1>3, <1>5, Zenon

LEMMA OneAtom ==
    ASSUME WrapTyped, NEW i \in Nat, NEW j \in Nat, NEW k \in Nat, IsAtom(i, j), IsAtom(i, k)
    PROVE  j = k
  <1>1. ASSUME NEW m \in Nat, NEW n \in Nat, IsAtom(i, m), IsAtom(i, n), m < n
        PROVE  FALSE
    <2>1. m + 1 \in i + 1 .. n /\ m < Size /\ n # i + 1
      BY <1>1 DEF IsAtom, WrapTyped, IsCall, Size
    <2>2. call.text[m + 1] = call.text[i + 1]
      BY <1>1, <2>1 DEF IsAtom
    <2>3. QED
      BY <1>1, <2>1, <2>2 DEF IsAtom
  <1>2. QED
    BY <1>1

-----------------------------------------------------------------------------
(* A line is finished.                                                     *)

\* GreedyWrap of lines that may be those of the next state.
Fitting(line, n) ==
    Ink(line.lo, line.hi) <= Limit(n) \/ Unit(line.lo, line.hi) \/ ~Inked(line)
Late(from, n, s) ==
    IF InsideWord(s)
      THEN /\ call.slices /\ Ink(from, s + 1) > Limit(n)
           /\ \E a, j \in 0 .. Size : a < s /\ s < j /\ IsAtom(a, j) /\ Ink(a, j) > call.wide
      ELSE \A j \in 1 .. Size : IsAtom(s, j) => Ink(from, j) > Limit(n)
Greedy(ls) ==
    /\ \A i \in 1 .. Len(ls) : Fitting(ls[i], i - 1)
    /\ \A i \in 1 .. Len(ls) - 1 : Late(ls[i].lo, i - 1, ls[i + 1].lo)

LEMMA GreedyIsGreedy ==
    /\ GreedyWrap <=> Greedy(lines)
    /\ \A i, s : EndsLate(i, s) <=> Late(lines[i].lo, i - 1, s)
  BY DEF GreedyWrap, Greedy, LineFits, Fitting, EndsLate, Late

LEMMA GreedyAfter ==
    ASSUME call' = call
    PROVE  /\ GreedyWrap' <=> Greedy(lines')
           /\ \A i, s : EndsLate(i, s)' <=> Late(lines'[i].lo, i - 1, s)
  <1>1. \A i, k : Ink(i, k)' = Ink(i, k)
    BY DEF Ink
  <1>2. \A n : Limit(n)' = Limit(n)
    BY DEF Limit
  <1>3. \A i, k : IsAtom(i, k)' <=> IsAtom(i, k)
    BY DEF IsAtom, Size
  <1>4. \A k : InsideWord(k)' <=> InsideWord(k)
    BY DEF InsideWord, Size
  <1>5. \A i, k : Unit(i, k)' <=> Unit(i, k)
    BY DEF Unit
  <1>6. \A k : Space(k)' <=> Space(k)
    BY DEF Space
  <1>7. QED
    BY <1>1, <1>2, <1>3, <1>4, <1>5, <1>6
    DEF GreedyWrap, Greedy, LineFits, Fitting, EndsLate, Late, Inked, Size

\* One more line, from the start of the current one up to k, before s.
LEMMA BreakKeeps ==
    ASSUME WrapTyped, InOrder, GreedyWrap, UpTo(lo), StartsLate, CurrentFits,
           NEW k \in Nat, LastInk(k), call' = call,
           lines' = Append(lines, [lo |-> lo, hi |-> k])
    PROVE  /\ lines' \in Seq([lo : Nat, hi : Nat]) /\ lines' # <<>> /\ Len(lines') = Len(lines) + 1
           /\ lines'[Len(lines')] = [lo |-> lo, hi |-> k]
           /\ InOrder' /\ GreedyWrap' /\ \A i \in 1 .. Len(lines') : lines'[i].hi <= pos
           /\ Consumed => \A p \in 1 .. pos : ~Space(p) => Covered(p)'
  <1> DEFINE new == [lo |-> lo, hi |-> k]
             n   == Len(lines) + 1
  <1>1. /\ lo \in Nat /\ pos \in Nat /\ lines \in Seq([lo : Nat, hi : Nat])
        /\ lo < k /\ k <= pos /\ pos <= Size
    BY WrapTypes DEF LastInk
  <1>2. new \in [lo : Nat, hi : Nat] /\ new.lo = lo /\ new.hi = k
    BY <1>1
  <1> HIDE DEF new
  <1>3. /\ lines' \in Seq([lo : Nat, hi : Nat]) /\ lines' # <<>> /\ Len(lines') = n
        /\ \A i \in 1 .. Len(lines) : lines'[i] = lines[i]
        /\ lines'[n] = new /\ Len(lines) \in Nat
    BY <1>1, <1>2 DEF new
  <1>4. \A i \in 1 .. Len(lines) : lines[i].lo \in Nat /\ lines[i].hi \in Nat
    BY WrapTypes
  <1>5. \A i \in 1 .. n : i # n => i \in 1 .. Len(lines)
    BY <1>3
  <1>6. InOrder'
    <2>1. ASSUME NEW i \in 1 .. n, NEW j \in 1 .. n, i < j
          PROVE  lines'[i].hi <= lines'[j].lo
      <3>1. i \in 1 .. Len(lines)
        BY <1>3, <2>1
      <3>2. CASE j = n
        BY <1>2, <1>3, <3>1, <3>2 DEF UpTo
      <3>3. CASE j # n
        BY <1>3, <1>5, <2>1, <3>1, <3>3 DEF InOrder
      <3>4. QED
        BY <3>2, <3>3
    <2>2. QED
      BY <1>3, <2>1 DEF InOrder
  <1>7. \A i \in 1 .. Len(lines') : lines'[i].hi <= pos
    <2>1. ASSUME NEW i \in 1 .. n
          PROVE  lines'[i].hi <= pos
      <3>1. CASE i = n
        BY <1>1, <1>2, <1>3, <3>1
      <3>2. CASE i # n
        BY <1>1, <1>3, <1>4, <1>5, <3>2 DEF UpTo
      <3>3. QED
        BY <3>1, <3>2
    <2>2. QED
      BY <1>3, <2>1
  <1>8. GreedyWrap'
    <2>1. \A i \in 1 .. Len(lines) : Fitting(lines'[i], i - 1)
      BY <1>3, GreedyIsGreedy DEF Greedy
    <2>2. Fitting(lines'[n], n - 1)
      <3>1. Ink(lo, k) <= Limit(Len(lines)) \/ Unit(lo, k)
        BY DEF CurrentFits
      <3>2. n - 1 = Len(lines)
        BY <1>3
      <3>3. QED
        BY <1>2, <1>3, <3>1, <3>2 DEF Fitting
    <2>3. ASSUME NEW i \in 1 .. n - 1
          PROVE  Late(lines'[i].lo, i - 1, lines'[i + 1].lo)
      <3>1. i \in 1 .. Len(lines)
        BY <1>3
      <3>2. CASE i = Len(lines)
        <4>1. lines # <<>>
          BY <3>1
        <4>2. lines'[i + 1].lo = lo /\ lines'[i] = lines[i]
          BY <1>2, <1>3, <3>1, <3>2
        <4>3. EndsLate(i, lo)
          BY <3>2, <4>1 DEF StartsLate
        <4>4. QED
          BY <4>2, <4>3, GreedyIsGreedy
      <3>3. CASE i # Len(lines)
        <4>1. i \in 1 .. Len(lines) - 1 /\ i + 1 \in 1 .. Len(lines)
          BY <1>3, <3>1, <3>3
        <4>2. lines'[i] = lines[i] /\ lines'[i + 1] = lines[i + 1]
          BY <1>3, <3>1, <4>1
        <4>3. Late(lines[i].lo, i - 1, lines[i + 1].lo)
          BY <4>1, GreedyIsGreedy DEF Greedy
        <4>4. QED
          BY <4>2, <4>3
      <3>4. QED
        BY <3>2, <3>3
    <2>4. \A i \in 1 .. n : Fitting(lines'[i], i - 1)
      BY <1>5, <2>1, <2>2
    <2>5. Greedy(lines')
      BY <1>3, <2>3, <2>4 DEF Greedy
    <2>6. QED
      BY <2>5, GreedyAfter
  <1>9. ASSUME Consumed
        PROVE  \A p \in 1 .. pos : ~Space(p) => Covered(p)'
    <2>1. SUFFICES ASSUME NEW p \in 1 .. pos, ~Space(p)
                   PROVE  \E i \in 1 .. n : lines'[i].lo < p /\ p <= lines'[i].hi
      BY <1>3 DEF Covered
    <2>2. CASE Covered(p)
      BY <1>3, <2>2 DEF Covered
    <2>3. CASE lo < p
      <3>1. p <= k
        BY <1>1, <2>1, <2>3 DEF LastInk
      <3>2. n \in 1 .. n
        BY <1>3
      <3>3. QED
        BY <1>2, <1>3, <2>3, <3>1, <3>2
    <2>4. QED
      BY <1>9, <2>1, <2>2, <2>3 DEF Consumed
  <1>10. QED
    BY <1>3, <1>6, <1>7, <1>8, <1>9 DEF new

-----------------------------------------------------------------------------
(* What a step that keeps the call, or the lines, leaves as it is.          *)

LEMMA SameCall ==
    ASSUME call' = call
    PROVE  /\ \A i, k : Ink(i, k)' = Ink(i, k) /\ (IsAtom(i, k)' <=> IsAtom(i, k))
           /\ \A n : Limit(n)' = Limit(n)
           /\ \A i, k : Unit(i, k)' <=> Unit(i, k)
           /\ \A k : (Space(k)' <=> Space(k)) /\ (InsideWord(k)' <=> InsideWord(k))
           /\ Size' = Size /\ (IsCall(call)' <=> IsCall(call))
  BY DEF Ink, IsAtom, Limit, Unit, Space, InsideWord, Size

LEMMA SameLines ==
    ASSUME call' = call, lines' = lines
    PROVE  /\ InOrder' <=> InOrder
           /\ GreedyWrap' <=> GreedyWrap
           /\ \A p : Covered(p)' <=> Covered(p)
           /\ \A i, s : EndsLate(i, s)' <=> EndsLate(i, s)
  BY GreedyIsGreedy, GreedyAfter DEF InOrder, Covered

\* The characters of an atom, and that no word goes on behind it.
LEMMA AtomIs ==
    ASSUME WrapTyped, NEW i \in Nat, NEW j \in Nat, IsAtom(i, j)
    PROVE  /\ i < j /\ j <= Size /\ ~InsideWord(j)
           /\ \A m \in i + 1 .. j : Space(m) <=> Space(i + 1)
           /\ ~Space(i + 1) => Unit(i, j) \/ call.slices
  <1>1. /\ i < j /\ j <= Size /\ Size \in Nat /\ j \in i + 1 .. j
        /\ \A m \in i + 1 .. j : call.text[m] = call.text[i + 1]
    BY WrapTypes DEF IsAtom
  <1>2. ~InsideWord(j)
    <2>1. CASE call.text[i + 1] = "glyph"
      BY <1>1, <2>1 DEF InsideWord
    <2>2. CASE call.text[i + 1] # "glyph"
      BY <1>1, <2>2 DEF InsideWord, IsAtom
    <2>3. QED
      BY <2>1, <2>2
  <1>3. call.text[i + 1] \in Classes
    <2>1. call.text \in Seq(Classes) /\ i + 1 \in 1 .. Len(call.text)
      BY <1>1 DEF WrapTyped, IsCall, Size
    <2>2. QED
      BY <2>1, ElementsOf
  <1>4. ASSUME ~Space(i + 1), ~call.slices
        PROVE  Unit(i, j)
    <2>1. CASE call.text[i + 1] = "glyph"
      BY <1>4, <2>1 DEF Unit, IsAtom
    <2>2. CASE call.text[i + 1] = "word"
      BY <1>1, <1>4, <2>2 DEF Unit
    <2>3. QED
      BY <1>3, <1>4, <2>1, <2>2 DEF Space, Classes
  <1>5. QED
    BY <1>1, <1>2, <1>4 DEF Space

\* An atom that is not sliced fits on any line, or is one it may hold anyway.
LEMMA AtomFits ==
    ASSUME WrapTyped, NEW j \in Nat, IsAtom(pos, j), ~Space(pos + 1), ~Overlong(j), NEW n \in Nat
    PROVE  Ink(pos, j) <= Limit(n) \/ Unit(pos, j)
  <1>1. CASE call.slices
    <2>1. ~(Ink(pos, j) > Limit(Len(lines)))
      BY <1>1 DEF Overlong
    <2>2. Limit(n) = Limit(Len(lines)) /\ Limit(n) \in Nat
      BY <1>1, LimitType, WrapTypes
    <2>3. Ink(pos, j) \in Int
      BY AtomIs, InkMonotone, WrapTypes DEF Ink
    <2>4. QED
      BY <2>1, <2>2, <2>3
  <1>2. CASE ~call.slices
    BY <1>2, AtomIs, WrapTypes
  <1>3. QED
    BY <1>1, <1>2

LEMMA BreakIs ==
    ASSUME WrapTyped, Break
    PROVE  \E k \in Nat : LastInk(k) /\ lines' = Append(lines, [lo |-> lo, hi |-> k])
  <1>1. PICK k \in lo + 1 .. pos : /\ IsStripped([lo |-> lo, hi |-> k])
                                   /\ lines' = Append(lines, [lo |-> lo, hi |-> k])
    BY DEF Break
  <1>2. k \in Nat
    BY <1>1, WrapTypes
  <1>3. LastInk(k)
    BY <1>1 DEF IsStripped, LastInk
  <1>4. QED
    BY <1>1, <1>2, <1>3

-----------------------------------------------------------------------------
(* The turns of the loop.                                                  *)

LEMMA SpaceKeeps ==
    ASSUME WrapTyped, InOrder, GreedyWrap, Going, NEW j \in 1 .. Size, WrapSpace(j)
    PROVE  WrapTyped' /\ InOrder' /\ GreedyWrap' /\ Going'
  <1>1. /\ stop = pos /\ pos < Size /\ IsAtom(pos, j) /\ Space(pos + 1)
        /\ lo' = (IF lo < pos THEN lo ELSE j) /\ pos' = j /\ stop' = j
        /\ call' = call /\ lines' = lines
    BY DEF WrapSpace, AtAtom, HasText
  <1>2. j \in Nat /\ pos < j /\ j <= Size /\ ~InsideWord(j) /\ \A m \in pos + 1 .. j : Space(m)
    BY <1>1, AtomIs, WrapTypes
  <1>3. WrapTyped'
    BY <1>1, <1>2, SameCall DEF WrapTyped
  <1>4. Consumed'
    <2>1. ASSUME NEW p \in 1 .. j, ~Space(p)
          PROVE  lo' < p \/ Covered(p)
      <3>1. p \in 1 .. pos
        BY <1>2, <2>1, WrapTypes
      <3>2. CASE lo < p
        BY <1>1, <3>1, <3>2, WrapTypes
      <3>3. QED
        BY <2>1, <3>1, <3>2 DEF Going, Consumed
    <2>2. QED
      BY <1>1, <2>1, SameCall, SameLines DEF Consumed
  <1>5. UpTo(lo)'
    BY <1>1, <1>2, WrapTypes DEF Going, UpTo
  <1>6. CurrentFits'
    <2>1. ASSUME NEW k \in Nat, LastInk(k)'
          PROVE  LastInk(k) /\ lo' = lo
      <3>1. /\ k \in lo' + 1 .. j /\ ~Space(k) /\ \A m \in k + 1 .. j : Space(m)
        BY <1>1, <2>1, SameCall DEF LastInk
      <3>2. k <= pos /\ lo' = lo
        BY <1>1, <1>2, <3>1, WrapTypes
      <3>3. QED
        BY <1>2, <3>1, <3>2, WrapTypes DEF LastInk
    <2>2. QED
      BY <1>1, <2>1, SameCall DEF CurrentFits, Going
  <1>7. Slicing' /\ ~InsideWord(stop)'
    BY <1>1, <1>2, SameCall DEF Slicing
  <1>8. StartsLate'
    <2>1. lines # <<>> => lo < pos /\ EndsLate(Len(lines), lo)
      BY <1>1, WrapTypes DEF Going, StartsLate
    <2>2. lines # <<>> => lo' = lo /\ lo < j
      BY <1>1, <1>2, <2>1, WrapTypes
    <2>3. QED
      BY <1>1, <2>1, <2>2, SameLines DEF StartsLate
  <1>9. QED
    BY <1>1, <1>3, <1>4, <1>5, <1>6, <1>7, <1>8, SameLines DEF Going

\* The last visible character behind an atom is the atom's last.
LEMMA AtomIsLast ==
    ASSUME WrapTyped, NEW j \in Nat, pos < j, ~Space(j), NEW k \in Nat, NEW s \in Nat,
           k \in s + 1 .. j, \A m \in k + 1 .. j : Space(m)
    PROVE  k = j
  BY WrapTypes

LEMMA AtomKeeps ==
    ASSUME WrapTyped, InOrder, GreedyWrap, Going, NEW j \in 1 .. Size, WrapAtom(j)
    PROVE  WrapTyped' /\ InOrder' /\ GreedyWrap' /\ Going'
  <1>1. /\ stop = pos /\ pos < Size /\ IsAtom(pos, j) /\ ~Space(pos + 1) /\ ~Overlong(j)
        /\ pos' = j /\ stop' = j /\ call' = call
    BY DEF WrapAtom, AtAtom
  <1>2. /\ j \in Nat /\ pos \in Nat /\ lo \in Nat /\ pos < j /\ j <= Size /\ lo <= pos
        /\ ~InsideWord(j) /\ ~Space(j) /\ Len(lines) \in Nat
    <2>1. j \in pos + 1 .. j
      BY <1>1, AtomIs, WrapTypes
    <2>2. QED
      BY <1>1, <2>1, AtomIs, WrapTypes
  <1>3. Slicing' /\ ~InsideWord(stop)'
    BY <1>1, <1>2, SameCall DEF Slicing
  <1>4. ASSUME NEW k \in Nat, LastInk(k)', lo' \in Nat
        PROVE  k = j
    <2>1. k \in lo' + 1 .. j /\ \A m \in k + 1 .. j : Space(m)
      BY <1>1, <1>4, SameCall DEF LastInk
    <2>2. QED
      BY <1>2, <1>4, <2>1, AtomIsLast
  <1>5. CASE HasText /\ ~Fits(j)
    <2>1. PICK k \in Nat : LastInk(k) /\ lines' = Append(lines, [lo |-> lo, hi |-> k])
      BY <1>5, BreakIs DEF WrapAtom
    <2>2. lo' = pos
      BY <1>5 DEF WrapAtom
    <2>3. /\ lines' \in Seq([lo : Nat, hi : Nat]) /\ lines' # <<>> /\ Len(lines') = Len(lines) + 1
          /\ lines'[Len(lines')].lo = lo
          /\ InOrder' /\ GreedyWrap' /\ \A i \in 1 .. Len(lines') : lines'[i].hi <= pos
          /\ \A p \in 1 .. pos : ~Space(p) => Covered(p)'
      BY <1>1, <2>1, BreakKeeps DEF Going
    <2>4. WrapTyped'
      BY <1>1, <1>2, <2>2, <2>3, SameCall DEF WrapTyped
    <2>5. Consumed'
      <3>1. ASSUME NEW p \in 1 .. j, ~Space(p)
            PROVE  pos < p \/ Covered(p)'
        BY <1>2, <2>3, <3>1
      <3>2. QED
        BY <1>1, <2>2, <3>1, SameCall DEF Consumed
    <2>6. UpTo(lo)'
      BY <2>2, <2>3 DEF UpTo
    <2>7. CurrentFits'
      <3>1. Ink(pos, j) <= Limit(Len(lines')) \/ Unit(pos, j)
        BY <1>1, <1>2, <2>3, AtomFits
      <3>2. QED
        BY <1>1, <1>2, <1>4, <2>2, <3>1, SameCall DEF CurrentFits
    <2>8. StartsLate'
      <3>1. Late(lo, Len(lines), pos)
        <4>1. ~InsideWord(pos)
          BY <1>1 DEF Going
        <4>2. ~(Ink(lo, pos) + Ink(pos, j) <= Limit(Len(lines)))
          BY <1>5 DEF Fits
        <4>3. Ink(lo, j) > Limit(Len(lines))
          <5>1. Ink(lo, j) \in Nat /\ Ink(lo, j) = Ink(lo, pos) + Ink(pos, j)
            <6>1. lo \in Nat /\ pos \in Nat /\ j \in Nat /\ lo <= pos /\ pos <= j /\ j <= Size
              BY <1>2
            <6>2. QED
              BY <6>1, InkSplits, Zenon
          <5>2. Limit(Len(lines)) \in Nat
            BY <1>2, LimitType
          <5>3. QED
            BY <4>2, <5>1, <5>2
        <4>4. QED
          BY <1>1, <1>2, <4>1, <4>3, OneAtom DEF Late
      <3>2. \A i, s : EndsLate(i, s)' <=> Late(lines'[i].lo, i - 1, s)
        BY <1>1, GreedyAfter
      <3>3. QED
        BY <1>1, <1>2, <2>2, <2>3, <3>1, <3>2 DEF StartsLate
    <2>9. QED
      BY <1>3, <2>3, <2>4, <2>5, <2>6, <2>7, <2>8 DEF Going
  <1>6. CASE ~(HasText /\ ~Fits(j))
    <2>1. lo' = lo /\ lines' = lines
      BY <1>6 DEF WrapAtom
    <2>2. WrapTyped'
      BY <1>1, <1>2, <2>1, SameCall DEF WrapTyped
    <2>3. Consumed'
      <3>1. ASSUME NEW p \in 1 .. j, ~Space(p)
            PROVE  lo < p \/ Covered(p)
        BY <1>2, <3>1 DEF Going, Consumed
      <3>2. QED
        BY <1>1, <2>1, <3>1, SameCall, SameLines DEF Consumed
    <2>4. UpTo(lo)'
      BY <2>1 DEF Going, UpTo
    <2>5. CurrentFits'
      <3>1. Ink(lo, j) <= Limit(Len(lines)) \/ Unit(lo, j)
        <4>1. CASE lo < pos
          <5>1. Ink(lo, pos) + Ink(pos, j) <= Limit(Len(lines))
            BY <1>6, <4>1 DEF HasText, Fits
          <5>2. QED
            BY <1>2, <5>1, InkSplits, LimitType
        <4>2. CASE lo = pos
          BY <1>1, <1>2, <4>2, AtomFits
        <4>3. QED
          BY <1>2, <4>1, <4>2
      <3>2. QED
        BY <1>1, <1>2, <1>4, <2>1, <3>1, SameCall DEF CurrentFits
    <2>6. StartsLate'
      BY <1>1, <1>2, <2>1, SameLines DEF Going, StartsLate
    <2>7. QED
      BY <1>1, <1>3, <2>1, <2>2, <2>3, <2>4, <2>5, <2>6, SameLines DEF Going
  <1>7. QED
    BY <1>5, <1>6

LEMMA LongKeeps ==
    ASSUME WrapTyped, InOrder, GreedyWrap, Going, NEW j \in 1 .. Size, WrapLong(j)
    PROVE  WrapTyped' /\ InOrder' /\ GreedyWrap' /\ Going'
  <1>1. /\ stop = pos /\ pos < Size /\ IsAtom(pos, j) /\ ~Space(pos + 1)
        /\ call.slices /\ Ink(pos, j) > Limit(Len(lines))
        /\ lo' = pos /\ pos' = pos /\ stop' = j /\ call' = call
    BY DEF WrapLong, AtAtom, Overlong
  <1>2. /\ j \in Nat /\ pos \in Nat /\ lo \in Nat /\ pos < j /\ j <= Size /\ lo <= pos
        /\ ~InsideWord(j) /\ Len(lines) \in Nat
    BY <1>1, AtomIs, WrapTypes
  <1>3. Slicing' /\ ~InsideWord(stop)'
    <2>1. Ink(pos, j) > call.wide
      BY <1>1, <1>2, LimitType
    <2>2. QED
      BY <1>1, <1>2, <2>1, SameCall DEF Slicing
  <1>4. CurrentFits'
    <2>1. \A k \in Nat : ~LastInk(k)'
      BY <1>1, <1>2 DEF LastInk
    <2>2. QED
      BY <2>1 DEF CurrentFits
  <1>5. CASE HasText
    <2>1. PICK k \in Nat : LastInk(k) /\ lines' = Append(lines, [lo |-> lo, hi |-> k])
      BY <1>5, BreakIs DEF WrapLong
    <2>2. /\ lines' \in Seq([lo : Nat, hi : Nat]) /\ lines' # <<>> /\ Len(lines') = Len(lines) + 1
          /\ lines'[Len(lines')].lo = lo
          /\ InOrder' /\ GreedyWrap' /\ \A i \in 1 .. Len(lines') : lines'[i].hi <= pos
          /\ \A p \in 1 .. pos : ~Space(p) => Covered(p)'
      BY <1>1, <2>1, BreakKeeps DEF Going
    <2>3. WrapTyped'
      BY <1>1, <1>2, <2>2, SameCall DEF WrapTyped
    <2>4. Consumed' /\ UpTo(lo)'
      BY <1>1, <2>2, SameCall DEF Consumed, UpTo
    <2>5. StartsLate'
      <3>1. Late(lo, Len(lines), pos)
        <4>1. ~InsideWord(pos)
          BY <1>1 DEF Going
        <4>2. Ink(lo, j) > Limit(Len(lines))
          <5>1. /\ Ink(lo, j) = Ink(lo, pos) + Ink(pos, j)
                /\ Ink(lo, pos) \in Nat /\ Ink(pos, j) \in Nat
            <6>1. lo \in Nat /\ pos \in Nat /\ j \in Nat /\ lo <= pos /\ pos <= j /\ j <= Size
              BY <1>2
            <6>2. QED
              BY <6>1, InkSplits, ZenonT(30)
          <5>2. Limit(Len(lines)) \in Nat
            BY <1>2, LimitType
          <5>3. QED
            BY <1>1, <5>1, <5>2
        <4>3. QED
          BY <1>1, <1>2, <4>1, <4>2, OneAtom DEF Late
      <3>2. \A i, s : EndsLate(i, s)' <=> Late(lines'[i].lo, i - 1, s)
        BY <1>1, GreedyAfter
      <3>3. QED
        BY <1>1, <1>2, <2>2, <3>1, <3>2 DEF StartsLate
    <2>6. QED
      BY <1>3, <1>4, <2>2, <2>3, <2>4, <2>5 DEF Going
  <1>6. CASE ~HasText
    <2>1. lines' = lines /\ lo = pos
      BY <1>2, <1>6 DEF WrapLong, HasText
    <2>2. WrapTyped'
      BY <1>1, <1>2, <2>1, SameCall DEF WrapTyped
    <2>3. Consumed' /\ UpTo(lo)'
      BY <1>1, <2>1, SameCall, SameLines DEF Going, Consumed, UpTo
    <2>4. StartsLate'
      BY <1>1, <1>2, <2>1, SameLines DEF Going, StartsLate
    <2>5. QED
      BY <1>1, <1>3, <1>4, <2>1, <2>2, <2>3, <2>4, SameLines DEF Going
  <1>7. QED
    BY <1>5, <1>6

LEMMA SliceKeeps ==
    ASSUME WrapTyped, InOrder, GreedyWrap, Going, Slice
    PROVE  WrapTyped' /\ InOrder' /\ GreedyWrap' /\ Going'
  <1>1. pos < stop /\ pos' = pos + 1 /\ stop' = stop /\ call' = call
    BY DEF Slice
  <1>2. PICK a \in Nat : /\ call.slices /\ a <= lo /\ IsAtom(a, stop) /\ ~Space(a + 1)
                         /\ Ink(a, stop) > call.wide
    BY <1>1 DEF Going, Slicing
  <1>3. /\ pos \in Nat /\ lo \in Nat /\ stop \in Nat /\ lo <= pos /\ stop <= Size
        /\ Len(lines) \in Nat /\ Size \in Nat
    BY WrapTypes
  <1>4. ~Space(pos + 1)
    <2>1. pos + 1 \in a + 1 .. stop
      BY <1>1, <1>2, <1>3
    <2>2. QED
      BY <1>2, <1>3, <2>1, AtomIs
  <1>5. ASSUME lo' \in Nat, lo <= lo'
        PROVE  Slicing'
    <2>1. a <= lo'
      BY <1>2, <1>3, <1>5
    <2>2. QED
      BY <1>1, <1>2, <2>1, SameCall DEF Slicing
  <1>6. ~InsideWord(stop)'
    BY <1>1, SameCall DEF Going
  <1>7. ASSUME NEW k \in Nat, LastInk(k)', lo' \in Nat
        PROVE  k = pos + 1
    <2>1. k \in lo' + 1 .. pos + 1 /\ \A m \in k + 1 .. pos + 1 : Space(m)
      BY <1>1, <1>7, SameCall DEF LastInk
    <2>2. QED
      BY <1>3, <1>4, <1>7, <2>1
  <1>8. CASE SliceEnds
    <2>1. PICK k \in Nat : LastInk(k) /\ lines' = Append(lines, [lo |-> lo, hi |-> k])
      BY <1>8, BreakIs DEF Slice
    <2>2. lo' = pos /\ lo < pos /\ Ink(lo, pos + 1) > Limit(Len(lines))
      BY <1>8 DEF Slice, SliceEnds, HasText
    <2>3. /\ lines' \in Seq([lo : Nat, hi : Nat]) /\ lines' # <<>> /\ Len(lines') = Len(lines) + 1
          /\ lines'[Len(lines')].lo = lo
          /\ InOrder' /\ GreedyWrap' /\ \A i \in 1 .. Len(lines') : lines'[i].hi <= pos
          /\ \A p \in 1 .. pos : ~Space(p) => Covered(p)'
      BY <1>1, <2>1, BreakKeeps DEF Going
    <2>4. WrapTyped'
      BY <1>1, <1>3, <2>2, <2>3, SameCall DEF WrapTyped
    <2>5. Consumed'
      <3>1. ASSUME NEW p \in 1 .. pos + 1, ~Space(p)
            PROVE  pos < p \/ Covered(p)'
        BY <1>3, <2>3, <3>1
      <3>2. QED
        BY <1>1, <2>2, <3>1, SameCall DEF Consumed
    <2>6. UpTo(lo)'
      BY <2>2, <2>3 DEF UpTo
    <2>7. CurrentFits'
      <3>1. Unit(pos, pos + 1)
        BY DEF Unit
      <3>2. ASSUME NEW n \in Nat, LastInk(n)'
            PROVE  Unit(lo, n)'
        <4>1. n = pos + 1
          BY <1>3, <1>7, <2>2, <3>2
        <4>2. Unit(pos, n)
          BY <3>1, <4>1
        <4>3. Unit(lo', n) => Unit(lo, n)'
          BY <1>1 DEF Unit
        <4>4. QED
          BY <2>2, <4>2, <4>3
      <3>3. QED
        BY <3>2 DEF CurrentFits
    <2>8. StartsLate'
      <3>1. Late(lo, Len(lines), pos)
        <4>1. CASE InsideWord(pos)
          <5>1. a \in 0 .. Size /\ stop \in 0 .. Size /\ a < pos
            BY <1>1, <1>2, <1>3, <2>2
          <5>2. QED
            BY <1>1, <1>2, <2>2, <4>1, <5>1 DEF Late
        <4>2. CASE ~InsideWord(pos)
          <5>1. ASSUME NEW j \in 1 .. Size, IsAtom(pos, j)
                PROVE  Ink(lo, j) > Limit(Len(lines))
            <6>1. /\ lo \in Nat /\ pos + 1 \in Nat /\ j \in Nat
                  /\ lo <= pos + 1 /\ pos + 1 <= j /\ j <= Size
              BY <1>3, <5>1, AtomIs
            <6>2. Ink(lo, j) = Ink(lo, pos + 1) + Ink(pos + 1, j) /\ Ink(pos + 1, j) \in Nat
                  /\ Ink(lo, pos + 1) \in Nat
              BY <6>1, InkSplits, ZenonT(30)
            <6>3. Limit(Len(lines)) \in Nat
              BY <1>3, LimitType
            <6>4. QED
              BY <2>2, <6>2, <6>3
          <5>2. QED
            BY <4>2, <5>1 DEF Late
        <4>3. QED
          BY <4>1, <4>2
      <3>2. \A i, s : EndsLate(i, s)' <=> Late(lines'[i].lo, i - 1, s)
        BY <1>1, GreedyAfter
      <3>3. EndsLate(Len(lines), lo)'
        <4>1. Len(lines') - 1 = Len(lines)
          BY <1>3, <2>3
        <4>2. Late(lines'[Len(lines')].lo, Len(lines') - 1, lo')
          BY <2>2, <2>3, <3>1, <4>1
        <4>3. QED
          BY <3>2, <4>2
      <3>4. lo' < pos'
        BY <1>1, <1>3, <2>2
      <3>5. QED
        BY <3>3, <3>4 DEF StartsLate
    <2>9. QED
      BY <1>3, <1>5, <1>6, <2>2, <2>3, <2>4, <2>5, <2>6, <2>7, <2>8 DEF Going
  <1>9. CASE ~SliceEnds
    <2>1. lo' = lo /\ lines' = lines
      BY <1>9 DEF Slice
    <2>2. WrapTyped'
      BY <1>1, <1>3, <2>1, SameCall DEF WrapTyped
    <2>3. Consumed'
      <3>1. ASSUME NEW p \in 1 .. pos + 1, ~Space(p)
            PROVE  lo < p \/ Covered(p)
        BY <1>3, <3>1 DEF Going, Consumed
      <3>2. QED
        BY <1>1, <2>1, <3>1, SameCall, SameLines DEF Consumed
    <2>4. UpTo(lo)'
      BY <2>1 DEF Going, UpTo
    <2>5. CurrentFits'
      <3>1. Ink(lo, pos + 1) <= Limit(Len(lines)) \/ Unit(lo, pos + 1)
        <4>1. CASE lo < pos
          <5>1. ~(Ink(lo, pos + 1) > Limit(Len(lines)))
            BY <1>9, <4>1 DEF SliceEnds, HasText
          <5>2. Ink(lo, pos + 1) \in Nat
            <6>1. lo <= pos + 1 /\ pos + 1 <= Size /\ pos + 1 \in Nat /\ lo <= lo
              BY <1>1, <1>3
            <6>2. QED
              BY <1>3, <6>1, InkSplits
          <5>3. Limit(Len(lines)) \in Nat
            BY <1>3, LimitType
          <5>4. QED
            BY <5>1, <5>2, <5>3
        <4>2. CASE lo = pos
          BY <4>2 DEF Unit
        <4>3. QED
          BY <1>3, <4>1, <4>2
      <3>2. QED
        BY <1>1, <1>3, <1>7, <2>1, <3>1, SameCall DEF CurrentFits
    <2>6. StartsLate'
      BY <1>1, <1>3, <2>1, SameLines DEF Going, StartsLate
    <2>7. QED
      BY <1>1, <1>3, <1>5, <1>6, <2>1, <2>2, <2>3, <2>4, <2>5, <2>6, SameLines DEF Going
  <1>10. QED
    BY <1>8, <1>9

LEMMA EndKeeps ==
    ASSUME WrapTyped, InOrder, GreedyWrap, Going, WrapEnd
    PROVE  WrapTyped' /\ InOrder' /\ GreedyWrap' /\ Done'
  <1>1. /\ stop = pos /\ pos = Size /\ call' = call
        /\ pos' = pos /\ lo' = lo /\ stop' = stop
    BY DEF WrapEnd
  <1>2. /\ pos \in Nat /\ lo \in Nat /\ lo <= pos /\ Len(lines) \in Nat
        /\ lines \in Seq([lo : Nat, hi : Nat])
    BY WrapTypes
  <1>3. ASSUME lines' \in Seq([lo : Nat, hi : Nat])
        PROVE  WrapTyped'
    BY <1>1, <1>2, <1>3, SameCall DEF WrapTyped
  <1>4. ASSUME \A p \in 1 .. pos : ~Space(p) => Covered(p)',
               \A i \in 1 .. Len(lines') : lines'[i].hi <= pos
        PROVE  Done'
    BY <1>1, <1>4, SameCall DEF Done, UpTo
  <1>5. CASE HasText
    <2>1. PICK k \in Nat : LastInk(k) /\ lines' = Append(lines, [lo |-> lo, hi |-> k])
      BY <1>5, BreakIs DEF WrapEnd
    <2>2. /\ lines' \in Seq([lo : Nat, hi : Nat]) /\ InOrder' /\ GreedyWrap'
          /\ \A i \in 1 .. Len(lines') : lines'[i].hi <= pos
          /\ \A p \in 1 .. pos : ~Space(p) => Covered(p)'
      BY <1>1, <2>1, BreakKeeps DEF Going
    <2>3. QED
      BY <1>3, <1>4, <2>2
  <1>6. CASE ~HasText /\ lines = <<>> /\ call.slices
    <2> DEFINE all == [lo |-> 0, hi |-> Size]
    <2>1. lo = pos
      BY <1>2, <1>6 DEF HasText
    <2>2. lines' = <<all>> /\ Len(lines') = 1 /\ lines'[1] = all /\ all.lo = 0 /\ all.hi = pos
      BY <1>1, <1>6 DEF WrapEnd
    <2>3. all \in [lo : Nat, hi : Nat]
      BY <1>1, <1>2
    <2> HIDE DEF all
    <2>4. lines' \in Seq([lo : Nat, hi : Nat])
      BY <2>2, <2>3
    <2>5. InOrder'
      BY <2>2 DEF InOrder
    <2>6. \A p \in 1 .. pos : Space(p)
      BY <1>2, <1>6, <2>1 DEF Going, Consumed, Covered
    <2>7. ~Inked(all)
      BY <2>2, <2>6 DEF Inked
    <2>8. Greedy(lines')
      BY <2>2, <2>7 DEF Greedy, Fitting
    <2>9. GreedyWrap'
      BY <1>1, <2>8, GreedyAfter
    <2>10. \A i \in 1 .. Len(lines') : lines'[i].hi <= pos
      BY <1>2, <2>2
    <2>11. QED
      BY <1>3, <1>4, <2>4, <2>5, <2>6, <2>9, <2>10
  <1>7. CASE ~HasText /\ ~(lines = <<>> /\ call.slices)
    <2>1. lo = pos /\ lines' = lines
      BY <1>2, <1>7 DEF WrapEnd, HasText
    <2>2. \A p \in 1 .. pos : ~Space(p) => Covered(p)'
      <3>1. \A p \in 1 .. pos : ~(pos < p)
        BY <1>2
      <3>2. \A p \in 1 .. pos : ~Space(p) => Covered(p)
        BY <2>1, <3>1 DEF Going, Consumed
      <3>3. QED
        BY <1>1, <2>1, <3>2, SameLines
    <2>3. \A i \in 1 .. Len(lines') : lines'[i].hi <= pos
      BY <2>1 DEF Going, UpTo
    <2>4. QED
      BY <1>1, <1>2, <1>3, <1>4, <2>1, <2>2, <2>3, SameLines
  <1>8. QED
    BY <1>5, <1>6, <1>7

-----------------------------------------------------------------------------
(* The whole loop, and the renderer around it.                              *)

LEMMA CallBegins ==
    ASSUME NEW c, IsCall(c), WrapCall(c)
    PROVE  WrapInv'
  <1>1. /\ call' = c /\ pos' = 0 /\ lo' = 0 /\ stop' = 0
        /\ lines' = <<>> /\ Len(lines') = 0 /\ wrapped' = FALSE
    BY DEF WrapCall
  <1>2. WrapTyped'
    <2>1. Len(c.text) \in Nat
      BY DEF IsCall
    <2>2. Size' \in Nat
      BY <1>1, <2>1 DEF Size
    <2>3. QED
      BY <1>1, <2>2 DEF WrapTyped
  <1>3. InOrder' /\ GreedyWrap'
    BY <1>1 DEF InOrder, GreedyWrap
  <1>4. Consumed' /\ UpTo(lo)' /\ CurrentFits' /\ Slicing' /\ StartsLate'
    BY <1>1 DEF Consumed, UpTo, CurrentFits, LastInk, Slicing, StartsLate
  <1>5. ~InsideWord(stop)'
    BY <1>1 DEF InsideWord
  <1>6. QED
    BY <1>1, <1>2, <1>3, <1>4, <1>5, Zenon DEF WrapInv, Going

\* Between two calls there is no text.
Idle(c, p, l, s, ls, w) ==
    c = NoCall /\ p = 0 /\ l = 0 /\ s = 0 /\ ls = <<>> /\ w = TRUE

LEMMA NoCallIsCall == IsCall(NoCall) /\ Len(NoCall.text) = 0
  BY DEF IsCall, NoCall

LEMMA IdleIsDone ==
    ASSUME Idle(call, pos, lo, stop, lines, wrapped)
    PROVE  WrapInv
  <1>1. /\ call = NoCall /\ pos = 0 /\ lo = 0 /\ stop = 0
        /\ lines = <<>> /\ Len(lines) = 0 /\ wrapped = TRUE
    BY DEF Idle
  <1>2. WrapTyped
    BY <1>1, NoCallIsCall DEF WrapTyped, Size
  <1>3. InOrder /\ GreedyWrap /\ Done
    BY <1>1 DEF InOrder, GreedyWrap, Done, UpTo
  <1>4. QED
    BY <1>1, <1>2, <1>3, Zenon DEF WrapInv

LEMMA IdleAfter ==
    ASSUME Idle(call', pos', lo', stop', lines', wrapped')
    PROVE  WrapInv'
  <1>1. /\ call' = NoCall /\ pos' = 0 /\ lo' = 0 /\ stop' = 0
        /\ lines' = <<>> /\ Len(lines') = 0 /\ wrapped' = TRUE
    BY DEF Idle
  <1>2. WrapTyped'
    BY <1>1, NoCallIsCall DEF WrapTyped, Size
  <1>3. InOrder' /\ GreedyWrap' /\ Done'
    BY <1>1 DEF InOrder, GreedyWrap, Done, UpTo
  <1>4. QED
    BY <1>1, <1>2, <1>3, Zenon DEF WrapInv

LEMMA WrapTurnKeeps ==
    ASSUME WrapInv, WrapStep
    PROVE  WrapInv'
  <1>1. ~wrapped
    BY DEF WrapStep, WrapSpace, WrapAtom, WrapLong, AtAtom, Slice, WrapEnd
  <1>2. WrapTyped /\ InOrder /\ GreedyWrap /\ Going
    BY <1>1 DEF WrapInv
  <1>3. ASSUME WrapTyped', InOrder', GreedyWrap', Going', wrapped' = wrapped
        PROVE  WrapInv'
    BY <1>1, <1>3, Zenon DEF WrapInv
  <1>4. ASSUME NEW j \in 1 .. Size, WrapSpace(j) PROVE WrapInv'
    BY <1>2, <1>3, <1>4, SpaceKeeps, Zenon DEF WrapSpace
  <1>5. ASSUME NEW j \in 1 .. Size, WrapAtom(j) PROVE WrapInv'
    BY <1>2, <1>3, <1>5, AtomKeeps, Zenon DEF WrapAtom
  <1>6. ASSUME NEW j \in 1 .. Size, WrapLong(j) PROVE WrapInv'
    BY <1>2, <1>3, <1>6, LongKeeps, Zenon DEF WrapLong
  <1>7. CASE Slice
    BY <1>2, <1>3, <1>7, SliceKeeps, Zenon DEF Slice
  <1>8. CASE WrapEnd
    <2>1. WrapTyped' /\ InOrder' /\ GreedyWrap' /\ Done' /\ wrapped' = TRUE
      BY <1>2, <1>8, EndKeeps, Zenon DEF WrapEnd
    <2>2. QED
      BY <2>1, Zenon DEF WrapInv
  <1>9. QED
    BY <1>4, <1>5, <1>6, <1>7, <1>8 DEF WrapStep

LEMMA WrapUnchanged ==
    ASSUME WrapInv, UNCHANGED wrapVars
    PROVE  WrapInv'
  <1>1. /\ call' = call /\ pos' = pos /\ lo' = lo /\ stop' = stop
        /\ lines' = lines /\ wrapped' = wrapped
    BY DEF wrapVars
  <1>2. WrapTyped' <=> WrapTyped
    BY <1>1, SameCall DEF WrapTyped
  <1>3. Going' <=> Going
    BY <1>1, SameCall, SameLines
    DEF Going, Consumed, UpTo, CurrentFits, LastInk, Slicing, StartsLate
  <1>4. Done' <=> Done
    BY <1>1, SameCall, SameLines DEF Done, UpTo
  <1>5. QED
    BY <1>1, <1>2, <1>3, <1>4, SameLines, Zenon DEF WrapInv

\* Whatever the renderer does to the loop is a call of it, a turn of it, its
\* end, or nothing.
LEMMA RendererSteps ==
    ASSUME Next
    PROVE  \/ \E c : IsCall(c) /\ WrapCall(c)
           \/ WrapStep
           \/ Idle(call', pos', lo', stop', lines', wrapped')
           \/ UNCHANGED wrapVars
  <1>1. ASSUME NEW b, Invalid(b) \/ Draw(b) \/ Raise(b)
        PROVE  UNCHANGED wrapVars
    BY <1>1 DEF Invalid, Draw, Raise
  <1>2. ASSUME NEW b \in Candidates, BeginText(b)
        PROVE  \E c : IsCall(c) /\ WrapCall(c)
    <2>1. PICK t \in Texts : WrapCall(CallOf(b, t))
      BY <1>2 DEF BeginText
    <2>2. b \in AllBlocks /\ b.type \in Wraps
      BY <1>2 DEF Candidates, BeginText
    <2>3. IsCall(CallOf(b, t))
      BY <2>2, CallsAssumption
    <2>4. QED
      BY <2>1, <2>3
  <1>3. ASSUME NEW h, DrawText(h)
        PROVE  Idle(call', pos', lo', stop', lines', wrapped')
    BY <1>3 DEF DrawText, Idle
  <1>4. ASSUME NEW mm, Finish(mm)
        PROVE  UNCHANGED wrapVars
    BY <1>4 DEF Finish
  <1>5. CASE Wrap
    BY <1>5 DEF Wrap
  <1>6. QED
    BY <1>1, <1>2, <1>3, <1>4, <1>5 DEF Next

\* The invariant of the loop holds whatever is rendered.
THEOREM WrapInvariant == Spec => []WrapInv
  <1>1. Init => WrapInv
    <2>1. WrapInit => Idle(call, pos, lo, stop, lines, wrapped)
      BY DEF WrapInit, Idle
    <2>2. QED
      BY <2>1, IdleIsDone DEF Init
  <1>2. WrapInv /\ [Next]_vars => WrapInv'
    <2> SUFFICES ASSUME WrapInv, [Next]_vars PROVE WrapInv'
      OBVIOUS
    <2>1. CASE Next
      <3>1. CASE \E c : IsCall(c) /\ WrapCall(c)
        BY <3>1, CallBegins
      <3>2. CASE WrapStep
        BY <3>2, WrapTurnKeeps
      <3>3. CASE Idle(call', pos', lo', stop', lines', wrapped')
        BY <3>3, IdleAfter
      <3>4. CASE UNCHANGED wrapVars
        BY <3>4, WrapUnchanged
      <3>5. QED
        BY <2>1, <3>1, <3>2, <3>3, <3>4, RendererSteps
    <2>2. CASE UNCHANGED vars
      BY <2>2, WrapUnchanged DEF vars
    <2>3. QED
      BY <2>1, <2>2
  <1>3. QED
    BY <1>1, <1>2, PTL DEF Spec

\* For every font, text and width: the lines of wrap_text and of the drop cap
\* fit, are as long as they can be, and break a word only if no line holds it.
THEOREM WrapsGreedily == Spec => []GreedyWrap
  <1>1. WrapInv => GreedyWrap
    BY WrapInvSuffices
  <1>2. QED
    BY <1>1, WrapInvariant, PTL

\* For every font, text and width: each visible character consumed is on
\* exactly one line or on the current one, in the order of the text.
THEOREM LosesNothing == Spec => []NothingLost
  <1>1. WrapInv => NothingLost
    BY WrapInvSuffices
  <1>2. QED
    BY <1>1, WrapInvariant, PTL

-----------------------------------------------------------------------------
(* Stacking: the preview and the chunks, for any parts.                     *)

IsCut(ps, i) == ps[i].type = "cut"
BeginsOf(ps) == {i \in DOMAIN ps : ~IsCut(ps, i) /\ (i = 1 \/ IsCut(ps, i - 1))}
Before(ps, i) == Cardinality({j \in BeginsOf(ps) : j < i})
CutsOf(ps) == {i \in DOMAIN ps : IsCut(ps, i)}

\* s are the heights of the parts from i on, none of them a cut.
Holds(ps, s, i) ==
    \A n \in DOMAIN s : /\ i + n - 1 \in DOMAIN ps /\ ~IsCut(ps, i + n - 1)
                        /\ s[n] = ps[i + n - 1].h /\ s[n] > 0
Stretch(ps, s, k, i) == i \in BeginsOf(ps) /\ Before(ps, i) = k - 1 /\ Holds(ps, s, i)

\* Each finished chunk runs to a cut, the chunk being filled to the end.
Finished(ps, s, k) ==
    \E i \in Nat : Stretch(ps, s, k, i) /\ i + Len(s) \in DOMAIN ps /\ IsCut(ps, i + Len(s))
Filling(ps, s, k) == \E i \in Nat : Stretch(ps, s, k, i) /\ i + Len(s) = Len(ps) + 1

Stretches(ps, segs, cur) ==
    /\ \A k \in 1 .. Len(segs) : Finished(ps, segs[k], k)
    /\ cur # <<>> => Filling(ps, cur, Len(segs) + 1)
    /\ Cardinality(BeginsOf(ps)) = Len(segs) + (IF cur = <<>> THEN 0 ELSE 1)
    /\ cur = <<>> <=> ps = <<>> \/ IsCut(ps, Len(ps))

\* t is s and then x.
Extended(s, x, t) ==
    /\ Len(s) \in Nat /\ Len(t) = Len(s) + 1 /\ DOMAIN t = 1 .. Len(s) + 1 /\ DOMAIN s = 1 .. Len(s)
    /\ t # <<>> /\ t[Len(s) + 1] = x /\ \A i \in 1 .. Len(s) : t[i] = s[i]

\* Append extends.
LEMMA AppendIs ==
    ASSUME NEW S, NEW s \in Seq(S), NEW x \in S, NEW t, t = Append(s, x)
    PROVE  t \in Seq(S) /\ Extended(s, x, t)
  BY DEF Extended

\* The beginnings are a finite set.
LEMMA BeginsFinite ==
    ASSUME NEW ps \in Seq(Part)
    PROVE  /\ IsFiniteSet(BeginsOf(ps)) /\ IsFiniteSet(CutsOf(ps))
           /\ \A i \in Nat : IsFiniteSet({j \in BeginsOf(ps) : j < i})
           /\ Cardinality(BeginsOf(ps)) \in Nat /\ Cardinality(CutsOf(ps)) \in Nat
  <1>1. IsFiniteSet(1 .. Len(ps)) /\ DOMAIN ps = 1 .. Len(ps)
    <2>1. Len(ps) \in Int /\ 1 \in Int
      OBVIOUS
    <2>2. QED
      BY <2>1, FS_Interval
  <1>2. BeginsOf(ps) \subseteq 1 .. Len(ps) /\ CutsOf(ps) \subseteq 1 .. Len(ps)
    BY <1>1 DEF BeginsOf, CutsOf
  <1>3. IsFiniteSet(BeginsOf(ps)) /\ IsFiniteSet(CutsOf(ps))
    BY <1>1, <1>2, FS_Subset
  <1>4. \A i \in Nat : {j \in BeginsOf(ps) : j < i} \subseteq BeginsOf(ps)
    OBVIOUS
  <1>5. QED
    BY <1>3, <1>4, FS_Subset, FS_CardinalityType

\* One more part: where chunks begin, and how many begin before each of them.
BeginsGrow(ps, qs, opens) ==
    /\ BeginsOf(qs) = BeginsOf(ps) \cup (IF opens THEN {Len(ps) + 1} ELSE {})
    /\ Cardinality(BeginsOf(qs)) = Cardinality(BeginsOf(ps)) + (IF opens THEN 1 ELSE 0)
    /\ \A i \in 1 .. Len(ps) : Before(qs, i) = Before(ps, i)
    /\ opens => Before(qs, Len(ps) + 1) = Cardinality(BeginsOf(ps))

\* The beginnings after one more part.
LEMMA BeginsAppend ==
    ASSUME NEW ps \in Seq(Part), NEW p \in Part, NEW qs, qs = Append(ps, p),
           NEW opens \in BOOLEAN, opens <=> p.type # "cut" /\ (ps = <<>> \/ IsCut(ps, Len(ps)))
    PROVE  BeginsGrow(ps, qs, opens)
  <1> DEFINE n == Len(ps)
  <1>1. /\ n \in Nat /\ Len(qs) = n + 1 /\ DOMAIN qs = 1 .. n + 1 /\ DOMAIN ps = 1 .. n
        /\ qs[n + 1] = p /\ \A i \in 1 .. n : qs[i] = ps[i]
    BY AppendIs DEF Extended
  <1>2. ps = <<>> <=> n = 0
    OBVIOUS
  <1> HIDE DEF n
  <1>3. \A i \in 1 .. n : IsCut(qs, i) <=> IsCut(ps, i)
    BY <1>1 DEF IsCut
  <1>4. IsCut(qs, n + 1) <=> p.type = "cut"
    BY <1>1 DEF IsCut
  <1>5. \A i \in 1 .. n : i \in BeginsOf(qs) <=> i \in BeginsOf(ps)
    <2> SUFFICES ASSUME NEW i \in 1 .. n PROVE i \in BeginsOf(qs) <=> i \in BeginsOf(ps)
      OBVIOUS
    <2>1. i = 1 \/ i - 1 \in 1 .. n
      BY <1>1
    <2>2. i \in DOMAIN qs /\ i \in DOMAIN ps
      BY <1>1
    <2>3. QED
      BY <1>3, <2>1, <2>2 DEF BeginsOf
  <1>6. n + 1 \in BeginsOf(qs) <=> opens
    <2>1. n + 1 \in DOMAIN qs /\ (n + 1) - 1 = n /\ (n + 1 = 1 <=> n = 0)
      BY <1>1
    <2>2. n # 0 => (IsCut(qs, n) <=> IsCut(ps, n))
      BY <1>1, <1>3
    <2>3. n + 1 \in BeginsOf(qs) <=> ~IsCut(qs, n + 1) /\ (n = 0 \/ IsCut(qs, n))
      BY <2>1 DEF BeginsOf
    <2>4. opens <=> p.type # "cut" /\ (n = 0 \/ IsCut(ps, n))
      BY <1>2 DEF n
    <2>5. QED
      BY <1>4, <2>2, <2>3, <2>4
  <1>7. /\ BeginsOf(qs) \subseteq 1 .. n + 1 /\ BeginsOf(ps) \subseteq 1 .. n
        /\ n + 1 \notin 1 .. n
    BY <1>1 DEF BeginsOf
  <1>8. BeginsOf(qs) = BeginsOf(ps) \cup (IF opens THEN {n + 1} ELSE {})
    <2>1. \A i \in 1 .. n + 1 : i \in 1 .. n \/ i = n + 1
      BY <1>1
    <2>2. QED
      BY <1>5, <1>6, <1>7, <2>1
  <1>9. IsFiniteSet(BeginsOf(ps))
    BY BeginsFinite
  <1>10. Cardinality(BeginsOf(qs)) = Cardinality(BeginsOf(ps)) + (IF opens THEN 1 ELSE 0)
    <2>1. CASE opens
      <3>1. n + 1 \notin BeginsOf(ps) /\ BeginsOf(qs) = BeginsOf(ps) \cup {n + 1}
        BY <1>7, <1>8, <2>1
      <3>2. QED
        BY <1>9, <2>1, <3>1, FS_AddElement
    <2>2. CASE ~opens
      <3>1. BeginsOf(qs) = BeginsOf(ps)
        BY <1>8, <2>2
      <3>2. Cardinality(BeginsOf(ps)) \in Nat
        BY BeginsFinite
      <3>3. QED
        BY <2>2, <3>1, <3>2
    <2>3. QED
      BY <2>1, <2>2
  <1>11. ASSUME NEW i \in 1 .. n PROVE Before(qs, i) = Before(ps, i)
    <2>1. ~(n + 1 < i)
      BY <1>1
    <2>2. {j \in BeginsOf(qs) : j < i} = {j \in BeginsOf(ps) : j < i}
      BY <1>8, <2>1
    <2>3. QED
      BY <2>2 DEF Before
  <1>12. ASSUME opens PROVE Before(qs, n + 1) = Cardinality(BeginsOf(ps))
    <2>1. \A j \in BeginsOf(ps) : j < n + 1
      BY <1>1, <1>7
    <2>2. ~(n + 1 < n + 1)
      BY <1>1
    <2>3. {j \in BeginsOf(qs) : j < n + 1} = BeginsOf(ps)
      BY <1>8, <2>1, <2>2
    <2>4. QED
      BY <2>3 DEF Before
  <1>13. QED
    BY <1>8, <1>10, <1>11, <1>12 DEF n, BeginsGrow

\* What was stacked stays where it is.
LEMMA StretchKeeps ==
    ASSUME NEW ps \in Seq(Part), NEW p \in Part, NEW qs, qs = Append(ps, p),
           NEW s \in Seq(Nat), NEW k \in Nat, NEW i, Stretch(ps, s, k, i)
    PROVE  Stretch(qs, s, k, i)
  <1>1. i \in BeginsOf(ps) /\ Before(ps, i) = k - 1 /\ Holds(ps, s, i)
    BY DEF Stretch
  <1>2. /\ Len(qs) = Len(ps) + 1 /\ DOMAIN qs = 1 .. Len(ps) + 1 /\ DOMAIN ps = 1 .. Len(ps) /\ Len(ps) \in Nat
        /\ \A j \in 1 .. Len(ps) : qs[j] = ps[j]
    BY AppendIs DEF Extended
  <1>7. \E opens \in BOOLEAN : BeginsGrow(ps, qs, opens)
    <2>1. PICK opens \in BOOLEAN : opens <=> p.type # "cut" /\ (ps = <<>> \/ IsCut(ps, Len(ps)))
      OBVIOUS
    <2>2. BeginsGrow(ps, qs, opens)
      BY <2>1, BeginsAppend
    <2>3. QED
      BY <2>2
  <1>3. i \in BeginsOf(qs) /\ i \in 1 .. Len(ps)
    <2>1. i \in DOMAIN ps
      BY <1>1 DEF BeginsOf
    <2>2. QED
      BY <1>1, <1>2, <1>7, <2>1 DEF BeginsGrow
  <1>4. Before(qs, i) = Before(ps, i)
    BY <1>3, <1>7 DEF BeginsGrow
  <1>5. Holds(qs, s, i)
    <2> SUFFICES ASSUME NEW n \in DOMAIN s
                 PROVE  /\ i + n - 1 \in DOMAIN qs /\ ~IsCut(qs, i + n - 1)
                        /\ s[n] = qs[i + n - 1].h /\ s[n] > 0
      BY DEF Holds
    <2>1. /\ i + n - 1 \in DOMAIN ps /\ ~IsCut(ps, i + n - 1)
          /\ s[n] = ps[i + n - 1].h /\ s[n] > 0
      BY <1>1 DEF Holds
    <2> DEFINE m == i + n - 1
    <2>2. m \in 1 .. Len(ps) /\ m \in DOMAIN qs /\ qs[m] = ps[m]
      BY <1>2, <2>1
    <2> HIDE DEF m
    <2>3. ~IsCut(qs, m) /\ s[n] = qs[m].h /\ s[n] > 0
      BY <2>1, <2>2 DEF IsCut, m
    <2>4. QED
      BY <2>2, <2>3 DEF m
  <1>6. QED
    BY <1>1, <1>3, <1>4, <1>5 DEF Stretch

\* A finished chunk stays finished.
LEMMA FinishedKeeps ==
    ASSUME NEW ps \in Seq(Part), NEW p \in Part, NEW qs, qs = Append(ps, p),
           NEW s \in Seq(Nat), NEW k \in Nat, Finished(ps, s, k)
    PROVE  Finished(qs, s, k)
  <1>1. PICK i \in Nat : Stretch(ps, s, k, i) /\ i + Len(s) \in DOMAIN ps /\ IsCut(ps, i + Len(s))
    BY DEF Finished
  <1>2. Stretch(qs, s, k, i)
    BY <1>1, StretchKeeps
  <1> DEFINE m == i + Len(s)
  <1>3. m \in DOMAIN ps /\ IsCut(ps, m)
    BY <1>1
  <1>4. m \in DOMAIN qs /\ qs[m] = ps[m]
    BY <1>3, AppendIs DEF Extended
  <1> HIDE DEF m
  <1>5. m \in DOMAIN qs /\ IsCut(qs, m)
    BY <1>3, <1>4 DEF IsCut
  <1>6. QED
    BY <1>2, <1>5 DEF Finished, m

\* A cut finishes the chunk being filled, if there is one.
LEMMA CutStacks ==
    ASSUME NEW ps \in Seq(Part), NEW p \in Part, NEW qs, qs = Append(ps, p), p.type = "cut",
           NEW segs \in Seq(Seq(Nat)), NEW cur \in Seq(Nat), Stretches(ps, segs, cur),
           NEW new, new = IF cur = <<>> THEN segs ELSE Append(segs, cur)
    PROVE  Stretches(qs, new, <<>>)
  <1> DEFINE n == Len(segs)
  <1>1. /\ n \in Nat /\ DOMAIN segs = 1 .. n
        /\ \A k \in 1 .. n : segs[k] \in Seq(Nat) /\ Finished(ps, segs[k], k)
        /\ cur # <<>> => Filling(ps, cur, n + 1)
        /\ Cardinality(BeginsOf(ps)) = n + (IF cur = <<>> THEN 0 ELSE 1)
    <2>1. \A k \in 1 .. n : segs[k] \in Seq(Nat)
      BY ElementsOf
    <2>2. QED
      BY <2>1 DEF Stretches
  <1>2. Len(qs) = Len(ps) + 1 /\ Len(ps) \in Nat /\ DOMAIN qs = 1 .. Len(ps) + 1 /\ qs[Len(ps) + 1] = p /\ qs # <<>>
    BY AppendIs DEF Extended
  <1>3. Cardinality(BeginsOf(qs)) = Cardinality(BeginsOf(ps)) /\ Cardinality(BeginsOf(ps)) \in Nat
    <2>1. FALSE <=> p.type # "cut" /\ (ps = <<>> \/ IsCut(ps, Len(ps)))
      OBVIOUS
    <2>2. Cardinality(BeginsOf(ps)) \in Nat
      BY BeginsFinite
    <2>3. FALSE \in BOOLEAN
      OBVIOUS
    <2>4. BeginsGrow(ps, qs, FALSE)
      BY <2>1, <2>3, BeginsAppend
    <2>5. QED
      BY <2>2, <2>4 DEF BeginsGrow
  <1>4. IsCut(qs, Len(qs))
    BY <1>2 DEF IsCut
  <1>5. \A k \in 1 .. n : Finished(qs, segs[k], k)
    <2>1. \A k \in 1 .. n : k \in Nat
      OBVIOUS
    <2>2. QED
      BY <1>1, <2>1, FinishedKeeps
  <1>6. CASE cur = <<>>
    <2>1. new = segs
      BY <1>6
    <2>2. Cardinality(BeginsOf(qs)) = n + 0
      BY <1>1, <1>3, <1>6
    <2>3. QED
      BY <1>2, <1>4, <1>5, <2>1, <2>2 DEF Stretches
  <1>7. CASE cur # <<>>
    <2>1. /\ new \in Seq(Seq(Nat)) /\ Len(new) = n + 1 /\ new[n + 1] = cur
          /\ \A k \in 1 .. n : new[k] = segs[k]
      <3>1. new = Append(segs, cur)
        BY <1>7
      <3>2. QED
        BY <3>1, AppendIs DEF Extended
    <2>2. PICK i \in Nat : Stretch(ps, cur, n + 1, i) /\ i + Len(cur) = Len(ps) + 1
      BY <1>1, <1>7 DEF Filling
    <2>3. Stretch(qs, cur, n + 1, i)
      <3>1. n + 1 \in Nat
        BY <1>1
      <3>2. QED
        BY <2>2, <3>1, StretchKeeps
    <2>4. Finished(qs, cur, n + 1)
      <3>1. i + Len(cur) \in DOMAIN qs /\ IsCut(qs, i + Len(cur))
        BY <1>2, <1>4, <2>2
      <3>2. QED
        BY <2>3, <3>1 DEF Finished
    <2>5. ASSUME NEW k \in 1 .. Len(new) PROVE Finished(qs, new[k], k)
      <3>1. k \in 1 .. n \/ k = n + 1
        BY <1>1, <2>1
      <3>2. QED
        BY <1>5, <2>1, <2>4, <3>1
    <2>6. Cardinality(BeginsOf(qs)) = Len(new) + 0
      BY <1>1, <1>3, <1>7, <2>1
    <2>7. QED
      BY <1>2, <1>4, <2>5, <2>6 DEF Stretches
  <1>8. QED
    BY <1>6, <1>7

\* Anything else goes into the chunk being filled, and begins one after a cut.
LEMMA InkStacks ==
    ASSUME NEW ps \in Seq(Part), NEW p \in Part, NEW qs, qs = Append(ps, p), p.type # "cut", p.h > 0,
           NEW segs \in Seq(Seq(Nat)), NEW cur \in Seq(Nat), Stretches(ps, segs, cur),
           NEW new, new = Append(cur, p.h)
    PROVE  Stretches(qs, segs, new)
  <1> DEFINE n == Len(segs)
             opens == ps = <<>> \/ IsCut(ps, Len(ps))
  <1>1. /\ n \in Nat /\ DOMAIN segs = 1 .. n
        /\ \A k \in 1 .. n : segs[k] \in Seq(Nat) /\ Finished(ps, segs[k], k)
        /\ cur # <<>> => Filling(ps, cur, n + 1)
        /\ Cardinality(BeginsOf(ps)) = n + (IF cur = <<>> THEN 0 ELSE 1)
        /\ cur = <<>> <=> opens
    <2>1. \A k \in 1 .. n : segs[k] \in Seq(Nat)
      BY ElementsOf
    <2>2. QED
      BY <2>1 DEF Stretches
  <1>2. /\ Len(qs) = Len(ps) + 1 /\ Len(ps) \in Nat /\ DOMAIN qs = 1 .. Len(ps) + 1
        /\ qs[Len(ps) + 1] = p /\ qs # <<>> /\ DOMAIN ps = 1 .. Len(ps)
    <2>1. Extended(ps, p, qs)
      BY AppendIs
    <2>2. QED
      BY <2>1 DEF Extended
  <1>3. /\ p.h \in Nat /\ new \in Seq(Nat) /\ Len(new) = Len(cur) + 1 /\ Len(cur) \in Nat
        /\ new # <<>> /\ new[Len(cur) + 1] = p.h /\ \A i \in 1 .. Len(cur) : new[i] = cur[i]
        /\ DOMAIN new = 1 .. Len(cur) + 1 /\ DOMAIN cur = 1 .. Len(cur)
    <2>1. p.h \in Nat
      BY DEF Part
    <2>2. new \in Seq(Nat) /\ Extended(cur, p.h, new)
      BY <2>1, AppendIs
    <2>3. QED
      BY <2>1, <2>2 DEF Extended
  <1>4. /\ BeginsOf(qs) = BeginsOf(ps) \cup (IF opens THEN {Len(ps) + 1} ELSE {})
        /\ Cardinality(BeginsOf(qs)) = Cardinality(BeginsOf(ps)) + (IF opens THEN 1 ELSE 0)
        /\ opens => Before(qs, Len(ps) + 1) = Cardinality(BeginsOf(ps))
    <2>1. opens <=> p.type # "cut" /\ (ps = <<>> \/ IsCut(ps, Len(ps)))
      OBVIOUS
    <2>2. opens \in BOOLEAN
      OBVIOUS
    <2> HIDE DEF opens
    <2>3. BeginsGrow(ps, qs, opens)
      BY <2>1, <2>2, BeginsAppend
    <2>4. QED
      BY <2>3 DEF BeginsGrow
  <1> HIDE DEF opens
  <1>5. ~IsCut(qs, Len(qs))
    BY <1>2 DEF IsCut
  <1>6. \A k \in 1 .. n : Finished(qs, segs[k], k)
    <2>1. \A k \in 1 .. n : k \in Nat
      OBVIOUS
    <2>2. QED
      BY <1>1, <2>1, FinishedKeeps
  <1>7. Filling(qs, new, n + 1)
    <2>1. CASE cur = <<>>
      <3>1. opens /\ Len(cur) = 0
        BY <1>1, <2>1
      <3> DEFINE i == Len(ps) + 1
      <3>2. i \in Nat /\ i \in BeginsOf(qs) /\ Before(qs, i) = (n + 1) - 1 /\ i + Len(new) = Len(qs) + 1
        BY <1>1, <1>2, <1>3, <1>4, <2>1, <3>1
      <3>3. Holds(qs, new, i)
        <4> SUFFICES ASSUME NEW m \in DOMAIN new
                     PROVE  /\ i + m - 1 \in DOMAIN qs /\ ~IsCut(qs, i + m - 1)
                            /\ new[m] = qs[i + m - 1].h /\ new[m] > 0
          BY DEF Holds
        <4>1. m = 1 /\ i + m - 1 = Len(qs) /\ Len(qs) \in DOMAIN qs
          BY <1>2, <1>3, <3>1
        <4>2. new[m] = p.h /\ qs[Len(qs)] = p
          BY <1>2, <1>3, <3>1, <4>1
        <4>3. QED
          BY <1>5, <4>1, <4>2
      <3> HIDE DEF i
      <3>4. QED
        BY <3>2, <3>3 DEF Filling, Stretch
    <2>2. CASE cur # <<>>
      <3>1. PICK i \in Nat : Stretch(ps, cur, n + 1, i) /\ i + Len(cur) = Len(ps) + 1
        BY <1>1, <2>2 DEF Filling
      <3>2. Stretch(qs, cur, n + 1, i)
        <4>1. n + 1 \in Nat
          BY <1>1
        <4>2. QED
          BY <3>1, <4>1, StretchKeeps
      <3>3. Holds(qs, new, i)
        <4> SUFFICES ASSUME NEW m \in DOMAIN new
                     PROVE  /\ i + m - 1 \in DOMAIN qs /\ ~IsCut(qs, i + m - 1)
                            /\ new[m] = qs[i + m - 1].h /\ new[m] > 0
          BY DEF Holds
        <4>1. CASE m \in 1 .. Len(cur)
          <5>1. m \in DOMAIN cur /\ new[m] = cur[m]
            BY <1>3, <4>1
          <5>2. QED
            BY <3>2, <5>1 DEF Stretch, Holds
        <4>2. CASE m = Len(cur) + 1
          <5>1. i + m - 1 = Len(qs) /\ Len(qs) \in DOMAIN qs
            BY <1>2, <1>3, <3>1, <4>2
          <5>2. new[m] = p.h /\ qs[Len(qs)] = p
            BY <1>2, <1>3, <4>2
          <5>3. QED
            BY <1>5, <5>1, <5>2
        <4>3. QED
          BY <1>3, <4>1, <4>2, SMTT(30)
      <3>4. i + Len(new) = Len(qs) + 1
        <4>1. \A x, y, z \in Nat : x + y = z + 1 => x + (y + 1) = (z + 1) + 1
          OBVIOUS
        <4>2. i \in Nat /\ i + Len(cur) = Len(ps) + 1
          BY <3>1
        <4>3. i + (Len(cur) + 1) = (Len(ps) + 1) + 1
          BY <1>2, <1>3, <4>1, <4>2
        <4>4. QED
          BY <1>2, <1>3, <4>3
      <3> HIDE DEF n
      <3>5. QED
        BY <3>2, <3>3, <3>4 DEF Filling, Stretch
    <2>3. QED
      BY <2>1, <2>2
  <1>8. Cardinality(BeginsOf(qs)) = n + 1
    <2>1. CASE cur = <<>>
      BY <1>1, <1>4, <2>1
    <2>2. CASE cur # <<>>
      BY <1>1, <1>4, <2>2
    <2>3. QED
      BY <2>1, <2>2
  <1>9. QED
    BY <1>2, <1>3, <1>5, <1>6, <1>7, <1>8 DEF Stretches

\* The preview is as tall as the chunks stacked, and a pixel for each cut.
Stacked(segs) == StackHeight([i \in DOMAIN segs |-> StackHeight(segs[i])])
AddUp(ps, segs, cur) ==
    Heights(ps, Len(ps)) = Stacked(segs) + StackHeight(cur) + Cardinality(CutsOf(ps))

\* The height of a stack, and of one with one more.
LEMMA StackIs ==
    ASSUME NEW s \in Seq(Nat)
    PROVE  /\ StackHeight(s) \in Nat /\ StackHeight(<<>>) = 0
           /\ \A x \in Nat : StackHeight(Append(s, x)) = StackHeight(s) + x
  <1>1. StackHeight(s) \in Nat
    <2>1. Len(s) \in Nat /\ \A i \in 1 .. Len(s) : s[i] \in Nat
      BY ElementsOf
    <2>2. Len(s) <= Len(s)
      BY <2>1
    <2>3. QED
      BY <2>1, <2>2, TotalNat DEF StackHeight
  <1>2. StackHeight(<<>>) = 0
    <2>1. Len(<<>>) = 0 /\ Total(<<>>, 0) = 0
      BY TotalStep
    <2>2. QED
      BY <2>1 DEF StackHeight
  <1>3. ASSUME NEW x \in Nat PROVE StackHeight(Append(s, x)) = StackHeight(s) + x
    BY TotalAppend DEF StackHeight
  <1>4. QED
    BY <1>1, <1>2, <1>3

\* The chunks, and one more.
LEMMA StackedAppend ==
    ASSUME NEW segs \in Seq(Seq(Nat)), NEW cur \in Seq(Nat), NEW new, new = Append(segs, cur)
    PROVE  Stacked(segs) \in Nat /\ Stacked(new) = Stacked(segs) + StackHeight(cur)
  <1> DEFINE F == [i \in DOMAIN segs |-> StackHeight(segs[i])]
             G == [i \in DOMAIN new |-> StackHeight(new[i])]
             n == Len(segs)
  <1>1. new \in Seq(Seq(Nat)) /\ Extended(segs, cur, new)
    BY AppendIs
  <1>2. /\ n \in Nat /\ DOMAIN segs = 1 .. n /\ DOMAIN new = 1 .. n + 1
        /\ new[n + 1] = cur /\ \A i \in 1 .. n : new[i] = segs[i]
    BY <1>1 DEF Extended
  <1>3. \A i \in 1 .. n : segs[i] \in Seq(Nat)
    BY ElementsOf
  <1>4. F \in Seq(Nat) /\ Len(F) = n /\ \A i \in 1 .. n : F[i] = StackHeight(segs[i])
    <2>1. \A i \in 1 .. n : StackHeight(segs[i]) \in Nat
      BY <1>3, StackIs
    <2> HIDE DEF n
    <2>2. F = [i \in 1 .. n |-> StackHeight(segs[i])]
      BY <1>2
    <2>3. F \in [1 .. n -> Nat]
      BY <2>1, <2>2
    <2> HIDE DEF F
    <2>4. F \in Seq(Nat) /\ Len(F) = n
      BY <1>2, <2>3
    <2>5. QED
      BY <2>2, <2>4
  <1>5. Len(G) = n + 1 /\ \A i \in 1 .. n + 1 : G[i] = StackHeight(new[i])
    <2>1. \A i \in 1 .. n + 1 : StackHeight(new[i]) \in Nat
      <3>1. \A i \in 1 .. n + 1 : new[i] \in Seq(Nat)
        <4>1. \A i \in 1 .. n + 1 : i = n + 1 \/ i \in 1 .. n
          BY <1>2
        <4> HIDE DEF n
        <4>2. QED
          BY <1>2, <1>3, <4>1
      <3>2. QED
        BY <3>1, StackIs
    <2> DEFINE m == n + 1
    <2>2. m \in Nat
      BY <1>2
    <2>3. G = [i \in 1 .. m |-> StackHeight(new[i])]
      BY <1>2
    <2>4. \A i \in 1 .. m : StackHeight(new[i]) \in Nat
      BY <2>1
    <2> HIDE DEF m
    <2>5. G \in [1 .. m -> Nat]
      BY <2>3, <2>4
    <2> HIDE DEF G
    <2>6. Len(G) = m
      BY <2>2, <2>5
    <2>7. QED
      BY <2>3, <2>6 DEF m
  <1> HIDE DEF F, G, n
  <1>6. Total(G, n) = Total(F, n)
    <2>1. \A i \in 1 .. n : i \in 1 .. n + 1
      BY <1>2
    <2>2. \A i \in 1 .. n : G[i] = F[i]
      BY <1>2, <1>4, <1>5, <2>1
    <2>3. QED
      BY <1>2, <2>2, TotalSame
  <1>7. Total(G, n + 1) = Total(G, n) + G[n + 1]
    BY <1>2, TotalStep
  <1>8. G[n + 1] = StackHeight(cur)
    <2>1. n + 1 \in 1 .. n + 1
      BY <1>2
    <2>2. QED
      BY <1>2, <1>5, <2>1
  <1>9. Stacked(segs) = Total(F, n) /\ Stacked(segs) \in Nat
    <2>1. Stacked(segs) = StackHeight(F)
      BY DEF Stacked, F
    <2>2. QED
      BY <1>4, <2>1, StackIs DEF StackHeight
  <1>10. Stacked(new) = Total(G, n + 1)
    BY <1>5 DEF Stacked, G, StackHeight
  <1>11. QED
    BY <1>6, <1>7, <1>8, <1>9, <1>10

\* The parts, and one more.
LEMMA HeightsAppend ==
    ASSUME NEW ps \in Seq(Part), NEW p \in Part, NEW qs, qs = Append(ps, p)
    PROVE  /\ Heights(ps, Len(ps)) \in Nat
           /\ Heights(qs, Len(qs)) = Heights(ps, Len(ps)) + p.h
  <1> DEFINE F == [i \in DOMAIN ps |-> ps[i].h]
             G == [i \in DOMAIN qs |-> qs[i].h]
             n == Len(ps)
  <1>1. Extended(ps, p, qs)
    BY AppendIs
  <1>2. /\ n \in Nat /\ DOMAIN ps = 1 .. n /\ DOMAIN qs = 1 .. n + 1 /\ Len(qs) = n + 1
        /\ qs[n + 1] = p /\ \A i \in 1 .. n : qs[i] = ps[i]
    BY <1>1 DEF Extended
  <1>3. \A i \in 1 .. n : F[i] = ps[i].h /\ F[i] \in Nat
    <2>1. \A i \in 1 .. n : ps[i] \in Part
      BY ElementsOf
    <2>2. QED
      BY <1>2, <2>1 DEF Part
  <1>4. (\A i \in 1 .. n : G[i] = F[i]) /\ G[n + 1] = p.h
    <2>1. n + 1 \in 1 .. n + 1 /\ \A i \in 1 .. n : i \in 1 .. n + 1
      BY <1>2
    <2> HIDE DEF n
    <2>2. QED
      BY <1>2, <2>1
  <1>5. Heights(ps, Len(ps)) = Total(F, n) /\ Heights(qs, Len(qs)) = Total(G, n + 1)
    BY <1>2 DEF Heights
  <1> HIDE DEF F, G, n
  <1>6. Total(G, n) = Total(F, n)
    BY <1>2, <1>4, TotalSame
  <1>7. Total(G, n + 1) = Total(G, n) + G[n + 1]
    BY <1>2, TotalStep
  <1>8. Total(F, n) \in Nat
    <2>1. n <= n
      BY <1>2
    <2>2. QED
      BY <1>2, <1>3, <2>1, TotalNat
  <1>9. QED
    BY <1>4, <1>5, <1>6, <1>7, <1>8

\* The cuts, after one more part.
LEMMA CutsAppend ==
    ASSUME NEW ps \in Seq(Part), NEW p \in Part, NEW qs, qs = Append(ps, p)
    PROVE  /\ Cardinality(CutsOf(ps)) \in Nat
           /\ CutsOf(qs) = CutsOf(ps) \cup (IF p.type = "cut" THEN {Len(ps) + 1} ELSE {})
           /\ Cardinality(CutsOf(qs)) = Cardinality(CutsOf(ps)) + (IF p.type = "cut" THEN 1 ELSE 0)
  <1> DEFINE n == Len(ps)
  <1>1. Extended(ps, p, qs)
    BY AppendIs
  <1>2. /\ n \in Nat /\ DOMAIN ps = 1 .. n /\ DOMAIN qs = 1 .. n + 1
        /\ qs[n + 1] = p /\ \A i \in 1 .. n : qs[i] = ps[i]
    BY <1>1 DEF Extended
  <1> HIDE DEF n
  <1>3. \A i \in 1 .. n + 1 : i \in 1 .. n \/ i = n + 1
    BY <1>2
  <1>4. n + 1 \notin 1 .. n /\ n + 1 \in 1 .. n + 1 /\ \A i \in 1 .. n : i \in 1 .. n + 1
    BY <1>2
  <1>5. CutsOf(qs) = CutsOf(ps) \cup (IF p.type = "cut" THEN {n + 1} ELSE {})
    BY <1>2, <1>3, <1>4 DEF CutsOf, IsCut
  <1>6. IsFiniteSet(CutsOf(ps)) /\ Cardinality(CutsOf(ps)) \in Nat /\ n + 1 \notin CutsOf(ps)
    BY <1>2, <1>4, BeginsFinite DEF CutsOf
  <1>7. Cardinality(CutsOf(qs)) = Cardinality(CutsOf(ps)) + (IF p.type = "cut" THEN 1 ELSE 0)
    <2>1. CASE p.type = "cut"
      <3>1. CutsOf(qs) = CutsOf(ps) \cup {n + 1}
        BY <1>5, <2>1
      <3>2. QED
        BY <1>6, <2>1, <3>1, FS_AddElement
    <2>2. CASE p.type # "cut"
      <3>1. CutsOf(qs) = CutsOf(ps)
        BY <1>5, <2>2
      <3>2. QED
        BY <1>6, <2>2, <3>1
    <2>3. QED
      BY <2>1, <2>2
  <1>8. QED
    BY <1>5, <1>6, <1>7 DEF n

\* A cut adds a pixel.
LEMMA CutAdds ==
    ASSUME NEW ps \in Seq(Part), NEW p \in Part, NEW qs, qs = Append(ps, p), p.type = "cut", p.h = 1,
           NEW segs \in Seq(Seq(Nat)), NEW cur \in Seq(Nat), AddUp(ps, segs, cur),
           NEW new, new = IF cur = <<>> THEN segs ELSE Append(segs, cur)
    PROVE  AddUp(qs, new, <<>>)
  <1>1. Stacked(new) = Stacked(segs) + StackHeight(cur) /\ Stacked(segs) \in Nat /\ StackHeight(cur) \in Nat
    <2>1. Stacked(segs) \in Nat /\ Stacked(Append(segs, cur)) = Stacked(segs) + StackHeight(cur)
      BY StackedAppend
    <2>2. StackHeight(cur) \in Nat /\ StackHeight(<<>>) = 0
      BY StackIs
    <2>3. CASE cur = <<>>
      BY <2>1, <2>2, <2>3
    <2>4. CASE cur # <<>>
      BY <2>1, <2>2, <2>4
    <2>5. QED
      BY <2>3, <2>4
  <1>2. StackHeight(<<>>) = 0
    BY StackIs
  <1>3. Heights(ps, Len(ps)) \in Nat /\ Heights(qs, Len(qs)) = Heights(ps, Len(ps)) + 1
    BY HeightsAppend
  <1>4. Cardinality(CutsOf(ps)) \in Nat /\ Cardinality(CutsOf(qs)) = Cardinality(CutsOf(ps)) + 1
    BY CutsAppend
  <1>5. QED
    BY <1>1, <1>2, <1>3, <1>4 DEF AddUp

\* A block adds its height.
LEMMA InkAdds ==
    ASSUME NEW ps \in Seq(Part), NEW p \in Part, NEW qs, qs = Append(ps, p), p.type # "cut",
           NEW segs \in Seq(Seq(Nat)), NEW cur \in Seq(Nat), AddUp(ps, segs, cur)
    PROVE  AddUp(qs, segs, Append(cur, p.h))
  <1>1. Stacked(segs) \in Nat
    BY StackedAppend
  <1>2. p.h \in Nat /\ StackHeight(cur) \in Nat /\ StackHeight(Append(cur, p.h)) = StackHeight(cur) + p.h
    <2>1. p.h \in Nat
      BY DEF Part
    <2>2. QED
      BY <2>1, StackIs
  <1>3. Heights(ps, Len(ps)) \in Nat /\ Heights(qs, Len(qs)) = Heights(ps, Len(ps)) + p.h
    BY HeightsAppend
  <1>4. Cardinality(CutsOf(ps)) \in Nat /\ Cardinality(CutsOf(qs)) = Cardinality(CutsOf(ps))
    BY CutsAppend
  <1>5. QED
    BY <1>1, <1>2, <1>3, <1>4, SMTT(30) DEF AddUp

-----------------------------------------------------------------------------
(* The rendering of a document.                                             *)

\* The block at hand, and what it was drawn on.
Drafted ==
    /\ stage \in {"block", "wrap"} \cup Ends
    /\ block \in AllBlocks \/ block = [type |-> "none"]
    /\ stage = "wrap" => block \in AllBlocks /\ block.type \in Wraps
    /\ canvas = Blank \/ (block \in AllBlocks /\ LaidOut(block, canvas) /\ ~Fails(canvas))
    /\ stage = "http_500" => Raises(block) \/ NothingLeft(block)

\* A text that is sliced has at least one line.
Spans == \A i \in 1 .. Len(lines) : lines[i].lo <= lines[i].hi
Lined ==
    /\ wrapped \in BOOLEAN /\ Spans
    /\ stage = "wrap" => (call.slices <=> block.type # "drop_cap")
    /\ wrapped /\ call.slices => lines # <<>>

\* The parts and chunks stacked so far, and those of a finished document.
PartsTyped ==
    /\ parts \in Seq(Part) /\ segments \in Seq(Seq(Nat)) /\ current \in Seq(Nat)
    /\ sawCut \in BOOLEAN /\ pendingCut \in BOOLEAN
Stacking ==
    /\ Stretches(parts, segments, current) /\ AddUp(parts, segments, current)
    /\ pendingCut <=> parts # <<>> /\ IsCut(parts, Len(parts))
    /\ pendingCut => sawCut
Complete(ps, segs) ==
    /\ Len(segs) = Cardinality(BeginsOf(ps)) /\ segs # <<>>
    /\ \A k \in DOMAIN segs : Finished(ps, segs[k], k) \/ Filling(ps, segs[k], k)
    /\ Heights(ps, Len(ps)) = Stacked(segs) + Cardinality(CutsOf(ps))
Closing == Complete(parts, segments) /\ (TrailingCut <=> IsCut(parts, Len(parts)))
Paged ==
    /\ PartsTyped
    /\ stage \in {"block", "wrap"} => Stacking
    /\ stage = "rendered" => Closing

RenderInv == Drafted /\ Lined /\ Paged

\* A block is a record with a type.
LEMMA BlockIs ==
    ASSUME NEW b \in AllBlocks
    PROVE  AnyBlock(b) /\ FontsGive(b) /\ b.type \in {c.type : c \in AllBlocks}
  BY FontsAssumption DEF AllBlocks

\* A drawn block is stacked.
LEMMA PlaceKeeps ==
    ASSUME PartsTyped, Stacking, NEW b \in AllBlocks, NEW cv, LaidOut(b, cv), ~Fails(cv), Place(b, cv)
    PROVE  PartsTyped' /\ Stacking'
  <1> DEFINE p == [type |-> b.type, h |-> cv.h]
  <1>1. /\ parts' = Append(parts, p) /\ Stack(b, cv.h)
        /\ sawCut' = (sawCut \/ b.type = "cut") /\ pendingCut' = (b.type = "cut")
    BY DEF Place
  <1>2. p \in Part /\ p.type = b.type /\ p.h = cv.h /\ cv.h \in Nat /\ cv.h > 0 /\ (b.type = "cut" => cv.h = 1)
    <2>1. cv.h \in Nat /\ cv.h > 0 /\ (b.type = "cut" => cv.h = 1)
      BY DEF LaidOut, Lays
    <2>2. b.type \in {c.type : c \in AllBlocks}
      BY BlockIs
    <2>3. QED
      BY <2>1, <2>2 DEF Part
  <1> HIDE DEF p
  <1>3. /\ parts \in Seq(Part) /\ segments \in Seq(Seq(Nat)) /\ current \in Seq(Nat)
        /\ Stretches(parts, segments, current) /\ AddUp(parts, segments, current)
    BY DEF PartsTyped, Stacking
  <1>4. parts' \in Seq(Part) /\ parts' # <<>> /\ parts'[Len(parts')] = p
    <2>1. parts' \in Seq(Part) /\ Extended(parts, p, parts')
      BY <1>1, <1>2, <1>3, AppendIs
    <2>2. QED
      BY <2>1 DEF Extended
  <1>5. sawCut' \in BOOLEAN /\ pendingCut' \in BOOLEAN
    BY <1>1 DEF PartsTyped
  <1>6. /\ pendingCut' <=> parts' # <<>> /\ IsCut(parts', Len(parts'))
        /\ pendingCut' => sawCut'
    BY <1>1, <1>2, <1>4 DEF IsCut
  <1>7. CASE b.type = "cut"
    <2>1. segments' = Closed /\ current' = <<>>
      BY <1>1, <1>7 DEF Stack
    <2>2. segments' = IF current = <<>> THEN segments ELSE Append(segments, current)
      BY <2>1 DEF Closed
    <2>3. Stretches(parts', segments', <<>>)
      BY <1>1, <1>2, <1>3, <1>7, <2>2, CutStacks
    <2>4. AddUp(parts', segments', <<>>)
      BY <1>1, <1>2, <1>3, <1>7, <2>2, CutAdds
    <2>5. segments' \in Seq(Seq(Nat)) /\ current' \in Seq(Nat)
      <3>1. Append(segments, current) \in Seq(Seq(Nat))
        BY <1>3, AppendIs
      <3>2. QED
        BY <1>3, <2>1, <2>2, <3>1
    <2>6. QED
      BY <1>4, <1>5, <1>6, <2>1, <2>3, <2>4, <2>5 DEF PartsTyped, Stacking
  <1>8. CASE b.type # "cut"
    <2>1. current' = Append(current, p.h) /\ segments' = segments
      BY <1>1, <1>2, <1>8 DEF Stack
    <2>2. Stretches(parts', segments, Append(current, p.h))
      BY <1>1, <1>2, <1>3, <1>8, InkStacks
    <2>3. AddUp(parts', segments, Append(current, p.h))
      BY <1>1, <1>2, <1>3, <1>8, InkAdds
    <2>4. current' \in Seq(Nat)
      BY <1>2, <1>3, <2>1, AppendIs
    <2>5. QED
      BY <1>3, <1>4, <1>5, <1>6, <2>1, <2>2, <2>3, <2>4 DEF PartsTyped, Stacking
  <1>9. QED
    BY <1>7, <1>8

\* A rendering that is complete is what ChunksAreStretches says.
LEMMA CompleteIs ==
    ASSUME Closing
    PROVE  ChunksAreStretches
  <1>1. /\ \A i : Cut(i) <=> IsCut(parts, i)
        /\ Begins = BeginsOf(parts)
        /\ {i \in DOMAIN parts : Cut(i)} = CutsOf(parts)
        /\ PreviewHeight = Heights(parts, Len(parts))
        /\ StackHeight(ChunkHeights) = Stacked(segments)
    BY DEF Cut, IsCut, Begins, BeginsOf, CutsOf, PreviewHeight, Stacked, ChunkHeights
  <1>2. ASSUME NEW k \in DOMAIN segments
        PROVE  \E i \in Begins :
                 /\ Cardinality({j \in Begins : j < i}) = k - 1
                 /\ \A n \in DOMAIN segments[k] :
                      ~Cut(i + n - 1) /\ segments[k][n] = parts[i + n - 1].h /\ segments[k][n] > 0
                 /\ i + Len(segments[k]) = Len(parts) + 1 \/ Cut(i + Len(segments[k]))
    <2>1. PICK i \in Nat : /\ Stretch(parts, segments[k], k, i)
                           /\ i + Len(segments[k]) = Len(parts) + 1 \/ IsCut(parts, i + Len(segments[k]))
      BY DEF Closing, Complete, Finished, Filling
    <2>2. i \in BeginsOf(parts) /\ Before(parts, i) = k - 1 /\ Holds(parts, segments[k], i)
      BY <2>1 DEF Stretch
    <2>3. \A n \in DOMAIN segments[k] :
            ~IsCut(parts, i + n - 1) /\ segments[k][n] = parts[i + n - 1].h /\ segments[k][n] > 0
      BY <2>2 DEF Holds
    <2>4. Cardinality({j \in Begins : j < i}) = k - 1
      BY <1>1, <2>2 DEF Before
    <2>5. i \in Begins
      BY <1>1, <2>2
    <2>6. \A n \in DOMAIN segments[k] :
            ~Cut(i + n - 1) /\ segments[k][n] = parts[i + n - 1].h /\ segments[k][n] > 0
      BY <1>1, <2>3
    <2>7. i + Len(segments[k]) = Len(parts) + 1 \/ Cut(i + Len(segments[k]))
      BY <1>1, <2>1
    <2>8. QED
      BY <2>4, <2>5, <2>6, <2>7
  <1>3. QED
    BY <1>1, <1>2 DEF ChunksAreStretches, Closing, Complete

\* The document is finished: what was being filled is the last chunk.
LEMMA FinishKeeps ==
    ASSUME PartsTyped, Stacking, NEW mm, Finish(mm)
    PROVE  PartsTyped' /\ (stage' = "rendered" => Closing')
  <1>1. /\ parts \in Seq(Part) /\ segments \in Seq(Seq(Nat)) /\ current \in Seq(Nat)
        /\ Stretches(parts, segments, current) /\ AddUp(parts, segments, current)
        /\ sawCut \in BOOLEAN /\ pendingCut \in BOOLEAN
    BY DEF PartsTyped, Stacking
  <1>2. /\ segments' = (IF current = <<>> THEN segments ELSE Append(segments, current))
        /\ current' = <<>> /\ parts' = parts /\ parts # <<>>
        /\ sawCut' = sawCut /\ pendingCut' = pendingCut
        /\ stage' = "rendered" => segments' # <<>>
    BY DEF Finish, Closed
  <1>3. Append(segments, current) \in Seq(Seq(Nat)) /\ Extended(segments, current, Append(segments, current))
    BY <1>1, AppendIs
  <1>4. segments' \in Seq(Seq(Nat)) /\ PartsTyped'
    BY <1>1, <1>2, <1>3 DEF PartsTyped
  <1> DEFINE new == segments'
  <1>5. /\ Len(segments) \in Nat
        /\ \A k \in 1 .. Len(segments) : Finished(parts, segments[k], k)
        /\ current # <<>> => Filling(parts, current, Len(segments) + 1)
        /\ Cardinality(BeginsOf(parts)) = Len(segments) + (IF current = <<>> THEN 0 ELSE 1)
    BY <1>1 DEF Stretches
  <1>6. /\ Len(new) \in Nat /\ Cardinality(BeginsOf(parts)) = Len(new)
        /\ \A k \in 1 .. Len(new) : Finished(parts, new[k], k) \/ Filling(parts, new[k], k)
    <2>1. CASE current = <<>>
      BY <1>2, <1>5, <2>1
    <2>2. CASE current # <<>>
      <3>1. /\ Len(new) = Len(segments) + 1 /\ new[Len(segments) + 1] = current
            /\ \A k \in 1 .. Len(segments) : new[k] = segments[k]
        BY <1>2, <1>3, <2>2 DEF Extended
      <3>2. \A k \in 1 .. Len(segments) + 1 : k \in 1 .. Len(segments) \/ k = Len(segments) + 1
        BY <1>5
      <3>3. QED
        BY <1>5, <2>2, <3>1, <3>2
    <2>3. QED
      BY <2>1, <2>2
  <1>7. Heights(parts, Len(parts)) = Stacked(new) + Cardinality(CutsOf(parts))
    <2>1. Stacked(segments) \in Nat /\ Stacked(Append(segments, current)) = Stacked(segments) + StackHeight(current)
      BY <1>1, StackedAppend
    <2>2. StackHeight(current) \in Nat /\ StackHeight(<<>>) = 0
      BY <1>1, StackIs
    <2>3. Stacked(new) = Stacked(segments) + StackHeight(current)
      <3>1. CASE current = <<>>
        BY <1>2, <2>1, <2>2, <3>1
      <3>2. CASE current # <<>>
        BY <1>2, <2>1, <3>2
      <3>3. QED
        BY <3>1, <3>2
    <2>4. QED
      BY <1>1, <2>3 DEF AddUp
  <1>8. TrailingCut' <=> IsCut(parts, Len(parts))
    BY <1>2 DEF TrailingCut, Stacking
  <1>9. stage' = "rendered" => Complete(parts, new)
    <2>1. DOMAIN new = 1 .. Len(new)
      BY <1>4
    <2>2. QED
      BY <1>2, <1>6, <1>7, <2>1 DEF Complete
  <1>10. QED
    BY <1>2, <1>4, <1>8, <1>9 DEF Closing

\* It holds at first.
LEMMA RenderBegins == Init => RenderInv
  <1> SUFFICES ASSUME Init PROVE RenderInv
    OBVIOUS
  <1>1. /\ WrapInit /\ stage = "block" /\ block = [type |-> "none"] /\ canvas = Blank
        /\ parts = <<>> /\ segments = <<>> /\ current = <<>> /\ sawCut = FALSE /\ pendingCut = FALSE
    BY DEF Init
  <1>2. Drafted
    BY <1>1 DEF Drafted
  <1>3. Lined
    <2>1. lines = <<>> /\ wrapped = TRUE /\ call = NoCall /\ Len(lines) = 0
      BY <1>1 DEF WrapInit
    <2>2. call.slices = FALSE
      BY <2>1 DEF NoCall
    <2>3. QED
      BY <1>1, <2>1, <2>2 DEF Lined, Spans
  <1>4. PartsTyped
    <2>1. <<>> \in Seq(Part) /\ <<>> \in Seq(Seq(Nat)) /\ <<>> \in Seq(Nat)
      OBVIOUS
    <2>2. QED
      BY <1>1, <2>1, Zenon DEF PartsTyped
  <1>5. Stacking
    <2>1. BeginsOf(<<>>) = {} /\ CutsOf(<<>>) = {} /\ Len(<<>>) = 0
      BY DEF BeginsOf, CutsOf
    <2>2. Cardinality({}) = 0
      BY FS_EmptySet
    <2>3. Stretches(<<>>, <<>>, <<>>)
      BY <2>1, <2>2 DEF Stretches
    <2>4. StackHeight(<<>>) = 0
      <3>1. <<>> \in Seq(Nat)
        OBVIOUS
      <3>2. QED
        BY <3>1, StackIs
    <2>5. Stacked(<<>>) = 0
      <3>1. [i \in DOMAIN <<>> |-> StackHeight(<<>>[i])] = <<>>
        OBVIOUS
      <3>2. QED
        BY <2>4, <3>1 DEF Stacked
    <2>6. Heights(<<>>, Len(<<>>)) = 0
      BY <2>1, TotalStep DEF Heights
    <2>7. AddUp(<<>>, <<>>, <<>>)
      <3>1. 0 = 0 + 0 + 0
        OBVIOUS
      <3>2. QED
        BY <2>1, <2>2, <2>4, <2>5, <2>6, <3>1, Zenon DEF AddUp
    <2>8. QED
      BY <1>1, <2>3, <2>7 DEF Stacking
  <1>6. QED
    BY <1>1, <1>2, <1>3, <1>4, <1>5 DEF RenderInv, Paged

\* A block that is drawn leaves a canvas to be stacked.
LEMMA PlaceDrafts ==
    ASSUME PartsTyped, Stacking, NEW b \in AllBlocks, block' = b, NEW cv, LaidOut(b, cv), ~Fails(cv), Place(b, cv)
    PROVE  Drafted' /\ Paged'
  <1>1. stage' = "block" /\ canvas' = cv
    BY DEF Place
  <1>2. Drafted'
    BY <1>1 DEF Drafted
  <1>3. PartsTyped' /\ Stacking'
    BY PlaceKeeps
  <1>4. QED
    BY <1>1, <1>2, <1>3 DEF Paged

\* Nothing but the state of the rendering changes.
LEMMA PagedStays ==
    ASSUME Paged, UNCHANGED <<parts, segments, current, sawCut, pendingCut>>,
           stage \in {"block", "wrap"}, stage' # "rendered"
    PROVE  Paged'
  <1>1. PartsTyped' <=> PartsTyped
    BY DEF PartsTyped
  <1>2. Stacking' <=> Stacking
    BY DEF Stacking
  <1>3. QED
    BY <1>1, <1>2 DEF Paged

\* The lines stay what they are.
LEMMA LinedStays ==
    ASSUME Lined, UNCHANGED wrapVars, stage' # "wrap"
    PROVE  Lined'
  BY DEF Lined, Spans, wrapVars

\* The lines of a wrapped text, as they are rendered.
LEMMA LineImagesAre ==
    ASSUME WrapInv, Lined, wrapped, NEW h \in GlyphHeights
    PROVE  /\ LineImages(h) \in Seq(Bitmaps) /\ LowLines(LineImages(h), LINE)
           /\ lines # <<>> => LineImages(h) # <<>>
  <1>1. h \in Nat /\ h > 0 /\ h <= LINE
    <2>1. h \in 1 .. LINE
      BY FontsAssumption
    <2>2. QED
      BY <2>1, PaperIs
  <1>2. WrapTyped /\ Done
    BY DEF WrapInv
  <1>3. /\ lines \in Seq([lo : Nat, hi : Nat]) /\ Len(lines) \in Nat /\ DOMAIN lines = 1 .. Len(lines)
        /\ \A i \in 1 .. Len(lines) : lines[i].lo \in Nat /\ lines[i].hi \in Nat
    BY <1>2, WrapTypes
  <1>4. \A i \in 1 .. Len(lines) : Ink(lines[i].lo, lines[i].hi) \in Int
    <2> SUFFICES ASSUME NEW i \in 1 .. Len(lines) PROVE Ink(lines[i].lo, lines[i].hi) \in Int
      OBVIOUS
    <2>1. lines[i].lo <= lines[i].hi /\ lines[i].hi <= Size
      BY <1>2 DEF Lined, Spans, Done, UpTo
    <2>2. call.ink[lines[i].lo] \in Nat /\ call.ink[lines[i].hi] \in Nat
      BY <1>2, <1>3, <2>1, InkMonotone
    <2>3. QED
      BY <2>2 DEF Ink
  <1> DEFINE wide(i) == Larger(1, Ink(lines[i].lo, lines[i].hi))
             n == Len(lines)
  <1>5. \A i \in 1 .. n : wide(i) \in Nat /\ wide(i) > 0
    <2> SUFFICES ASSUME NEW i \in 1 .. n PROVE wide(i) \in Nat /\ wide(i) > 0
      OBVIOUS
    <2>1. wide(i) \in Int /\ 1 <= wide(i)
      BY <1>4, LargerIs
    <2> HIDE DEF wide
    <2>2. QED
      BY <2>1
  <1>6. LineImages(h) = [i \in 1 .. n |-> [w |-> wide(i), h |-> h]]
    BY <1>3 DEF LineImages
  <1> HIDE DEF wide
  <1>7. \A i \in 1 .. n : [w |-> wide(i), h |-> h] \in Bitmaps
    BY <1>1, <1>5 DEF Bitmaps
  <1>8. n = 0 <=> lines = <<>>
    BY <1>3
  <1> HIDE DEF n
  <1>9. LineImages(h) \in [1 .. n -> Bitmaps]
    BY <1>6, <1>7
  <1>10. n \in Nat
    BY <1>3 DEF n
  <1>11. LineImages(h) \in Seq(Bitmaps) /\ Len(LineImages(h)) = n
    <2> DEFINE ls == LineImages(h)
    <2>1. ls \in [1 .. n -> Bitmaps]
      BY <1>9
    <2> HIDE DEF ls
    <2>2. ls \in Seq(Bitmaps) /\ Len(ls) = n
      BY <1>10, <2>1
    <2>3. QED
      BY <2>2 DEF ls
  <1>12. LowLines(LineImages(h), LINE)
    BY <1>1, <1>6 DEF LowLines
  <1>13. n # 0 => LineImages(h) # <<>>
    BY <1>11
  <1>14. QED
    BY <1>8, <1>11, <1>12, <1>13

\* A turn of the loop keeps what is said of its lines.
LEMMA LinedTurns ==
    ASSUME WrapTyped, Lined, WrapStep, UNCHANGED <<stage, block>>
    PROVE  Lined'
  <1>1. ~wrapped /\ call' = call
    BY DEF WrapStep, WrapSpace, WrapAtom, WrapLong, AtAtom, Slice, WrapEnd
  <1>2. lines \in Seq([lo : Nat, hi : Nat]) /\ Len(lines) \in Nat /\ lo \in Nat /\ Size \in Nat
    BY WrapTypes
  <1>3. ASSUME Break PROVE Spans' /\ lines' # <<>>
    <2>1. PICK k \in Nat : LastInk(k) /\ lines' = Append(lines, [lo |-> lo, hi |-> k])
      BY <1>3, BreakIs
    <2>2. lo < k
      BY <1>2, <2>1 DEF LastInk
    <2>3. [lo |-> lo, hi |-> k] \in [lo : Nat, hi : Nat]
      BY <1>2
    <2>4. Extended(lines, [lo |-> lo, hi |-> k], lines')
      BY <1>2, <2>1, <2>3, AppendIs
    <2>5. \A i \in 1 .. Len(lines) + 1 : i \in 1 .. Len(lines) \/ i = Len(lines) + 1
      BY <1>2
    <2>6. ASSUME NEW i \in 1 .. Len(lines') PROVE lines'[i].lo <= lines'[i].hi
      <3>1. CASE i \in 1 .. Len(lines)
        BY <2>4, <3>1 DEF Extended, Lined, Spans
      <3>2. CASE i = Len(lines) + 1
        BY <1>2, <2>2, <2>4, <3>2 DEF Extended
      <3>3. QED
        BY <2>4, <2>5, <3>1, <3>2 DEF Extended
    <2>7. QED
      BY <2>4, <2>6 DEF Extended, Spans
  <1>4. CASE WrapEnd
    <2>1. wrapped' = TRUE
      BY <1>4 DEF WrapEnd
    <2>2. Spans' /\ (call.slices => lines' # <<>>)
      <3>1. CASE HasText
        BY <1>3, <1>4, <3>1 DEF WrapEnd
      <3>2. CASE ~HasText /\ lines = <<>> /\ call.slices
        <4>1. lines' = <<[lo |-> 0, hi |-> Size]>>
          BY <1>4, <3>2 DEF WrapEnd
        <4>2. Len(lines') = 1 /\ lines'[1].lo = 0 /\ lines'[1].hi = Size /\ lines' # <<>>
          BY <4>1
        <4>3. QED
          BY <1>2, <4>2 DEF Spans
      <3>3. CASE ~HasText /\ ~(lines = <<>> /\ call.slices)
        <4>1. lines' = lines
          BY <1>4, <3>3 DEF WrapEnd
        <4>2. QED
          BY <3>3, <4>1 DEF Lined, Spans
      <3>4. QED
        BY <3>1, <3>2, <3>3
    <2>3. QED
      BY <1>1, <2>1, <2>2 DEF Lined
  <1>5. CASE wrapped' = wrapped /\ (Break \/ lines' = lines)
    <2>1. Spans'
      BY <1>3, <1>5 DEF Lined, Spans
    <2>2. QED
      BY <1>1, <1>5, <2>1 DEF Lined
  <1>6. WrapEnd \/ (wrapped' = wrapped /\ (Break \/ lines' = lines))
    BY DEF WrapStep, WrapSpace, WrapAtom, WrapLong, Slice
  <1>7. QED
    BY <1>4, <1>5, <1>6

\* A text that has been wrapped is always drawn.
LEMMA TextIsLaidOut ==
    ASSUME WrapInv, Drafted, Lined, NEW h \in GlyphHeights, DrawText(h)
    PROVE  /\ block \in AllBlocks /\ LaidOut(block, Drawn(block, LineImages(h)))
           /\ ~Fails(Drawn(block, LineImages(h)))
  <1>1. stage = "wrap" /\ wrapped
    BY DEF DrawText
  <1>2. block \in AllBlocks /\ block.type \in Wraps /\ (call.slices <=> block.type # "drop_cap")
    BY <1>1 DEF Drafted, Lined
  <1>3. AnyBlock(block) /\ FontsGive(block)
    BY <1>2, BlockIs
  <1> DEFINE ls == LineImages(h)
             cv == Drawn(block, ls)
  <1>4. ls \in Seq(Bitmaps) /\ LowLines(ls, LINE) /\ (lines # <<>> => ls # <<>>)
    BY <1>1, LineImagesAre
  <1>5. block.type \in Wraps \ {"drop_cap"} => ls # <<>>
    BY <1>1, <1>2, <1>4 DEF Lined
  <1> HIDE DEF ls
  <1>6. LaidOut(block, cv)
    BY <1>3, <1>4, <1>5, EveryBlockIsLaidOut
  <1> HIDE DEF cv
  <1>7. ~NothingLeft(block)
    BY <1>2 DEF NothingLeft, Wraps
  <1>8. ~Fails(cv)
    BY <1>6, <1>7 DEF LaidOut
  <1>9. QED
    BY <1>2, <1>6, <1>8 DEF cv, ls

\* Other blocks are drawn, or refused.
LEMMA ElseIsLaidOut ==
    ASSUME NEW b \in AllBlocks, b.type \notin Wraps
    PROVE  LaidOut(b, Drawn(b, <<>>))
  <1>1. AnyBlock(b) /\ FontsGive(b)
    BY BlockIs
  <1>2. <<>> \in Seq(Bitmaps) /\ LowLines(<<>>, LINE)
    BY DEF LowLines
  <1>3. b.type \in Wraps \ {"drop_cap"} => <<>> # <<>>
    OBVIOUS
  <1>4. QED
    BY <1>1, <1>2, <1>3, EveryBlockIsLaidOut

\* A refused block is left with nothing.
LEMMA RefusalIs ==
    ASSUME NEW b, Refusal(b) # None
    PROVE  Refusal(b) \in {"http_400", "http_413"}
  BY DEF Refusal

\* Every step of the renderer keeps it.
LEMMA RenderKeeps ==
    ASSUME RenderInv, WrapInv, [Next]_vars
    PROVE  RenderInv'
  <1>1. Drafted /\ Lined /\ Paged /\ PartsTyped /\ (stage \in {"block", "wrap"} => Stacking)
    BY DEF RenderInv, Paged
  <1>2. ASSUME NEW b, Invalid(b) PROVE RenderInv'
    <2>1. stage = "block" /\ stage' = "http_400" /\ UNCHANGED <<wrapVars, docVars>>
      BY <1>2 DEF Invalid
    <2>2. Drafted'
      BY <1>1, <2>1 DEF Drafted, Ends, docVars
    <2>3. Lined'
      BY <1>1, <2>1, LinedStays
    <2>4. Paged'
      BY <1>1, <2>1, PagedStays DEF docVars
    <2>5. QED
      BY <2>2, <2>3, <2>4 DEF RenderInv
  <1>3. ASSUME NEW b \in Candidates, Draw(b) PROVE RenderInv'
    <2>1. /\ stage = "block" /\ b \in AllBlocks /\ b.type \notin Wraps /\ block' = b
          /\ ~Raises(b) /\ ~Fails(Drawn(b, <<>>)) /\ Place(b, Drawn(b, <<>>)) /\ UNCHANGED wrapVars
      BY <1>3 DEF Draw, NextBlock, Candidates
    <2>2. LaidOut(b, Drawn(b, <<>>))
      BY <2>1, ElseIsLaidOut
    <2>3. Drafted' /\ Paged'
      BY <1>1, <2>1, <2>2, PlaceDrafts
    <2>4. stage' # "wrap"
      BY <2>1 DEF Place
    <2>5. Lined'
      BY <1>1, <2>1, <2>4, LinedStays
    <2>6. QED
      BY <2>3, <2>5 DEF RenderInv
  <1>4. ASSUME NEW b \in Candidates, Raise(b) PROVE RenderInv'
    <2>1. /\ stage = "block" /\ b \in AllBlocks /\ b.type \notin Wraps /\ block' = b
          /\ Refusal(b) # None \/ Raises(b) \/ Fails(Drawn(b, <<>>))
          /\ stage' = (IF Refusal(b) # None THEN Refusal(b) ELSE "http_500")
          /\ canvas' = Blank
          /\ UNCHANGED <<wrapVars, parts, segments, current, sawCut, pendingCut>>
      BY <1>4 DEF Raise, NextBlock, Candidates
    <2>2. LaidOut(b, Drawn(b, <<>>))
      BY <2>1, ElseIsLaidOut
    <2>3. stage' \in {"http_400", "http_413", "http_500"} /\ (stage' = "http_500" => Raises(b) \/ NothingLeft(b))
      BY <2>1, <2>2, RefusalIs DEF LaidOut
    <2>4. Drafted'
      BY <2>1, <2>3 DEF Drafted, Ends
    <2>5. Lined'
      BY <1>1, <2>1, <2>3, LinedStays
    <2>6. Paged'
      BY <1>1, <2>1, <2>3, PagedStays
    <2>7. QED
      BY <2>4, <2>5, <2>6 DEF RenderInv
  <1>5. ASSUME NEW b \in Candidates, BeginText(b) PROVE RenderInv'
    <2>1. /\ stage = "block" /\ b \in AllBlocks /\ b.type \in Wraps /\ block' = b
          /\ stage' = "wrap" /\ canvas' = Blank
          /\ UNCHANGED <<parts, segments, current, sawCut, pendingCut>>
      BY <1>5 DEF BeginText, NextBlock, Candidates
    <2>2. PICK t \in Texts : WrapCall(CallOf(b, t))
      BY <1>5 DEF BeginText
    <2>3. call' = CallOf(b, t) /\ lines' = <<>> /\ wrapped' = FALSE /\ Len(lines') = 0
      BY <2>2 DEF WrapCall
    <2>4. call'.slices <=> b.type # "drop_cap"
      BY <2>3 DEF CallOf
    <2>5. Lined'
      <3>1. Spans'
        BY <2>3 DEF Spans
      <3>2. wrapped' \in BOOLEAN /\ ~wrapped'
        BY <2>3
      <3>3. QED
        BY <2>1, <2>4, <3>1, <3>2, Zenon DEF Lined
    <2>6. Drafted'
      BY <2>1 DEF Drafted
    <2>7. Paged'
      BY <1>1, <2>1, PagedStays
    <2>8. QED
      BY <2>5, <2>6, <2>7 DEF RenderInv
  <1>6. CASE Wrap
    <2>1. stage = "wrap" /\ WrapStep /\ UNCHANGED <<stage, docVars>>
      BY <1>6 DEF Wrap
    <2>2. Drafted'
      BY <1>1, <2>1 DEF Drafted, docVars
    <2>3. Lined'
      <3>1. WrapTyped
        BY DEF WrapInv
      <3>2. QED
        BY <1>1, <2>1, <3>1, LinedTurns DEF docVars
    <2>4. Paged'
      BY <1>1, <2>1, PagedStays DEF docVars
    <2>5. QED
      BY <2>2, <2>3, <2>4 DEF RenderInv
  <1>7. ASSUME NEW h \in GlyphHeights, DrawText(h) PROVE RenderInv'
    <2>1. /\ stage = "wrap" /\ Place(block, Drawn(block, LineImages(h))) /\ block' = block
          /\ call' = NoCall /\ lines' = <<>> /\ wrapped' = TRUE /\ Len(lines') = 0
      BY <1>7 DEF DrawText
    <2>2. /\ block \in AllBlocks /\ LaidOut(block, Drawn(block, LineImages(h)))
          /\ ~Fails(Drawn(block, LineImages(h)))
      BY <1>1, <1>7, TextIsLaidOut
    <2>3. Drafted' /\ Paged'
      BY <1>1, <2>1, <2>2, PlaceDrafts
    <2>4. stage' # "wrap" /\ call'.slices = FALSE
      BY <2>1 DEF Place, NoCall
    <2>5. Lined'
      BY <2>1, <2>4 DEF Lined, Spans
    <2>6. QED
      BY <2>3, <2>5 DEF RenderInv
  <1>8. ASSUME NEW mm \in Lengths, Finish(mm) PROVE RenderInv'
    <2>1. /\ stage = "block" /\ stage' \in {"http_413", "http_400", "rendered"}
          /\ UNCHANGED <<wrapVars, block, canvas>>
      BY <1>8 DEF Finish
    <2>2. PartsTyped' /\ (stage' = "rendered" => Closing')
      BY <1>1, <1>8, <2>1, FinishKeeps
    <2>3. Drafted'
      BY <1>1, <2>1 DEF Drafted, Ends
    <2>4. Lined'
      BY <1>1, <2>1, LinedStays
    <2>5. QED
      BY <2>1, <2>2, <2>3, <2>4 DEF RenderInv, Paged
  <1>9. CASE UNCHANGED vars
    BY <1>9 DEF RenderInv, Drafted, Lined, Spans, Paged, PartsTyped, Stacking, Closing, TrailingCut,
                vars, wrapVars, docVars
  <1>10. QED
    BY <1>2, <1>3, <1>4, <1>5, <1>6, <1>7, <1>8, <1>9 DEF Next

\* The invariant of the rendering: for every document, every canvas is laid
\* out by the fonts' measures, and the chunks are stacked as the parts are.
THEOREM RenderInvariant == Spec => [](RenderInv /\ WrapInv)
  <1>1. Init => RenderInv
    BY RenderBegins
  <1>2. RenderInv /\ WrapInv /\ [Next]_vars => RenderInv'
    BY RenderKeeps
  <1>3. QED
    BY <1>1, <1>2, WrapInvariant, PTL DEF Spec

\* Every variable of the renderer keeps to its type, for every document, font
\* and page length.
THEOREM RendererTyped == Spec => []TypeOK
  <1>1. RenderInv /\ WrapInv => TypeOK
    <2> SUFFICES ASSUME RenderInv, WrapInv PROVE TypeOK
      OBVIOUS
    <2>1. WrapTyped
      BY DEF WrapInv
    <2>2. 0 <= lo /\ IsCall(call) /\ lo <= pos /\ pos <= stop /\ stop <= Size
      BY <2>1, WrapTypes DEF WrapTyped
    <2>3. lines \in Seq([lo : Nat, hi : Nat]) /\ wrapped \in BOOLEAN
      BY <2>1 DEF WrapTyped, RenderInv, Lined
    <2>4. stage \in {"block", "wrap"} \cup Ends /\ (block \in AllBlocks \/ block = [type |-> "none"])
      BY DEF RenderInv, Drafted
    <2>5. QED
      BY <2>2, <2>3, <2>4 DEF TypeOK, RenderInv, Paged, PartsTyped
  <1>2. QED
    BY <1>1, RenderInvariant, PTL

\* Nothing that any block draws is cut off beyond what the overhangs name, and
\* every canvas fits the print head: whatever the bitmaps measure.
THEOREM InkStaysOnPaper == Spec => []InkOnPaper
  <1>1. RenderInv => InkOnPaper
    <2> SUFFICES ASSUME RenderInv PROVE InkOnPaper
      OBVIOUS
    <2>1. CASE canvas = Blank
      <3>1. canvas.w = 528 /\ canvas.ink = <<>> /\ HEAD = 576 /\ GUTTER = 24
        BY <2>1, PaperIs DEF Blank, Canvas
      <3>2. QED
        BY <3>1 DEF InkOnPaper
    <2>2. CASE block \in AllBlocks /\ LaidOut(block, canvas) /\ ~Fails(canvas)
      <3>1. Lays(block, canvas)
        BY <2>2 DEF LaidOut
      <3>2. canvas.w + (IF canvas.w = HEAD THEN 0 ELSE GUTTER) <= HEAD
        <4>1. canvas.w = 528 \/ canvas.w = 576
          BY <3>1, PaperIs DEF Lays
        <4>2. QED
          BY <4>1, PaperIs
      <3>3. ASSUME NEW i \in DOMAIN canvas.ink
            PROVE  /\ canvas.ink[i].w > 0 /\ canvas.ink[i].h > 0
                   /\ OnPaper(canvas.ink[i], block, canvas)
        <4>1. ~(canvas.ink[i].w <= 0) /\ ~(canvas.ink[i].h <= 0)
          BY <2>2 DEF Fails
        <4>2. IsBox(canvas.ink[i]) /\ OnPaper(canvas.ink[i], block, canvas)
          BY <3>1 DEF Lays
        <4>3. QED
          BY <4>1, <4>2 DEF IsBox
      <3>4. QED
        BY <3>2, <3>3 DEF InkOnPaper, OnPaper
    <2>3. QED
      BY <2>1, <2>2 DEF RenderInv, Drafted
  <1>2. QED
    BY <1>1, RenderInvariant, PTL

\* No bitmap that any block draws reaches into another, except in the rows
\* that step by less than their glyphs are tall.
THEOREM NothingOverprinted == Spec => []NoOverprint
  <1>1. RenderInv => NoOverprint
    <2> SUFFICES ASSUME RenderInv PROVE NoOverprint
      OBVIOUS
    <2>1. CASE canvas = Blank
      <3>1. canvas.ink = <<>>
        BY <2>1 DEF Blank, Canvas
      <3>2. QED
        BY <3>1 DEF NoOverprint
    <2>2. CASE LaidOut(block, canvas)
      BY <2>2 DEF LaidOut, Lays, NoOverprint
    <2>3. QED
      BY <2>1, <2>2 DEF RenderInv, Drafted
  <1>2. QED
    BY <1>1, RenderInvariant, PTL

\* The chunks of a finished document are the stretches between its cuts, in
\* order and none empty, and add up to the preview without the cut marks.
THEOREM ChunksFollowCuts == Spec => []ChunksAreStretches
  <1>1. RenderInv => ChunksAreStretches
    <2> SUFFICES ASSUME RenderInv PROVE ChunksAreStretches
      OBVIOUS
    <2>1. CASE stage = "rendered"
      BY <2>1, CompleteIs DEF RenderInv, Paged
    <2>2. CASE stage # "rendered"
      BY <2>2 DEF ChunksAreStretches
    <2>3. QED
      BY <2>1, <2>2
  <1>2. QED
    BY <1>1, RenderInvariant, PTL

\* A document that passed validation fails only on an image or a column of
\* which nothing is left when it is scaled.
THEOREM FailsOnlyOnNothing == Spec => []FailsOnNothingLeft
  <1>1. RenderInv => FailsOnNothingLeft
    BY DEF RenderInv, Drafted, NothingLeft, Flat, FailsOnNothingLeft
  <1>2. QED
    BY <1>1, RenderInvariant, PTL
=============================================================================
