---------------------------- MODULE LayoutProofs ----------------------------
(* What BlockLayout draws, for any bitmaps the fonts may give: the boxes of  *)
(* each block lie on the paper and do not meet, and a canvas is never empty  *)
(* but where nothing was left of an image or a column.                       *)
EXTENDS Renderer, FiniteSetTheorems, WellFoundedInduction, TLAPS

\* The elements of a sequence.
LEMMA ElementsOf ==
    ASSUME NEW S, NEW s \in Seq(S)
    PROVE  \A i \in 1 .. Len(s) : s[i] \in S
  OBVIOUS

-----------------------------------------------------------------------------
(* Sums, and the greater of two numbers.                                    *)

\* A set of numbers has a least one.
LEMMA LeastIs ==
    ASSUME NEW S, S \subseteq Nat, S # {}
    PROVE  \E x \in S : \A y \in S : x <= y
  <1>1. PICK x \in S : \A y \in S : ~(<<y, x>> \in OpToRel(<, Nat))
    BY NatLessThanWellFounded, WFMin
  <1>2. ASSUME NEW y \in S PROVE x <= y
    <2>1. ~(y < x)
      BY <1>1 DEF OpToRel
    <2>2. QED
      BY <2>1
  <1>3. QED
    BY <1>2

\* A function that adds up the first n numbers of f.
Adds(f, n, g) == g = [i \in 0 .. n |-> IF i = 0 THEN 0 ELSE g[i - 1] + f[i]]

\* Such a function starts from 0, and adds a number at a time.
LEMMA AddsStep ==
    ASSUME NEW f, NEW n \in Nat, NEW g, Adds(f, n, g)
    PROVE  /\ g[0] = 0
           /\ \A i \in 1 .. n : g[i] = g[i - 1] + f[i]
  <1> DEFINE V(i) == IF i = 0 THEN 0 ELSE g[i - 1] + f[i]
  <1>1. g = [i \in 0 .. n |-> V(i)]
    BY DEF Adds
  <1>2. \A i \in 0 .. n : g[i] = V(i)
    <2> HIDE DEF V
    <2>1. QED
      BY <1>1, Zenon
  <1>3. QED
    BY <1>2

\* There is such a function.
LEMMA AddsExists ==
    ASSUME NEW f, NEW n \in Nat
    PROVE  \E g : Adds(f, n, g)
  <1> DEFINE Bad == {m \in Nat : ~ \E g : Adds(f, m, g)}
  <1> SUFFICES ASSUME Bad # {} PROVE FALSE
    OBVIOUS
  <1>1. PICK m \in Bad : \A k \in Bad : m <= k
    BY LeastIs
  <1>2. CASE m = 0
    <2>1. Adds(f, m, [i \in 0 .. 0 |-> 0])
      BY <1>2 DEF Adds
    <2>2. QED
      BY <2>1
  <1>3. CASE m # 0
    <2>1. m \in Nat /\ m - 1 \in Nat /\ ~(m <= m - 1)
      BY <1>3
    <2>2. m - 1 \notin Bad
      BY <1>1, <2>1
    <2>3. PICK g : Adds(f, m - 1, g)
      BY <2>1, <2>2
    <2> DEFINE h == [i \in 0 .. m |-> IF i = m THEN g[m - 1] + f[m] ELSE g[i]]
    <2>4. /\ g[0] = 0
          /\ \A i \in 1 .. m - 1 : g[i] = g[i - 1] + f[i]
      BY <2>1, <2>3, AddsStep
    <2>5. ASSUME NEW i \in 0 .. m
          PROVE  h[i] = IF i = 0 THEN 0 ELSE h[i - 1] + f[i]
      <3>1. CASE i = 0
        BY <3>1, <1>3, <2>1, <2>4
      <3>2. CASE i = m
        BY <3>2, <1>3, <2>1
      <3>3. CASE i # 0 /\ i # m
        <4>1. i \in 1 .. m - 1 /\ i - 1 \in 0 .. m /\ i - 1 # m /\ i \in 0 .. m
          BY <3>3, <2>1
        <4>2. h[i] = g[i] /\ h[i - 1] = g[i - 1]
          BY <4>1, <3>3
        <4>3. QED
          BY <4>1, <4>2, <2>4, <3>3
      <3>4. QED
        BY <3>1, <3>2, <3>3
    <2>6. Adds(f, m, h)
      <3>1. h = [i \in 0 .. m |-> h[i]]
        OBVIOUS
      <3> HIDE DEF h
      <3>2. QED
        BY <3>1, <2>5, Zenon DEF Adds
    <2>7. QED
      BY <2>6
  <1>4. QED
    BY <1>2, <1>3

\* Two of them agree where both are defined.
LEMMA AddsAgree ==
    ASSUME NEW f, NEW m \in Nat, NEW n \in Nat, NEW g, NEW h, Adds(f, m, g), Adds(f, n, h),
           NEW k \in Nat, k <= m, k <= n
    PROVE  g[k] = h[k]
  <1> DEFINE Bad == {i \in Nat : i <= m /\ i <= n /\ g[i] # h[i]}
  <1> SUFFICES ASSUME Bad # {} PROVE FALSE
    OBVIOUS
  <1>1. PICK i \in Bad : \A j \in Bad : i <= j
    BY LeastIs
  <1>2. /\ g[0] = 0 /\ h[0] = 0
        /\ \A j \in 1 .. m : g[j] = g[j - 1] + f[j]
        /\ \A j \in 1 .. n : h[j] = h[j - 1] + f[j]
    BY AddsStep
  <1>3. i # 0 /\ i \in Nat /\ i <= m /\ i <= n
    BY <1>2
  <1>4. i - 1 \in Nat /\ i - 1 <= m /\ i - 1 <= n /\ ~(i <= i - 1)
    BY <1>3
  <1>5. i - 1 \notin Bad
    BY <1>1, <1>4
  <1>6. g[i - 1] = h[i - 1]
    BY <1>4, <1>5
  <1>7. i \in 1 .. m /\ i \in 1 .. n
    BY <1>3
  <1>8. g[i] = h[i]
    BY <1>2, <1>6, <1>7
  <1>9. QED
    BY <1>8

\* What Total adds up.
LEMMA TotalStep ==
    ASSUME NEW f
    PROVE  /\ Total(f, 0) = 0
           /\ \A n \in Nat : Total(f, n + 1) = Total(f, n) + f[n + 1]
  <1> DEFINE IsSum(g) == g = [i \in Nat |-> IF i = 0 THEN 0 ELSE g[i - 1] + f[i]]
             part(n) == CHOOSE g : Adds(f, n, g)
             whole   == [n \in Nat |-> part(n)[n]]
  <1>1. \A n \in Nat : Adds(f, n, part(n))
    BY AddsExists
  <1> HIDE DEF part
  <1>2. ASSUME NEW n \in Nat
        PROVE  whole[n] = IF n = 0 THEN 0 ELSE whole[n - 1] + f[n]
    <2>1. Adds(f, n, part(n)) /\ whole[n] = part(n)[n]
      BY <1>1
    <2>2. CASE n = 0
      BY <2>1, <2>2, AddsStep
    <2>3. CASE n # 0
      <3>1. n - 1 \in Nat /\ n - 1 <= n /\ n - 1 <= n - 1 /\ n \in 1 .. n
        BY <2>3
      <3>2. Adds(f, n - 1, part(n - 1)) /\ whole[n - 1] = part(n - 1)[n - 1]
        BY <1>1, <3>1
      <3>3. part(n)[n - 1] = part(n - 1)[n - 1]
        BY <2>1, <3>1, <3>2, AddsAgree
      <3>4. part(n)[n] = part(n)[n - 1] + f[n]
        BY <2>1, <3>1, AddsStep
      <3>5. QED
        BY <2>1, <2>3, <3>2, <3>3, <3>4
    <2>4. QED
      BY <2>2, <2>3
  <1>3. IsSum(whole)
    <2>1. whole = [n \in Nat |-> whole[n]]
      OBVIOUS
    <2> HIDE DEF whole
    <2>2. QED
      BY <2>1, <1>2, Zenon
  <1> DEFINE sum == CHOOSE g : IsSum(g)
  <1>4. IsSum(sum)
    BY <1>3, Zenon
  <1>5. \A n : Total(f, n) = sum[n]
    BY Zenon DEF Total
  <1> HIDE DEF sum
  <1>6. \A n \in Nat : sum[n] = IF n = 0 THEN 0 ELSE sum[n - 1] + f[n]
    <2> DEFINE V(i) == IF i = 0 THEN 0 ELSE sum[i - 1] + f[i]
    <2>1. sum = [i \in Nat |-> V(i)]
      BY <1>4
    <2> HIDE DEF V
    <2>2. \A n \in Nat : sum[n] = V(n)
      BY <2>1, Zenon
    <2>3. QED
      BY <2>2 DEF V
  <1>7. \A n \in Nat : sum[n + 1] = sum[n] + f[n + 1]
    <2> TAKE n \in Nat
    <2>1. n + 1 \in Nat /\ n + 1 # 0 /\ (n + 1) - 1 = n
      OBVIOUS
    <2>2. QED
      BY <2>1, <1>6
  <1>8. sum[0] = 0
    BY <1>6
  <1>9. QED
    BY <1>5, <1>7, <1>8

\* The sum of no numbers, and of one more.
LEMMA TotalFrom ==
    ASSUME NEW f, NEW n \in Nat, n > 0
    PROVE  Total(f, n) = Total(f, n - 1) + f[n]
  <1>1. n - 1 \in Nat /\ (n - 1) + 1 = n
    OBVIOUS
  <1>2. QED
    BY <1>1, TotalStep

\* Sums of numbers that are not negative are such numbers.
LEMMA TotalNat ==
    ASSUME NEW n \in Nat, NEW f, \A i \in 1 .. n : f[i] \in Nat, NEW k \in Nat, k <= n
    PROVE  Total(f, k) \in Nat
  <1> DEFINE Bad == {i \in Nat : i <= n /\ Total(f, i) \notin Nat}
  <1> SUFFICES ASSUME Bad # {} PROVE FALSE
    OBVIOUS
  <1>1. PICK m \in Bad : \A j \in Bad : m <= j
    BY LeastIs
  <1>2. m \in Nat /\ m <= n /\ m # 0 /\ m > 0
    BY <1>1, TotalStep
  <1>3. m - 1 \in Nat /\ m - 1 <= n /\ ~(m <= m - 1)
    BY <1>2
  <1>4. m - 1 \notin Bad
    BY <1>1, <1>3
  <1>5. Total(f, m - 1) \in Nat /\ f[m] \in Nat
    BY <1>2, <1>3, <1>4
  <1>6. Total(f, m) = Total(f, m - 1) + f[m]
    BY <1>2, TotalFrom
  <1>7. QED
    BY <1>1, <1>5, <1>6

\* Such sums grow.
LEMMA TotalGrows ==
    ASSUME NEW n \in Nat, NEW f, \A i \in 1 .. n : f[i] \in Nat,
           NEW k \in Nat, NEW m \in Nat, k <= m, m <= n
    PROVE  Total(f, k) <= Total(f, m)
  <1> DEFINE Bad == {i \in Nat : k <= i /\ i <= n /\ ~(Total(f, k) <= Total(f, i))}
  <1> SUFFICES ASSUME Bad # {} PROVE FALSE
    OBVIOUS
  <1>1. PICK i \in Bad : \A j \in Bad : i <= j
    BY LeastIs
  <1>2. Total(f, k) \in Nat
    BY TotalNat
  <1>3. i \in Nat /\ k <= i /\ i <= n /\ i # k
    BY <1>2
  <1>4. i > 0 /\ i - 1 \in Nat /\ k <= i - 1 /\ i - 1 <= n /\ ~(i <= i - 1)
    BY <1>3
  <1>5. Total(f, k) <= Total(f, i - 1)
    BY <1>1, <1>4
  <1>6. Total(f, i) = Total(f, i - 1) + f[i]
    BY <1>3, <1>4, TotalFrom
  <1>7. Total(f, i - 1) \in Nat /\ f[i] \in Nat
    BY <1>3, <1>4, TotalNat
  <1>8. QED
    BY <1>2, <1>5, <1>6, <1>7

\* Sums of the same numbers.
LEMMA TotalSame ==
    ASSUME NEW n \in Nat, NEW f, NEW g, \A i \in 1 .. n : f[i] = g[i]
    PROVE  Total(f, n) = Total(g, n)
  <1> DEFINE Bad == {i \in Nat : i <= n /\ Total(f, i) # Total(g, i)}
  <1> SUFFICES ASSUME Bad # {} PROVE FALSE
    OBVIOUS
  <1>1. PICK i \in Bad : \A j \in Bad : i <= j
    BY LeastIs
  <1>2. i \in Nat /\ i <= n /\ i # 0 /\ i > 0
    BY <1>1, TotalStep
  <1>3. i - 1 \in Nat /\ i - 1 <= n /\ ~(i <= i - 1) /\ i \in 1 .. n
    BY <1>2
  <1>4. Total(f, i - 1) = Total(g, i - 1)
    BY <1>1, <1>3
  <1>5. Total(f, i) = Total(f, i - 1) + f[i] /\ Total(g, i) = Total(g, i - 1) + g[i]
    BY <1>2, TotalFrom
  <1>6. QED
    BY <1>1, <1>3, <1>4, <1>5

\* One number appended.
LEMMA TotalAppend ==
    ASSUME NEW S, NEW s \in Seq(S), NEW x \in S
    PROVE  Total(Append(s, x), Len(Append(s, x))) = Total(s, Len(s)) + x
  <1> DEFINE t == Append(s, x)
             n == Len(s)
  <1>1. n \in Nat /\ Len(t) = n + 1 /\ t[n + 1] = x /\ \A i \in 1 .. n : t[i] = s[i]
    OBVIOUS
  <1> HIDE DEF t
  <1>2. Total(t, n + 1) = Total(t, n) + t[n + 1]
    BY <1>1, TotalStep
  <1>3. Total(t, n) = Total(s, n)
    BY <1>1, TotalSame
  <1>4. Total(t, Len(t)) = Total(s, n) + x
    BY <1>1, <1>2, <1>3
  <1>5. QED
    BY <1>4, Zenon DEF t

\* Finitely many integers have a greatest one.
LEMMA HasGreatest ==
    ASSUME NEW n \in Nat, NEW K \in SUBSET (1 .. n), K # {}, NEW f, \A i \in K : f[i] \in Int
    PROVE  \E m \in K : \A i \in K : f[i] <= f[m]
  <1> DEFINE Reached(k) == \A L \in SUBSET K : L # {} /\ L \subseteq 1 .. k =>
                              \E m \in L : \A i \in L : f[i] <= f[m]
             Bad == {k \in Nat : ~Reached(k)}
  <1>1. CASE Bad = {}
    <2>1. Reached(n)
      BY <1>1
    <2>2. QED
      BY <2>1
  <1>2. CASE Bad # {}
    <2>1. PICK k \in Bad : \A j \in Bad : k <= j
      BY <1>2, LeastIs
    <2>2. PICK L \in SUBSET K : L # {} /\ L \subseteq 1 .. k /\ ~ \E m \in L : \A i \in L : f[i] <= f[m]
      BY <2>1
    <2>3. k \in Nat /\ k # 0
      <3>1. 1 .. 0 = {}
        OBVIOUS
      <3>2. QED
        BY <2>1, <2>2, <3>1
    <2>4. k - 1 \in Nat /\ ~(k <= k - 1)
      BY <2>3
    <2>5. Reached(k - 1)
      BY <2>1, <2>4
    <2>6. L \ {k} \subseteq 1 .. k - 1
      BY <2>2, <2>3
    <2>7. CASE L \ {k} = {}
      <3>1. L = {k} /\ f[k] \in Int
        BY <2>2, <2>7
      <3>2. \A i \in L : f[i] <= f[k]
        BY <3>1
      <3>3. QED
        BY <2>2, <3>1, <3>2
    <2>8. CASE L \ {k} # {}
      <3>1. L \ {k} \in SUBSET K
        OBVIOUS
      <3>2. PICK m \in L \ {k} : \A i \in L \ {k} : f[i] <= f[m]
        BY <2>5, <2>6, <2>8, <3>1, Zenon
      <3>3. CASE k \notin L
        BY <2>2, <3>2, <3>3
      <3>4. CASE k \in L /\ f[k] <= f[m]
        <4>1. \A i \in L : f[i] <= f[m]
          BY <3>2, <3>4
        <4>2. QED
          BY <2>2, <3>2, <4>1
      <3>5. CASE k \in L /\ ~(f[k] <= f[m])
        <4>1. f[k] \in Int /\ f[m] \in Int /\ f[m] <= f[k] /\ f[k] <= f[k]
          BY <3>2, <3>5
        <4>2. \A i \in L : f[i] <= f[k]
          <5> TAKE i \in L
          <5>1. CASE i = k
            BY <5>1, <4>1
          <5>2. CASE i # k
            <6>1. f[i] <= f[m] /\ f[i] \in Int
              BY <5>2, <3>2
            <6>2. QED
              BY <6>1, <4>1
          <5>3. QED
            BY <5>1, <5>2
        <4>3. QED
          BY <2>2, <3>5, <4>2
      <3>6. QED
        BY <3>3, <3>4, <3>5
    <2>9. QED
      BY <2>7, <2>8
  <1>3. QED
    BY <1>1, <1>2

\* So Max is a member, and none is greater.
LEMMA MaxIs ==
    ASSUME NEW n \in Nat, NEW K \in SUBSET (1 .. n), K # {}, NEW f, \A i \in K : f[i] \in Int
    PROVE  /\ \E m \in K : Max({f[i] : i \in K}) = f[m]
           /\ \A i \in K : f[i] <= Max({f[k] : k \in K})
  <1> DEFINE S == {f[i] : i \in K}
  <1>1. PICK m \in K : \A i \in K : f[i] <= f[m]
    BY HasGreatest
  <1>2. f[m] \in S /\ \A y \in S : f[m] >= y
    BY <1>1
  <1>3. Max(S) \in S /\ \A y \in S : Max(S) >= y
    BY <1>2 DEF Max
  <1>4. Max(S) \in Int
    BY <1>3
  <1>5. QED
    BY <1>3, <1>4

\* The greater of two.
LEMMA LargerIs ==
    ASSUME NEW a \in Int, NEW b \in Int
    PROVE  /\ Larger(a, b) \in Int /\ a <= Larger(a, b) /\ b <= Larger(a, b)
           /\ Larger(a, b) = a \/ Larger(a, b) = b
  <1>1. \E x \in {a, b} : \A y \in {a, b} : x >= y
    OBVIOUS
  <1>2. Max({a, b}) \in {a, b} /\ \A y \in {a, b} : Max({a, b}) >= y
    BY <1>1 DEF Max
  <1>3. QED
    BY <1>2 DEF Larger

\* int(n * (to / from)), in floats or not, is the whole part of the quotient, or
\* one less than a whole quotient.
LEMMA ScaledNumber ==
    ASSUME NEW n \in Int, NEW to \in Int, NEW from \in Nat, from > 0
    PROVE  /\ Scaled(n, to, from) \in Int /\ Scaled(n, to, from) * from <= n * to
           /\ n * to <= (Scaled(n, to, from) + 1) * from
           /\ n * to = (Scaled(n, to, from) + 1) * from => <<n, to, from>> \in Truncated
  <1> DEFINE a == n * to
             d == a \div from
             less == a % from = 0 /\ <<n, to, from>> \in Truncated
             q == Scaled(n, to, from)
  <1>1. q = d - (IF less THEN 1 ELSE 0)
    BY DEF Scaled
  <1>2. a \in Int
    OBVIOUS
  <1> HIDE DEF a
  <1>3. d \in Int /\ d * from <= a /\ a < (d + 1) * from
    BY <1>2
  <1>4. a % from = 0 => a = d * from
    BY <1>2
  <1> HIDE DEF d, q
  <1>5. CASE less
    <2>1. q = d - 1 /\ a = d * from
      BY <1>1, <1>4, <1>5
    <2>2. q \in Int /\ q + 1 = d
      BY <1>3, <2>1
    <2>3. q * from <= a /\ a = (q + 1) * from
      BY <1>3, <2>1, <2>2
    <2>4. QED
      BY <1>5, <2>2, <2>3 DEF a, q
  <1>6. CASE ~less
    <2>1. q = d
      BY <1>1, <1>3, <1>6
    <2>2. QED
      BY <1>3, <2>1 DEF a, q
  <1>7. QED
    BY <1>5, <1>6

\* An image that is fitted is no larger than it was, nor than its place.
LEMMA FitIs ==
    ASSUME NEW img \in Bitmaps, NEW max \in Int
    PROVE  /\ Fit(img, max).w \in Int /\ Fit(img, max).h \in Nat
           /\ Fit(img, max).w <= max /\ Fit(img, max).w <= img.w
           /\ 0 < Fit(img, max).h /\ Fit(img, max).h <= img.h
           /\ max > 0 => Fit(img, max).w > 0
           /\ img.w <= max => Fit(img, max) = img
  <1> DEFINE w == img.w  h == img.h
  <1>1. w \in Nat /\ h \in Nat /\ w > 0 /\ h > 0
    BY DEF Bitmaps
  <1>2. CASE w > max
    <2>1. Fit(img, max) = [w |-> max, h |-> Larger(1, Scaled(h, max, w))]
      BY <1>2 DEF Fit
    <2> DEFINE q == Scaled(h, max, w)
    <2>2. q \in Int /\ q <= h
      <3>1. h * max \in Int /\ h * max <= h * w
        BY <1>1, <1>2
      <3>2. w \in Nat /\ w > 0 /\ h \in Int
        BY <1>1
      <3> HIDE DEF w, h
      <3>3. q \in Int /\ q * w <= h * max
        BY <3>2, ScaledNumber, Zenon
      <3> HIDE DEF q
      <3>4. q * w <= h * w
        BY <3>1, <3>2, <3>3
      <3>5. QED
        BY <3>2, <3>3, <3>4
    <2> HIDE DEF q
    <2>3. /\ Larger(1, q) \in Int /\ 1 <= Larger(1, q) /\ q <= Larger(1, q)
          /\ Larger(1, q) = 1 \/ Larger(1, q) = q
      BY <2>2, 1 \in Int, LargerIs
    <2>4. QED
      BY <1>1, <1>2, <2>1, <2>2, <2>3 DEF q
  <1>3. CASE ~(w > max)
    <2>1. Fit(img, max) = img
      BY <1>3 DEF Fit
    <2>2. QED
      BY <1>1, <1>3, <2>1
  <1>4. QED
    BY <1>2, <1>3

\* What italics add to the width: more for a taller line.
LEMMA SlantIs ==
    ASSUME NEW h \in Nat, h > 0
    PROVE  Slant(h) \in Nat /\ \A k \in Nat : h <= k => Slant(h) <= Slant(k)
  BY DEF Slant

-----------------------------------------------------------------------------
(* Where a block's boxes lie.                                               *)

IsBox(box) == box.x \in Int /\ box.y \in Int /\ box.w \in Int /\ box.h \in Int
OnPaper(box, b, cv) ==
    /\ box.y >= 0 - Excess(b) /\ box.y + box.h <= cv.h + Excess(b)
    /\ box.x >= 0 - Overhang(b) /\ box.x + box.w <= cv.w + Overhang(b)

Lays(b, cv) ==
    /\ cv.w \in {LIVE, HEAD} /\ cv.h \in Nat
    /\ \A i \in DOMAIN cv.ink : IsBox(cv.ink[i]) /\ OnPaper(cv.ink[i], b, cv)
    /\ TightStep(b) \/ \A i, j \in DOMAIN cv.ink : i # j => Disjoint(cv.ink[i], cv.ink[j])
Whole(cv) == cv.h > 0 /\ ~Fails(cv)

\* Ink that stays on its canvas.
Snug(box, w, h) ==
    /\ IsBox(box) /\ box.w > 0 /\ box.h > 0
    /\ 0 <= box.x /\ box.x + box.w <= w /\ 0 <= box.y /\ box.y + box.h <= h

\* A box within the canvas is on the paper.
LEMMA SnugOnPaper ==
    ASSUME NEW b, Overhang(b) \in Nat, Excess(b) \in Nat, NEW cv, cv.w \in Int, cv.h \in Int,
           NEW box, Snug(box, cv.w, cv.h)
    PROVE  IsBox(box) /\ OnPaper(box, b, cv) /\ box.w > 0 /\ box.h > 0
  BY DEF Snug, IsBox, OnPaper

\* A canvas with no ink, with one piece, with two.
LEMMA LayNone ==
    ASSUME NEW b, NEW h \in Nat, h > 0
    PROVE  Lays(b, Canvas(h, <<>>)) /\ Whole(Canvas(h, <<>>))
  BY DEF Lays, Whole, Fails, Canvas

LEMMA LayOne ==
    ASSUME NEW b, Overhang(b) \in Nat, Excess(b) \in Nat, NEW h \in Nat,
           NEW p, Snug(p, LIVE, h)
    PROVE  Lays(b, Canvas(h, <<p>>)) /\ Whole(Canvas(h, <<p>>))
  <1> DEFINE cv == Canvas(h, <<p>>)
  <1>1. /\ cv.w = LIVE /\ cv.h = h /\ DOMAIN cv.ink = {1} /\ cv.ink[1] = p
        /\ LIVE \in Int /\ LIVE \in {LIVE, HEAD}
    BY DEF Canvas, LIVE, HEAD, GUTTER
  <1> HIDE DEF cv
  <1>2. IsBox(p) /\ OnPaper(p, b, cv) /\ p.w > 0 /\ p.h > 0
    BY <1>1, SnugOnPaper
  <1>3. h > 0 /\ cv.h > 0
    BY <1>1 DEF Snug, IsBox
  <1>4. Lays(b, cv)
    BY <1>1, <1>2 DEF Lays
  <1>5. ~(p.w <= 0) /\ ~(p.h <= 0)
    BY <1>2 DEF IsBox
  <1>6. Whole(cv)
    BY <1>1, <1>3, <1>5, Zenon DEF Whole, Fails
  <1>7. QED
    BY <1>4, <1>6 DEF cv

LEMMA LayTwo ==
    ASSUME NEW b, Overhang(b) \in Nat, Excess(b) \in Nat, NEW h \in Nat,
           NEW p, Snug(p, LIVE, h), NEW q, Snug(q, LIVE, h), Disjoint(p, q)
    PROVE  Lays(b, Canvas(h, <<p, q>>)) /\ Whole(Canvas(h, <<p, q>>))
  <1> DEFINE cv == Canvas(h, <<p, q>>)
  <1>1. /\ cv.w = LIVE /\ cv.h = h /\ DOMAIN cv.ink = {1, 2} /\ cv.ink[1] = p /\ cv.ink[2] = q
        /\ LIVE \in Int /\ LIVE \in {LIVE, HEAD}
    BY DEF Canvas, LIVE, HEAD, GUTTER
  <1> HIDE DEF cv
  <1>2. /\ IsBox(p) /\ OnPaper(p, b, cv) /\ p.w > 0 /\ p.h > 0
        /\ IsBox(q) /\ OnPaper(q, b, cv) /\ q.w > 0 /\ q.h > 0
    BY <1>1, SnugOnPaper
  <1>3. h > 0 /\ cv.h > 0
    BY <1>1 DEF Snug, IsBox
  <1>4. \A i, j \in DOMAIN cv.ink : i # j => Disjoint(cv.ink[i], cv.ink[j])
    <2>1. Disjoint(q, p)
      BY Zenon DEF Disjoint
    <2>2. QED
      BY <1>1, <2>1
  <1>5. Lays(b, cv)
    BY <1>1, <1>2, <1>4 DEF Lays
  <1>6. ~(p.w <= 0) /\ ~(p.h <= 0) /\ ~(q.w <= 0) /\ ~(q.h <= 0)
    BY <1>2 DEF IsBox
  <1>7. Whole(cv)
    BY <1>1, <1>3, <1>6 DEF Whole, Fails
  <1>8. QED
    BY <1>5, <1>7 DEF cv

\* Any number of pieces, by whatever they are numbered.
LEMMA LaySnug ==
    ASSUME NEW b, Overhang(b) \in Nat, Excess(b) \in Nat, NEW h \in Nat, h > 0, NEW ink,
           \A i \in DOMAIN ink : Snug(ink[i], LIVE, h),
           TightStep(b) \/ \A i, j \in DOMAIN ink : i # j => Disjoint(ink[i], ink[j])
    PROVE  Lays(b, Canvas(h, ink)) /\ Whole(Canvas(h, ink))
  <1> DEFINE cv == Canvas(h, ink)
  <1>1. /\ cv.w = LIVE /\ cv.h = h /\ cv.ink = ink /\ LIVE \in Int /\ LIVE \in {LIVE, HEAD}
    BY DEF Canvas, LIVE, HEAD, GUTTER
  <1> HIDE DEF cv
  <1>2. ASSUME NEW i \in DOMAIN ink
        PROVE  /\ IsBox(ink[i]) /\ OnPaper(ink[i], b, cv)
               /\ ~(ink[i].w <= 0) /\ ~(ink[i].h <= 0)
    <2>1. Snug(ink[i], cv.w, cv.h) /\ cv.w \in Int /\ cv.h \in Int
      BY <1>1
    <2>2. IsBox(ink[i]) /\ OnPaper(ink[i], b, cv) /\ ink[i].w > 0 /\ ink[i].h > 0
      BY <2>1, SnugOnPaper
    <2>3. QED
      BY <2>2 DEF IsBox
  <1>3. Lays(b, cv)
    BY <1>1, <1>2 DEF Lays
  <1>4. Whole(cv)
    BY <1>1, <1>2 DEF Whole, Fails
  <1>5. QED
    BY <1>3, <1>4 DEF cv

\* The pieces of two boxes.
LEMMA PairIs ==
    ASSUME NEW p, NEW q
    PROVE  <<p>> \o <<q>> = <<p, q>>
  <1> DEFINE s == <<p>> \o <<q>>
             t == <<p, q>>
  <1>1. s \in Seq({p, q}) /\ Len(s) = 2 /\ s[1] = p /\ s[2] = q
    OBVIOUS
  <1>2. t \in Seq({p, q}) /\ Len(t) = 2 /\ t[1] = p /\ t[2] = q
    OBVIOUS
  <1> HIDE DEF s, t
  <1>3. s = [i \in 1 .. 2 |-> s[i]] /\ t = [i \in 1 .. 2 |-> t[i]]
    BY <1>1, <1>2
  <1>4. \A i \in 1 .. 2 : s[i] = t[i]
    BY <1>1, <1>2
  <1>5. s = t
    BY <1>3, <1>4
  <1>6. QED
    BY <1>5 DEF s, t

\* An optional second piece, below the first one.
LEMMA LayOptional ==
    ASSUME NEW b, Overhang(b) \in Nat, Excess(b) \in Nat, NEW h \in Nat, NEW present \in BOOLEAN,
           NEW p, Snug(p, LIVE, h), NEW q, present => Snug(q, LIVE, h) /\ Disjoint(p, q),
           NEW ink, ink = <<p>> \o (IF present THEN <<q>> ELSE <<>>)
    PROVE  Lays(b, Canvas(h, ink)) /\ Whole(Canvas(h, ink))
  <1>1. CASE present
    <2>1. ink = <<p, q>>
      BY <1>1, PairIs
    <2>2. QED
      BY <1>1, <2>1, LayTwo
  <1>2. CASE ~present
    <2>1. ink = <<p>>
      BY <1>2
    <2>2. QED
      BY <1>2, <2>1, LayOne
  <1>3. QED
    BY <1>1, <1>2

\* Blocks of few types reach beyond the canvas at all.
LEMMA NoExcess ==
    ASSUME NEW b
    PROVE  /\ b.type \notin {"section_title", "rich_text", "byline", "signature"} => Overhang(b) = 0
           /\ b.type \notin {"kv", "code"} => Excess(b) = 0
  BY DEF Overhang, Excess

\* Where an image is put that is no wider than the paper.
LEMMA CenteredIs ==
    ASSUME NEW img, img.w \in Int
    PROVE  /\ Centered(img) \in Int
           /\ 2 * Centered(img) <= LIVE - img.w /\ LIVE - img.w <= 2 * Centered(img) + 1
           /\ img.w <= LIVE => 0 <= Centered(img)
           /\ img.w >= 0 => Centered(img) + img.w <= LIVE \/ img.w > LIVE
  BY DEF Centered, LIVE, HEAD, GUTTER

LEMMA PlacedIs ==
    ASSUME NEW img, img.w \in Int, img.w >= 0, NEW align \in Aligns, NEW left \in Nat, NEW right \in Nat,
           img.w + left + right <= LIVE
    PROVE  /\ Placed(img, align, left, right) \in Int
           /\ 0 <= Placed(img, align, left, right) /\ Placed(img, align, left, right) + img.w <= LIVE
  <1>0. LIVE = 528
    BY DEF LIVE, HEAD, GUTTER
  <1>1. CASE align = "left"
    BY <1>0, <1>1 DEF Placed
  <1>2. CASE align = "center"
    <2>1. Placed(img, align, left, right) = Centered(img)
      BY <1>2 DEF Placed
    <2>2. Centered(img) = (528 - img.w) \div 2
      BY <1>0 DEF Centered
    <2>3. QED
      BY <1>0, <2>1, <2>2
  <1>3. CASE align = "right"
    BY <1>0, <1>3 DEF Placed
  <1>4. QED
    BY <1>1, <1>2, <1>3 DEF Aligns

LEMMA PlacedFits ==
    ASSUME NEW img, img.w \in Int, 0 <= img.w, img.w <= LIVE, NEW align \in Aligns
    PROVE  /\ Placed(img, align, 0, 0) \in Int
           /\ 0 <= Placed(img, align, 0, 0) /\ Placed(img, align, 0, 0) + img.w <= LIVE
  <1>1. 0 \in Nat /\ img.w + 0 + 0 <= LIVE
    OBVIOUS
  <1>2. QED
    BY <1>1, PlacedIs

\* Two ways of being apart.
LEMMA Below ==
    ASSUME NEW p, NEW q, p.y + p.h <= q.y
    PROVE  Disjoint(p, q)
  BY DEF Disjoint

LEMMA Beside ==
    ASSUME NEW p, NEW q, p.x + p.w <= q.x
    PROVE  Disjoint(p, q)
  BY DEF Disjoint

\* What is left of a number above zero.
LEMMA ClipIs ==
    ASSUME NEW n \in Int
    PROVE  Clip0(n) \in Nat /\ (n >= 0 => Clip0(n) = n) /\ (n <= 0 => Clip0(n) = 0)
  <1>1. /\ Larger(0, n) \in Int /\ 0 <= Larger(0, n) /\ n <= Larger(0, n)
        /\ Larger(0, n) = 0 \/ Larger(0, n) = n
    BY 0 \in Int, LargerIs
  <1>2. QED
    BY <1>1 DEF Clip0

\* The box of a piece, its parts.
LEMMA AtIs ==
    ASSUME NEW img, NEW x, NEW y
    PROVE  /\ At(img, x, y).x = x /\ At(img, x, y).y = y
           /\ At(img, x, y).w = img.w /\ At(img, x, y).h = img.h
  BY DEF At

LEMMA AtSnug ==
    ASSUME NEW img, img.w \in Int, img.h \in Int, img.w > 0, img.h > 0, NEW x \in Int, NEW y \in Int,
           NEW w \in Int, NEW h \in Int,
           0 <= x, x + img.w <= w, 0 <= y, y + img.h <= h
    PROVE  Snug(At(img, x, y), w, h)
  BY AtIs DEF Snug, IsBox

\* header
LEMMA HeaderLays ==
    ASSUME NEW b \in HeaderBlock, FontsGive(b)
    PROVE  Lays(b, Header(b)) /\ Whole(Header(b))
  <1> DEFINE title == Fit(b.title, LIVE - 24)
             sub   == Fit(b.sub, LIVE - 24)
             present == b.sub # None
  <1>1. /\ b.type = "header" /\ b.align \in Aligns /\ b.title \in Bitmaps /\ b.title.h <= 60
        /\ present => b.sub \in Bitmaps
        /\ b.style \in {"inverse_band", "ornamental", "minimal"}
    BY DEF HeaderBlock, FontsGive, Caption
  <1>2. LIVE - 24 = 504 /\ 504 \in Int /\ LIVE = 528
    BY DEF LIVE, HEAD, GUTTER
  <1>3. Overhang(b) \in Nat /\ Excess(b) \in Nat
    BY <1>1, NoExcess
  <1>4. /\ title.w \in Int /\ title.w > 0 /\ title.w <= 504
        /\ title.h \in Int /\ title.h > 0 /\ title.h <= 60
    <2>1. b.title.h \in Nat
      BY <1>1 DEF Bitmaps
    <2>2. QED
      BY <1>1, <1>2, <2>1, FitIs
  <1>5. present => /\ sub.w \in Int /\ sub.w > 0 /\ sub.w <= 504
                   /\ sub.h \in Int /\ sub.h > 0
    BY <1>1, <1>2, FitIs
  <1> DEFINE subH(gap) == Band(b.sub, LIVE - 24, gap)
  <1>6. \A gap \in Nat : subH(gap) = IF present THEN sub.h + gap ELSE 0
    BY <1>5 DEF Band
  <1> HIDE DEF title, sub, subH
  <1>7. CASE b.style = "inverse_band"
    <2> DEFINE p == At(title, Placed(title, b.align, 12, 12), Clip0((56 - title.h) \div 2))
               q == At(sub, Centered(sub), 60)
               h == 56 + subH(8) + 12
               ink == <<p>> \o (IF present THEN <<q>> ELSE <<>>)
    <2>1. Header(b) = Canvas(h, ink)
      BY <1>7 DEF Header, Boxed, title, sub, subH
    <2>2. h \in Nat /\ h >= 68 /\ (present => h = 76 + sub.h)
      <3>1. subH(8) = IF present THEN sub.h + 8 ELSE 0
        BY <1>6
      <3>2. QED
        BY <1>5, <3>1
    <2>3. Snug(p, LIVE, h)
      <3>1. /\ Placed(title, b.align, 12, 12) \in Int
            /\ 0 <= Placed(title, b.align, 12, 12) /\ Placed(title, b.align, 12, 12) + title.w <= LIVE
        <4>1. 12 \in Nat /\ title.w + 12 + 12 <= LIVE /\ title.w >= 0
          BY <1>2, <1>4
        <4>2. QED
          BY <1>1, <1>4, <4>1, PlacedIs
      <3>2. Clip0((56 - title.h) \div 2) \in Nat /\ Clip0((56 - title.h) \div 2) + title.h <= 60
        <4>1. (56 - title.h) \div 2 \in Int
          BY <1>4
        <4>2. QED
          BY <1>4, <4>1, ClipIs
      <3>3. QED
        BY <1>2, <1>4, <2>2, <3>1, <3>2, AtSnug
    <2>4. ASSUME present PROVE Snug(q, LIVE, h) /\ Disjoint(p, q)
      <3>1. /\ Centered(sub) \in Int /\ 0 <= Centered(sub) /\ Centered(sub) + sub.w <= 528
        BY <1>2, <1>5, <2>4, CenteredIs
      <3>2. Snug(q, LIVE, h)
        BY <1>2, <1>5, <2>2, <2>4, <3>1, AtSnug
      <3>3. p.y + p.h <= q.y
        <4>1. (56 - title.h) \div 2 \in Int
          BY <1>4
        <4>2. Clip0((56 - title.h) \div 2) + title.h <= 60
          BY <1>4, <4>1, ClipIs
        <4>3. QED
          BY <4>2, AtIs
      <3>4. QED
        BY <3>2, <3>3, Below
    <2> HIDE DEF p, q, h
    <2>5. QED
      BY <1>3, <2>1, <2>2, <2>3, <2>4, LayOptional
  <1>8. CASE b.style = "minimal"
    <2> DEFINE p == At(title, Placed(title, b.align, 0, 0), 4)
               q == At(sub, Placed(sub, b.align, 0, 0), 4 + title.h + 4 + 1 + 6)
               h == 4 + title.h + 5 + subH(6) + 12
               ink == <<p>> \o (IF present THEN <<q>> ELSE <<>>)
    <2>1. Header(b) = Canvas(h, ink)
      BY <1>8 DEF Header, Boxed, title, sub, subH
    <2>2. h \in Nat /\ h >= 4 + title.h /\ (present => h = 27 + title.h + sub.h)
      <3>1. subH(6) = IF present THEN sub.h + 6 ELSE 0
        BY <1>6
      <3>2. QED
        BY <1>4, <1>5, <3>1
    <2>3. Snug(p, LIVE, h)
      <3>1. /\ Placed(title, b.align, 0, 0) \in Int
            /\ 0 <= Placed(title, b.align, 0, 0) /\ Placed(title, b.align, 0, 0) + title.w <= LIVE
        BY <1>1, <1>2, <1>4, PlacedFits
      <3>2. QED
        BY <1>2, <1>4, <2>2, <3>1, AtSnug
    <2>4. ASSUME present PROVE Snug(q, LIVE, h) /\ Disjoint(p, q)
      <3>1. /\ Placed(sub, b.align, 0, 0) \in Int
            /\ 0 <= Placed(sub, b.align, 0, 0) /\ Placed(sub, b.align, 0, 0) + sub.w <= LIVE
        BY <1>1, <1>2, <1>5, <2>4, PlacedFits
      <3>2. 4 + title.h + 4 + 1 + 6 \in Nat /\ 4 + title.h + 4 + 1 + 6 + sub.h <= h
        BY <1>4, <1>5, <2>2, <2>4
      <3>3. Snug(q, LIVE, h)
        BY <1>2, <1>5, <2>2, <2>4, <3>1, <3>2, AtSnug
      <3>4. p.y + p.h <= q.y
        BY <1>4, AtIs
      <3>5. QED
        BY <3>3, <3>4, Below
    <2> HIDE DEF p, q, h
    <2>5. QED
      BY <1>3, <2>1, <2>2, <2>3, <2>4, LayOptional
  <1>9. CASE b.style = "ornamental"
    <2> DEFINE orn == [w |-> 20, h |-> 29]
               row == Larger(title.h, orn.h)
               start == (LIVE - (title.w + 2 * (orn.w + 12))) \div 2
               h == 8 + row + subH(6) + 12
               q == At(sub, Centered(sub), 8 + row + 6)
               tail == IF present THEN <<q>> ELSE <<>>
    <2>1. Header(b) = Canvas(h,
                 (IF start >= 0
                    THEN <<At(orn, start, 8 + row - orn.h),
                           At(title, start + orn.w + 12, 8 + row - title.h),
                           At(orn, start + orn.w + title.w + 24, 8 + row - orn.h)>>
                    ELSE <<At(title, Placed(title, b.align, 0, 0), 8)>>) \o tail)
      BY <1>9 DEF Header, Boxed, title, sub, subH
    <2>2. orn.w = 20 /\ orn.h = 29 /\ orn.w \in Int /\ orn.h \in Int
      OBVIOUS
    <2> HIDE DEF orn
    <2>3. row \in Int /\ title.h <= row /\ 29 <= row
      BY <1>4, <2>2, LargerIs
    <2>4. h \in Nat /\ h >= 20 + row /\ (present => h = 26 + row + sub.h)
      <3>1. subH(6) = IF present THEN sub.h + 6 ELSE 0
        BY <1>6
      <3>2. QED
        BY <1>4, <1>5, <2>3, <3>1
    <2>5. start \in Int /\ 2 * start <= 464 - title.w /\ 463 - title.w <= 2 * start
      BY <1>2, <1>4, <2>2
    <2> HIDE DEF row, start, h
    <2>6. ASSUME present
          PROVE  Snug(q, LIVE, h) /\ q.y = 14 + row
      <3>1. /\ Centered(sub) \in Int /\ 0 <= Centered(sub) /\ Centered(sub) + sub.w <= 528
        BY <1>2, <1>5, <2>6, CenteredIs
      <3>2. 8 + row + 6 \in Int /\ 0 <= 8 + row + 6 /\ 8 + row + 6 + sub.h <= h /\ 8 + row + 6 = 14 + row
        BY <1>5, <2>3, <2>4, <2>6
      <3>3. Snug(q, LIVE, h)
        BY <1>2, <1>5, <2>4, <2>6, <3>1, <3>2, AtSnug
      <3>4. QED
        BY <3>2, <3>3, AtIs
    <2>7. CASE start >= 0
      <3> DEFINE p == At(orn, start, 8 + row - orn.h)
                 m == At(title, start + orn.w + 12, 8 + row - title.h)
                 r == At(orn, start + orn.w + title.w + 24, 8 + row - orn.h)
      <3>1. Snug(p, LIVE, h) /\ p.y + p.h = 8 + row /\ p.x + p.w = start + 20
        <4>1. 8 + row - orn.h \in Int /\ 0 <= 8 + row - orn.h /\ 8 + row - orn.h + orn.h <= h
          BY <2>2, <2>3, <2>4
        <4>2. start + orn.w <= 528
          BY <1>4, <2>2, <2>5
        <4>3. Snug(p, LIVE, h)
          BY <1>2, <2>2, <2>4, <2>5, <2>7, <4>1, <4>2, AtSnug
        <4>4. QED
          BY <2>2, <2>3, <2>5, <4>3, AtIs
      <3>2. Snug(m, LIVE, h) /\ m.y + m.h = 8 + row /\ m.x = start + 32 /\ m.x + m.w = start + 32 + title.w
        <4>1. /\ 8 + row - title.h \in Int /\ 0 <= 8 + row - title.h /\ 8 + row - title.h + title.h <= h
              /\ 8 + row - title.h + title.h = 8 + row
          BY <1>4, <2>3, <2>4
        <4>2. /\ start + orn.w + 12 \in Int /\ 0 <= start + orn.w + 12 /\ start + orn.w + 12 + title.w <= 528
              /\ start + orn.w + 12 = start + 32
          BY <1>4, <2>2, <2>5, <2>7
        <4>3. Snug(m, LIVE, h)
          BY <1>2, <1>4, <2>4, <4>1, <4>2, AtSnug
        <4>4. QED
          BY <4>1, <4>2, <4>3, AtIs
      <3>3. Snug(r, LIVE, h) /\ r.y + r.h = 8 + row /\ r.x = start + 44 + title.w
        <4>1. 8 + row - orn.h \in Int /\ 0 <= 8 + row - orn.h /\ 8 + row - orn.h + orn.h <= h
          BY <2>2, <2>3, <2>4
        <4>2. /\ start + orn.w + title.w + 24 \in Int /\ 0 <= start + orn.w + title.w + 24
              /\ start + orn.w + title.w + 24 + orn.w <= 528
              /\ start + orn.w + title.w + 24 = start + 44 + title.w
          BY <1>4, <2>2, <2>5, <2>7
        <4>3. Snug(r, LIVE, h)
          BY <1>2, <2>2, <2>4, <4>1, <4>2, AtSnug
        <4>4. QED
          BY <2>2, <2>3, <4>2, <4>3, AtIs
      <3> HIDE DEF p, m, r, q
      <3>4. Disjoint(p, m) /\ Disjoint(m, r) /\ Disjoint(p, r)
        <4>1. p.x + p.w <= m.x /\ m.x + m.w <= r.x /\ p.x + p.w <= r.x
          BY <1>4, <2>5, <3>1, <3>2, <3>3
        <4>2. QED
          BY <4>1, Beside
      <3>5. present => Disjoint(p, q) /\ Disjoint(m, q) /\ Disjoint(r, q)
        <4>1. present => p.y + p.h <= q.y /\ m.y + m.h <= q.y /\ r.y + r.h <= q.y
          BY <2>3, <2>6, <3>1, <3>2, <3>3
        <4>2. QED
          BY <4>1, Below
      <3>6. Header(b) = Canvas(h, <<p, m, r>> \o tail)
        BY <2>1, <2>7 DEF p, m, r
      <3> DEFINE ink == <<p, m, r>> \o tail
      <3>7. ASSUME NEW i \in DOMAIN ink
            PROVE  i \in {1, 2, 3} \/ (i = 4 /\ present)
        <4>1. CASE present
          <5>1. Len(<<p, m, r>> \o <<q>>) = 4 /\ <<p, m, r>> \o <<q>> \in Seq({p, m, r, q})
            OBVIOUS
          <5>2. ink = <<p, m, r>> \o <<q>>
            BY <4>1
          <5>3. DOMAIN ink = 1 .. 4
            BY <5>1, <5>2
          <5>4. QED
            BY <3>7, <4>1, <5>3
        <4>2. CASE ~present
          <5>1. ink = <<p, m, r>>
            BY <4>2
          <5>2. QED
            BY <3>7, <5>1
        <4>3. QED
          BY <4>1, <4>2
      <3>8. ink[1] = p /\ ink[2] = m /\ ink[3] = r /\ (present => ink[4] = q)
        OBVIOUS
      <3>9. \A i \in DOMAIN ink : Snug(ink[i], LIVE, h)
        BY <2>6, <3>1, <3>2, <3>3, <3>7, <3>8
      <3>10. \A k, n \in DOMAIN ink : k # n => Disjoint(ink[k], ink[n])
        <4>1. ASSUME NEW k, NEW n, Disjoint(k, n) PROVE Disjoint(n, k)
          BY <4>1, Zenon DEF Disjoint
        <4>2. QED
          BY <3>4, <3>5, <3>7, <3>8, <4>1
      <3>11. h > 0
        BY <2>3, <2>4
      <3> HIDE DEF ink
      <3>12. Lays(b, Canvas(h, ink)) /\ Whole(Canvas(h, ink))
        BY <1>3, <2>4, <3>9, <3>10, <3>11, LaySnug
      <3>13. QED
        BY <3>6, <3>12 DEF ink
    <2>8. CASE ~(start >= 0)
      <3> DEFINE p == At(title, Placed(title, b.align, 0, 0), 8)
      <3>1. Header(b) = Canvas(h, <<p>> \o tail)
        BY <2>1, <2>8
      <3>2. /\ Placed(title, b.align, 0, 0) \in Int
            /\ 0 <= Placed(title, b.align, 0, 0) /\ Placed(title, b.align, 0, 0) + title.w <= LIVE
        BY <1>1, <1>2, <1>4, PlacedFits
      <3>3. Snug(p, LIVE, h) /\ p.y + p.h = 8 + title.h
        <4>1. 8 + title.h <= h
          BY <1>4, <2>3, <2>4
        <4>2. Snug(p, LIVE, h)
          BY <1>2, <1>4, <2>4, <3>2, <4>1, AtSnug
        <4>3. QED
          BY <4>2, AtIs
      <3>4. present => p.y + p.h <= q.y
        BY <1>4, <2>3, <2>6, <3>3
      <3>5. present => Disjoint(p, q)
        BY <3>4, Below
      <3> HIDE DEF p, q
      <3>6. QED
        BY <1>3, <2>4, <2>6, <3>1, <3>3, <3>5, LayOptional
    <2>9. QED
      BY <2>7, <2>8
  <1>20. QED
    BY <1>1, <1>7, <1>8, <1>9

\* Pieces that may reach beyond the canvas.
LEMMA LayInk ==
    ASSUME NEW b, NEW h \in Nat, h > 0, NEW ink,
           \A i \in DOMAIN ink : /\ IsBox(ink[i]) /\ OnPaper(ink[i], b, Canvas(h, ink))
                                 /\ ink[i].w > 0 /\ ink[i].h > 0,
           TightStep(b) \/ \A i, j \in DOMAIN ink : i # j => Disjoint(ink[i], ink[j])
    PROVE  Lays(b, Canvas(h, ink)) /\ Whole(Canvas(h, ink))
  <1> DEFINE cv == Canvas(h, ink)
  <1>1. cv.w = LIVE /\ cv.h = h /\ cv.ink = ink /\ LIVE \in {LIVE, HEAD}
    BY DEF Canvas
  <1>2. \A i \in DOMAIN ink : /\ IsBox(ink[i]) /\ OnPaper(ink[i], b, cv)
                              /\ ink[i].w > 0 /\ ink[i].h > 0
    OBVIOUS
  <1> HIDE DEF cv
  <1>3. Lays(b, cv)
    BY <1>1, <1>2 DEF Lays
  <1>4. \A i \in DOMAIN ink : ~(ink[i].w <= 0) /\ ~(ink[i].h <= 0)
    BY <1>2 DEF IsBox
  <1>5. Whole(cv)
    BY <1>1, <1>4 DEF Whole, Fails
  <1>6. QED
    BY <1>3, <1>5 DEF cv

\* The measures of the paper.
LEMMA PaperIs == LIVE = 528 /\ HEAD = 576 /\ LINE = 26 /\ GUTTER = 24
  BY DEF LIVE, HEAD, GUTTER, LINE

\* A bitmap that is fitted to the paper.
LEMMA Fitted ==
    ASSUME NEW img \in Bitmaps, NEW max \in Int, max > 0
    PROVE  /\ Fit(img, max).w \in Int /\ Fit(img, max).w > 0 /\ Fit(img, max).w <= max
           /\ Fit(img, max).h \in Int /\ Fit(img, max).h > 0 /\ Fit(img, max).h <= img.h
           /\ img.w \in Int /\ img.w > 0 /\ img.h \in Int /\ img.h > 0 /\ Fit(img, max).w <= img.w
  <1>1. img.w \in Nat /\ img.h \in Nat /\ img.w > 0 /\ img.h > 0
    BY DEF Bitmaps
  <1>2. QED
    BY <1>1, FitIs

\* section_title
LEMMA SectionTitleLays ==
    ASSUME NEW b \in SectionTitleBlock, FontsGive(b)
    PROVE  Lays(b, SectionTitle(b)) /\ Whole(SectionTitle(b))
  <1> DEFINE img == Fit(b.title, LIVE)
             band == Larger(36, img.h + 12)
             inTitle == Clip0((36 - img.h) \div 2)
  <1>1. /\ b.type = "section_title" /\ b.align \in Aligns /\ b.title \in Bitmaps /\ b.title.h <= 53
        /\ b.style \in {"underline", "inverse", "rule_above"}
    BY DEF SectionTitleBlock, FontsGive
  <1>2. LIVE = 528
    BY PaperIs
  <1>3. Excess(b) = 0 /\ Overhang(b) = IF b.style = "inverse" THEN 12 ELSE 0
    BY <1>1, NoExcess DEF Overhang
  <1>4. /\ img.w \in Int /\ img.w > 0 /\ img.w <= 528
        /\ img.h \in Int /\ img.h > 0 /\ img.h <= 53
    BY <1>1, <1>2, Fitted
  <1>5. SectionTitle(b) =
          CASE b.style = "underline" -> Canvas(57, <<At(img, Placed(img, b.align, 0, 0), 4 + inTitle)>>)
            [] b.style = "inverse" ->
                 Canvas(4 + band + 17, <<At(img, Placed(img, b.align, 12, 12), 4 + ((band - img.h) \div 2))>>)
            [] b.style = "rule_above" -> Canvas(66, <<At(img, Placed(img, b.align, 0, 0), 13 + inTitle)>>)
    BY DEF SectionTitle
  <1> HIDE DEF img
  <1>6. inTitle \in Int /\ 0 <= inTitle /\ inTitle + img.h <= 53
    <2>1. (36 - img.h) \div 2 \in Int
      BY <1>4
    <2>2. QED
      BY <1>4, <2>1, ClipIs
  <1>7. band \in Int /\ 36 <= band /\ img.h + 12 <= band
    <2>1. 36 \in Int /\ img.h + 12 \in Int
      BY <1>4
    <2>2. QED
      BY <2>1, LargerIs
  <1> HIDE DEF band, inTitle
  <1>8. /\ Placed(img, b.align, 0, 0) \in Int /\ 0 <= Placed(img, b.align, 0, 0)
        /\ Placed(img, b.align, 0, 0) + img.w <= LIVE
    BY <1>1, <1>2, <1>4, PlacedFits
  <1>9. CASE b.style = "underline"
    <2>1. Snug(At(img, Placed(img, b.align, 0, 0), 4 + inTitle), LIVE, 57)
      BY <1>2, <1>4, <1>6, <1>8, AtSnug
    <2>2. SectionTitle(b) = Canvas(57, <<At(img, Placed(img, b.align, 0, 0), 4 + inTitle)>>)
      BY <1>5, <1>9
    <2>3. 57 \in Nat /\ Overhang(b) \in Nat /\ Excess(b) \in Nat
      BY <1>3, <1>9
    <2>4. QED
      BY <2>1, <2>2, <2>3, LayOne
  <1>10. CASE b.style = "rule_above"
    <2>1. Snug(At(img, Placed(img, b.align, 0, 0), 13 + inTitle), LIVE, 66)
      BY <1>2, <1>4, <1>6, <1>8, AtSnug
    <2>2. SectionTitle(b) = Canvas(66, <<At(img, Placed(img, b.align, 0, 0), 13 + inTitle)>>)
      BY <1>5, <1>10
    <2>3. 66 \in Nat /\ Overhang(b) \in Nat /\ Excess(b) \in Nat
      BY <1>3, <1>10
    <2>4. QED
      BY <2>1, <2>2, <2>3, LayOne
  <1>11. CASE b.style = "inverse"
    <2> DEFINE x == Placed(img, b.align, 12, 12)
               y == 4 + ((band - img.h) \div 2)
               h == 4 + band + 17
               ink == <<At(img, x, y)>>
    <2>1. x \in Int /\ 0 - 12 <= x /\ x + img.w <= 540
      <3>1. CASE b.align = "center"
        <4>1. Placed(img, b.align, 12, 12) = Centered(img)
          BY <3>1 DEF Placed
        <4>2. QED
          BY <4>1, <1>2, <1>4, CenteredIs
      <3>2. CASE b.align # "center"
        BY <1>1, <1>2, <1>4, <3>2 DEF Placed, Aligns
      <3>3. QED
        BY <3>1, <3>2
    <2>2. h \in Nat /\ h > 0 /\ y \in Int /\ 0 <= y /\ y + img.h <= h
      BY <1>4, <1>7
    <2>3. SectionTitle(b) = Canvas(h, ink)
      BY <1>5, <1>11
    <2>4. Canvas(h, ink).w = 528 /\ Canvas(h, ink).h = h
      BY <1>2 DEF Canvas
    <2> HIDE DEF x, y, h
    <2>5. IsBox(At(img, x, y)) /\ OnPaper(At(img, x, y), b, Canvas(h, ink))
      BY <1>3, <1>4, <1>11, <2>1, <2>2, <2>4, AtIs DEF IsBox, OnPaper
    <2>6. DOMAIN ink = {1} /\ ink[1] = At(img, x, y)
      OBVIOUS
    <2>7. At(img, x, y).w > 0 /\ At(img, x, y).h > 0
      BY <1>4, AtIs
    <2> HIDE DEF ink
    <2>8. /\ \A i \in DOMAIN ink : /\ IsBox(ink[i]) /\ OnPaper(ink[i], b, Canvas(h, ink))
                                   /\ ink[i].w > 0 /\ ink[i].h > 0
          /\ \A i, j \in DOMAIN ink : i = j
      BY <2>5, <2>6, <2>7
    <2>9. Lays(b, Canvas(h, ink)) /\ Whole(Canvas(h, ink))
      BY <2>2, <2>8, LayInk
    <2>10. QED
      BY <2>3, <2>9
  <1>12. QED
    BY <1>1, <1>9, <1>10, <1>11

\* large_text
LEMMA LargeTextLays ==
    ASSUME NEW b \in LargeTextBlock
    PROVE  Lays(b, LargeText(b)) /\ Whole(LargeText(b))
  <1> DEFINE img == Fit(b.title, LIVE)
             p == At(img, Placed(img, b.align, 0, 0), 4)
  <1>1. b.type = "large_text" /\ b.align \in Aligns /\ b.title \in Bitmaps
    BY DEF LargeTextBlock
  <1>2. Overhang(b) \in Nat /\ Excess(b) \in Nat
    BY <1>1, NoExcess
  <1>3. img.w \in Int /\ img.w > 0 /\ img.w <= 528 /\ img.h \in Int /\ img.h > 0
    BY <1>1, PaperIs, Fitted
  <1>4. LargeText(b) = Canvas(img.h + 8, <<p>>)
    BY DEF LargeText
  <1> HIDE DEF img
  <1>5. /\ Placed(img, b.align, 0, 0) \in Int /\ 0 <= Placed(img, b.align, 0, 0)
        /\ Placed(img, b.align, 0, 0) + img.w <= LIVE
    BY <1>1, <1>3, PaperIs, PlacedFits
  <1>6. Snug(p, LIVE, img.h + 8)
    BY <1>3, <1>5, PaperIs, AtSnug
  <1>7. img.h + 8 \in Nat
    BY <1>3
  <1>8. QED
    BY <1>2, <1>4, <1>6, <1>7, LayOne

\* pull_quote
LEMMA PullQuoteLays ==
    ASSUME NEW b \in PullQuoteBlock
    PROVE  Lays(b, PullQuote(b)) /\ Whole(PullQuote(b))
  <1> DEFINE quote == Fit(b.title, LIVE - 20)
             sub == Fit(b.sub, LIVE - 20)
             present == b.sub # None
             h == quote.h + 12 + Band(b.sub, LIVE - 20, 6)
             p == At(quote, 20, 6)
             q == At(sub, 20, quote.h + 12)
  <1>1. b.type = "pull_quote" /\ b.title \in Bitmaps /\ (present => b.sub \in Bitmaps)
    BY DEF PullQuoteBlock, Caption
  <1>2. Overhang(b) \in Nat /\ Excess(b) \in Nat
    BY <1>1, NoExcess
  <1>3. quote.w \in Int /\ quote.w > 0 /\ quote.w <= 508 /\ quote.h \in Int /\ quote.h > 0
    BY <1>1, PaperIs, Fitted
  <1>4. present => sub.w \in Int /\ sub.w > 0 /\ sub.w <= 508 /\ sub.h \in Int /\ sub.h > 0
    BY <1>1, PaperIs, Fitted
  <1>5. PullQuote(b) = Canvas(h, <<p>> \o (IF present THEN <<q>> ELSE <<>>))
    BY DEF PullQuote, Boxed
  <1>6. Band(b.sub, LIVE - 20, 6) = IF present THEN sub.h + 6 ELSE 0
    BY DEF Band
  <1> HIDE DEF quote, sub
  <1>7. h \in Nat /\ h >= quote.h + 12 /\ (present => h = quote.h + 18 + sub.h)
    BY <1>3, <1>4, <1>6
  <1> HIDE DEF h
  <1>8. Snug(p, LIVE, h)
    BY <1>3, <1>7, PaperIs, AtSnug
  <1>9. present => Snug(q, LIVE, h)
    BY <1>3, <1>4, <1>7, PaperIs, AtSnug
  <1>10. present => p.y + p.h <= q.y
    BY <1>3, <1>4, AtIs
  <1> HIDE DEF p, q
  <1>11. present => Disjoint(p, q)
    BY <1>10, Below
  <1>12. QED
    BY <1>2, <1>5, <1>7, <1>8, <1>9, <1>11, LayOptional

\* An optional label, and a bar.
LEMMA LayLabelled ==
    ASSUME NEW b, Overhang(b) \in Nat, Excess(b) \in Nat, NEW h \in Nat, NEW present \in BOOLEAN,
           NEW p, Snug(p, LIVE, h), NEW q, present => Snug(q, LIVE, h) /\ Disjoint(q, p),
           NEW ink, ink = (IF present THEN <<q>> ELSE <<>>) \o <<p>>
    PROVE  Lays(b, Canvas(h, ink)) /\ Whole(Canvas(h, ink))
  <1>1. CASE present
    <2>1. ink = <<q, p>>
      BY <1>1, PairIs
    <2>2. QED
      BY <1>1, <2>1, LayTwo
  <1>2. CASE ~present
    <2>1. <<>> \o <<p>> = <<p>>
      OBVIOUS
    <2>2. ink = <<p>>
      BY <1>2, <2>1
    <2>3. QED
      BY <1>2, <2>2, LayOne
  <1>3. QED
    BY <1>1, <1>2

\* The label above a bar, if there is one.
LEMMA LabelIs ==
    ASSUME NEW b, b.sub \in Caption, NEW pad \in Nat, NEW rest \in Nat, rest > 0
    PROVE  /\ LabelBand(b, pad) \in Nat
           /\ Label(b) = IF b.sub # None THEN <<At(Fit(b.sub, LIVE), 0, 0)>> ELSE <<>>
           /\ b.sub # None => /\ Snug(At(Fit(b.sub, LIVE), 0, 0), LIVE, LabelBand(b, pad) + rest)
                              /\ Fit(b.sub, LIVE).h <= LabelBand(b, pad)
  <1> DEFINE img == Fit(b.sub, LIVE)
  <1>1. b.sub # None => b.sub \in Bitmaps
    BY DEF Caption
  <1>2. b.sub # None => img.w \in Int /\ img.w > 0 /\ img.w <= 528 /\ img.h \in Int /\ img.h > 0
    BY <1>1, PaperIs, Fitted
  <1>3. LabelBand(b, pad) = IF b.sub = None THEN 0 ELSE Larger(26, img.h) + pad
    BY PaperIs DEF LabelBand
  <1>4. Label(b) = IF b.sub # None THEN <<At(img, 0, 0)>> ELSE <<>>
    BY DEF Label, Boxed, Zero
  <1> HIDE DEF img
  <1>5. b.sub # None => /\ Larger(26, img.h) \in Int /\ 26 <= Larger(26, img.h)
                        /\ img.h <= Larger(26, img.h)
    BY <1>2, 26 \in Int, LargerIs
  <1>6. LabelBand(b, pad) \in Nat /\ (b.sub # None => img.h <= LabelBand(b, pad))
    BY <1>2, <1>3, <1>5
  <1>7. b.sub # None => Snug(At(img, 0, 0), LIVE, LabelBand(b, pad) + rest)
    <2> SUFFICES ASSUME b.sub # None PROVE Snug(At(img, 0, 0), LIVE, LabelBand(b, pad) + rest)
      OBVIOUS
    <2>1. /\ LabelBand(b, pad) + rest \in Int /\ 0 + img.h <= LabelBand(b, pad) + rest
          /\ 0 + img.w <= LIVE /\ LIVE \in Int /\ 0 <= 0
      BY <1>2, <1>6, PaperIs
    <2>2. QED
      BY <1>2, <2>1, AtSnug
  <1>8. QED
    BY <1>4, <1>6, <1>7 DEF img

\* progress_bar, tear_here
LEMMA LabelledLays ==
    ASSUME NEW b \in LabelledBlock
    PROVE  /\ Lays(b, ProgressBar(b)) /\ Whole(ProgressBar(b))
           /\ Lays(b, TearHere(b)) /\ Whole(TearHere(b))
  <1> DEFINE present == b.sub # None
             top == LabelBand(b, 4)
             q == At(Fit(b.sub, LIVE), 0, 0)
             bar == [x |-> 0, y |-> top, w |-> LIVE, h |-> 16]
             cut == [x |-> 0, y |-> top + 8, w |-> LIVE, h |-> 1]
  <1>1. b.type \in {"progress_bar", "tear_here"} /\ b.sub \in Caption
    BY DEF LabelledBlock
  <1>2. Overhang(b) \in Nat /\ Excess(b) \in Nat
    BY <1>1, NoExcess
  <1>3. /\ top \in Nat /\ Label(b) = IF present THEN <<q>> ELSE <<>>
        /\ present => Snug(q, LIVE, top + 16) /\ Fit(b.sub, LIVE).h <= top
    BY <1>1, LabelIs
  <1>4. /\ ProgressBar(b) = Canvas(top + 16, Label(b) \o <<bar>>)
        /\ TearHere(b) = Canvas(top + 16, Label(b) \o <<cut>>)
    BY DEF ProgressBar, TearHere
  <1> HIDE DEF top
  <1>5. Snug(bar, LIVE, top + 16) /\ Snug(cut, LIVE, top + 16)
    BY <1>3, PaperIs DEF Snug, IsBox
  <1>6. present => q.y + q.h <= top /\ top <= cut.y /\ q.y \in Int /\ q.h \in Int
    BY <1>3, AtIs DEF Snug, IsBox
  <1>7. bar.y = top /\ cut.y = top + 8
    OBVIOUS
  <1> HIDE DEF q, bar, cut
  <1>8. present => Disjoint(q, bar) /\ Disjoint(q, cut)
    <2>1. present => q.y + q.h <= bar.y /\ q.y + q.h <= cut.y
      BY <1>3, <1>6, <1>7
    <2>2. QED
      BY <2>1, Below
  <1>9. top + 16 \in Nat
    BY <1>3
  <1>10. QED
    BY <1>2, <1>3, <1>4, <1>5, <1>8, <1>9, LayLabelled

\* rule, gradient_band, and the bars of a barcode
LEMMA FilledLays ==
    ASSUME NEW b, b.type \in {"rule", "gradient_band", "barcode"}, NEW h \in Nat, h > 0
    PROVE  Lays(b, Filled(h)) /\ Whole(Filled(h))
  <1> DEFINE p == [x |-> 0, y |-> 0, w |-> LIVE, h |-> h]
  <1>1. Overhang(b) \in Nat /\ Excess(b) \in Nat
    BY NoExcess
  <1>2. Snug(p, LIVE, h)
    BY PaperIs DEF Snug, IsBox
  <1>3. Filled(h) = Canvas(h, <<p>>)
    BY DEF Filled
  <1>4. QED
    BY <1>1, <1>2, <1>3, LayOne

\* An image scaled to a width: nothing is left only of a flat one.
Flat(img, w) ==
    /\ img.h * w <= img.w
    /\ img.h * w < img.w \/ <<img.h, w, img.w>> \in Truncated

LEMMA ScaledIs ==
    ASSUME NEW img \in Bitmaps, NEW w \in Nat, w > 0
    PROVE  ScaledH(img, w) \in Nat /\ (ScaledH(img, w) = 0 => Flat(img, w))
  <1> DEFINE v == img.w  h == img.h
  <1>1. v \in Nat /\ h \in Nat /\ v > 0 /\ h > 0
    BY DEF Bitmaps
  <1>2. CASE v = w
    BY <1>1, <1>2 DEF ScaledH
  <1>3. CASE v # w
    <2> DEFINE q == Scaled(h, w, v)
               a == h * w
               t == <<h, w, v>>
    <2>1. ScaledH(img, w) = q
      BY <1>3 DEF ScaledH
    <2>2. q \in Int /\ a <= (q + 1) * v /\ (a = (q + 1) * v => t \in Truncated)
      BY <1>1, ScaledNumber
    <2>3. a \in Nat /\ a > 0
      BY <1>1
    <2> HIDE DEF q, a, t
    <2>4. q >= 0
      <3>1. ASSUME q + 1 <= 0 PROVE FALSE
        <4>1. (q + 1) * v <= 0
          BY <1>1, <2>2, <3>1
        <4>2. (q + 1) * v \in Int
          BY <1>1, <2>2
        <4>3. QED
          BY <2>2, <2>3, <4>1, <4>2
      <3>2. QED
        BY <2>2, <3>1
    <2>5. q = 0 => a <= v /\ (a < v \/ t \in Truncated)
      BY <1>1, <2>2, <2>3
    <2>6. QED
      BY <2>1, <2>2, <2>4, <2>5 DEF a, t, Flat
  <1>4. QED
    BY <1>2, <1>3

\* barcode
LEMMA BarcodeLays ==
    ASSUME NEW b \in BarcodeBlock
    PROVE  Lays(b, Barcode(b)) /\ Whole(Barcode(b))
  <1>1. b.type = "barcode" /\ b.img \in Bitmaps
    BY DEF BarcodeBlock
  <1>2. ScaledH(b.img, LIVE) \in Nat
    BY <1>1, PaperIs, ScaledIs
  <1>3. Larger(1, ScaledH(b.img, LIVE)) \in Nat /\ Larger(1, ScaledH(b.img, LIVE)) > 0
    <2> DEFINE n == ScaledH(b.img, LIVE)
    <2> HIDE DEF n
    <2>1. n \in Int /\ 1 \in Int
      BY <1>2 DEF n
    <2>2. Larger(1, n) \in Int /\ 1 <= Larger(1, n)
      BY <2>1, LargerIs
    <2>3. QED
      BY <2>2 DEF n
  <1>4. QED
    BY <1>1, <1>3, FilledLays DEF Barcode

\* ornament
LEMMA OrnamentLays ==
    ASSUME NEW b \in OrnamentBlock
    PROVE  Lays(b, Ornament(b)) /\ Whole(Ornament(b))
  <1> DEFINE img == Fit(b.title, LIVE)
             p == At(img, Clip0(Centered(img)), 4)
  <1>1. b.type = "ornament" /\ b.title \in Bitmaps
    BY DEF OrnamentBlock
  <1>2. Overhang(b) \in Nat /\ Excess(b) \in Nat
    BY <1>1, NoExcess
  <1>3. img.w \in Int /\ img.w > 0 /\ img.w <= 528 /\ img.h \in Int /\ img.h > 0
    BY <1>1, PaperIs, Fitted
  <1>4. Ornament(b) = Canvas(img.h + 8, <<p>>)
    BY DEF Ornament
  <1> HIDE DEF img
  <1>5. Centered(img) \in Int /\ 0 <= Centered(img) /\ Centered(img) + img.w <= 528
    BY <1>3, PaperIs, CenteredIs
  <1>6. Clip0(Centered(img)) = Centered(img)
    BY <1>5, ClipIs
  <1>7. Snug(p, LIVE, img.h + 8)
    BY <1>3, <1>5, <1>6, PaperIs, AtSnug
  <1>8. img.h + 8 \in Nat
    BY <1>3
  <1>9. QED
    BY <1>2, <1>4, <1>7, <1>8, LayOne

\* qr
LEMMA QrLays ==
    ASSUME NEW b \in QrBlock
    PROVE  Lays(b, Qr(b)) /\ Whole(Qr(b))
  <1> DEFINE img == [w |-> QrSide(b.size), h |-> QrSide(b.size)]
             sub == Fit(b.sub, LIVE)
             present == b.sub # None
             h == img.h + 4 + Band(b.sub, LIVE, 4)
             p == At(img, Centered(img), 2)
             q == At(sub, Centered(sub), img.h + 4)
  <1>1. b.type = "qr" /\ b.size \in {"sm", "md", "lg"} /\ (present => b.sub \in Bitmaps)
    BY DEF QrBlock, Caption, Sizes
  <1>2. Overhang(b) \in Nat /\ Excess(b) \in Nat
    BY <1>1, NoExcess
  <1>3. img.w \in Int /\ img.w > 0 /\ img.w <= 528 /\ img.h \in Int /\ img.h > 0
    BY <1>1 DEF QrSide
  <1>4. present => sub.w \in Int /\ sub.w > 0 /\ sub.w <= 528 /\ sub.h \in Int /\ sub.h > 0
    BY <1>1, PaperIs, Fitted
  <1>5. Qr(b) = Canvas(h, <<p>> \o (IF present THEN <<q>> ELSE <<>>))
    BY DEF Qr, Boxed
  <1>6. Band(b.sub, LIVE, 4) = IF present THEN sub.h + 4 ELSE 0
    BY DEF Band
  <1> HIDE DEF img, sub
  <1>7. h \in Nat /\ h >= img.h + 4 /\ (present => h = img.h + 8 + sub.h)
    BY <1>3, <1>4, <1>6
  <1> HIDE DEF h
  <1>8. Centered(img) \in Int /\ 0 <= Centered(img) /\ Centered(img) + img.w <= 528
    BY <1>3, PaperIs, CenteredIs
  <1>9. present => Centered(sub) \in Int /\ 0 <= Centered(sub) /\ Centered(sub) + sub.w <= 528
    BY <1>4, PaperIs, CenteredIs
  <1>10. Snug(p, LIVE, h)
    BY <1>3, <1>7, <1>8, PaperIs, AtSnug
  <1>11. present => Snug(q, LIVE, h)
    BY <1>3, <1>4, <1>7, <1>9, PaperIs, AtSnug
  <1>12. present => p.y + p.h <= q.y
    BY <1>3, <1>4, AtIs
  <1> HIDE DEF p, q
  <1>13. present => Disjoint(p, q)
    BY <1>12, Below
  <1>14. QED
    BY <1>2, <1>5, <1>7, <1>10, <1>11, <1>13, LayOptional

\* ascii_art
LEMMA AsciiArtLays ==
    ASSUME NEW b \in AsciiArtBlock, b.imgs # <<>>
    PROVE  Lays(b, AsciiArt(b)) /\ Whole(AsciiArt(b))
  <1> DEFINE h == 2 * Len(b.imgs) * (IF b.font = "small" THEN 8 ELSE 16)
             p == [x |-> 0, y |-> 2, w |-> LIVE, h |-> h]
  <1>1. b.type = "ascii_art" /\ b.imgs \in Seq(Bitmaps)
    BY DEF AsciiArtBlock
  <1>2. Overhang(b) \in Nat /\ Excess(b) \in Nat
    BY <1>1, NoExcess
  <1>3. Len(b.imgs) \in Nat /\ Len(b.imgs) > 0
    BY <1>1
  <1>4. h \in Nat /\ h > 0 /\ h + 4 \in Nat
    <2>1. \A n \in Nat : n > 0 => 2 * n * 8 \in Nat /\ 2 * n * 8 > 0 /\ 2 * n * 16 \in Nat /\ 2 * n * 16 > 0
      OBVIOUS
    <2>2. h = 2 * Len(b.imgs) * 8 \/ h = 2 * Len(b.imgs) * 16
      OBVIOUS
    <2> HIDE DEF h
    <2>3. h \in Nat /\ h > 0
      BY <1>3, <2>1, <2>2, Zenon
    <2>4. QED
      BY <2>3
  <1>5. AsciiArt(b) = Canvas(h + 4, <<p>>)
    BY DEF AsciiArt
  <1> HIDE DEF h
  <1>6. Snug(p, LIVE, h + 4)
    BY <1>4, PaperIs DEF Snug, IsBox
  <1>7. QED
    BY <1>2, <1>4, <1>5, <1>6, LayOne

\* spacer, feed, cut
LEMMA FlowLays ==
    ASSUME NEW b, NEW ls
    PROVE  /\ b \in SpacerBlock => Lays(b, Drawn(b, ls)) /\ Whole(Drawn(b, ls))
           /\ b \in FeedBlock => Lays(b, Drawn(b, ls)) /\ Whole(Drawn(b, ls))
           /\ b \in CutBlock => Lays(b, Drawn(b, ls)) /\ Whole(Drawn(b, ls)) /\ Drawn(b, ls).h = 1
  <1>1. ASSUME b \in SpacerBlock PROVE Drawn(b, ls) = Canvas(26 * b.lines, <<>>) /\ b.lines \in 1 .. 10
    BY <1>1, PaperIs DEF SpacerBlock, Drawn
  <1>2. ASSUME b \in FeedBlock PROVE Drawn(b, ls) = Canvas(14 * b.lines, <<>>) /\ b.lines \in 1 .. 20
    BY <1>2 DEF FeedBlock, Drawn
  <1>3. ASSUME b \in CutBlock PROVE Drawn(b, ls) = Canvas(1, <<>>) /\ Drawn(b, ls).h = 1
    BY <1>3 DEF CutBlock, Drawn, Canvas
  <1>4. \A n \in Nat : n > 0 => 26 * n \in Nat /\ 26 * n > 0 /\ 14 * n \in Nat /\ 14 * n > 0
    OBVIOUS
  <1>5. \A h \in Nat : h > 0 => Lays(b, Canvas(h, <<>>)) /\ Whole(Canvas(h, <<>>))
    BY LayNone
  <1>6. QED
    BY <1>1, <1>2, <1>3, <1>4, <1>5, SMTT(30)

-----------------------------------------------------------------------------
(* Blocks made of rows.                                                     *)

\* The i-th of some rows.
LEMMA RowIs ==
    ASSUME NEW n \in Nat, NEW i \in 1 .. n, NEW step \in Nat
    PROVE  /\ (i - 1) * step \in Nat /\ (i - 1) * step + step <= step * n /\ step * n \in Nat
           /\ \A j \in 1 .. n : i < j => (i - 1) * step + step <= (j - 1) * step
  <1>1. \A a, c \in Nat : a <= c => a * step \in Nat /\ c * step \in Nat /\ a * step <= c * step
    OBVIOUS
  <1>2. i - 1 \in Nat /\ i \in Nat /\ i <= n /\ i - 1 <= i
    OBVIOUS
  <1>3. (i - 1) * step + step = i * step /\ step * n = n * step
    BY <1>2
  <1>4. (i - 1) * step \in Nat /\ i * step <= n * step /\ n * step \in Nat
    BY <1>1, <1>2
  <1>5. ASSUME NEW j \in 1 .. n, i < j PROVE i * step <= (j - 1) * step
    <2>1. j - 1 \in Nat /\ i <= j - 1
      BY <1>5
    <2>2. QED
      BY <1>1, <1>2, <2>1
  <1>6. QED
    BY <1>3, <1>4, <1>5

\* Rows do not meet.
LEMMA RowsApart ==
    ASSUME NEW n \in Nat, NEW step \in Nat, NEW top \in Int, NEW ink, DOMAIN ink = 1 .. n,
           \A i \in 1 .. n : /\ ink[i].y = top + (i - 1) * step
                             /\ ink[i].h \in Int /\ ink[i].h <= step
    PROVE  \A i, j \in DOMAIN ink : i # j => Disjoint(ink[i], ink[j])
  <1>1. ASSUME NEW i \in 1 .. n, NEW j \in 1 .. n, i < j
        PROVE  ink[i].y + ink[i].h <= ink[j].y
    <2> DEFINE a == (i - 1) * step  c == (j - 1) * step
    <2>1. a \in Nat /\ c \in Nat /\ a + step <= c
      BY <1>1, RowIs
    <2>2. ink[i].y = top + a /\ ink[j].y = top + c /\ ink[i].h \in Int /\ ink[i].h <= step
      OBVIOUS
    <2> HIDE DEF a, c
    <2>3. QED
      BY <2>1, <2>2
  <1>2. ASSUME NEW i \in 1 .. n, NEW j \in 1 .. n, i # j
        PROVE  Disjoint(ink[i], ink[j])
    <2>1. CASE i < j
      BY <2>1, <1>1, Below
    <2>2. CASE ~(i < j)
      <3>1. j < i
        BY <1>2, <2>2
      <3>2. Disjoint(ink[j], ink[i])
        BY <3>1, <1>1, Below
      <3>3. QED
        BY <3>2, Zenon DEF Disjoint
    <2>3. QED
      BY <2>1, <2>2
  <1>3. QED
    BY <1>2

\* Lines that are fitted to a width.
LEMMA FittedLines ==
    ASSUME NEW ls \in Seq(Bitmaps), NEW max \in Int, max > 0
    PROVE  /\ Len(ls) \in Nat /\ DOMAIN ls = 1 .. Len(ls) /\ DOMAIN FitAll(ls, max) = 1 .. Len(ls)
           /\ \A i \in 1 .. Len(ls) :
                /\ FitAll(ls, max)[i] = Fit(ls[i], max) /\ ls[i] \in Bitmaps
                /\ Fit(ls[i], max).w \in Int /\ Fit(ls[i], max).w > 0 /\ Fit(ls[i], max).w <= max
                /\ Fit(ls[i], max).h \in Int /\ Fit(ls[i], max).h > 0 /\ Fit(ls[i], max).h <= ls[i].h
                /\ ls[i].h \in Int
  <1>1. \A i \in 1 .. Len(ls) : ls[i] \in Bitmaps
    BY ElementsOf
  <1>2. QED
    BY <1>1, Fitted DEF FitAll

\* Rows from top on, each within its step.
LEMMA RowsSnug ==
    ASSUME NEW n \in Nat, NEW step \in Nat, NEW top \in Nat, NEW h \in Int, top + step * n <= h,
           NEW ink, DOMAIN ink = 1 .. n,
           \A i \in 1 .. n : /\ ink[i].x \in Int /\ ink[i].w \in Int /\ ink[i].h \in Int
                             /\ 0 <= ink[i].x /\ ink[i].x + ink[i].w <= LIVE
                             /\ ink[i].w > 0 /\ ink[i].h > 0 /\ ink[i].h <= step
                             /\ ink[i].y = top + (i - 1) * step
    PROVE  /\ \A i \in 1 .. n : Snug(ink[i], LIVE, h) /\ ink[i].y + ink[i].h <= top + step * n
           /\ \A i, j \in DOMAIN ink : i # j => Disjoint(ink[i], ink[j])
  <1>1. ASSUME NEW i \in 1 .. n
        PROVE  Snug(ink[i], LIVE, h) /\ ink[i].y + ink[i].h <= top + step * n
    <2> DEFINE a == (i - 1) * step  e == step * n
    <2>1. a \in Nat /\ e \in Nat /\ a + step <= e
      BY RowIs
    <2>2. ink[i].y = top + a /\ top + e <= h
      OBVIOUS
    <2> HIDE DEF a, e
    <2>3. ink[i].y \in Int /\ 0 <= ink[i].y /\ ink[i].y + ink[i].h <= top + e /\ ink[i].y + ink[i].h <= h
      BY <2>1, <2>2
    <2>4. Snug(ink[i], LIVE, h)
      BY <2>3 DEF Snug, IsBox
    <2>5. QED
      BY <2>3, <2>4 DEF e
  <1>2. \A i \in 1 .. n : /\ ink[i].y = top + (i - 1) * step
                          /\ ink[i].h \in Int /\ ink[i].h <= step
    OBVIOUS
  <1>3. \A i, j \in DOMAIN ink : i # j => Disjoint(ink[i], ink[j])
    BY <1>2, top \in Int, RowsApart
  <1>4. QED
    BY <1>1, <1>3

\* The tallest of some lines.
LEMMA TallestIs ==
    ASSUME NEW n \in Nat, n > 0, NEW imgs, DOMAIN imgs = 1 .. n, \A i \in 1 .. n : imgs[i].h \in Int
    PROVE  /\ Tallest(imgs) \in Int /\ \A i \in 1 .. n : imgs[i].h <= Tallest(imgs)
           /\ \E i \in 1 .. n : Tallest(imgs) = imgs[i].h
  <1> DEFINE f == [i \in 1 .. n |-> imgs[i].h]
  <1>1. Tallest(imgs) = Max({f[i] : i \in 1 .. n})
    <2>1. {f[i] : i \in 1 .. n} = {imgs[i].h : i \in DOMAIN imgs}
      OBVIOUS
    <2>2. QED
      BY <2>1, Zenon DEF Tallest
  <1>2. (1 .. n) \in SUBSET (1 .. n) /\ 1 .. n # {} /\ \A i \in 1 .. n : f[i] \in Int
    <2>1. 1 \in 1 .. n
      OBVIOUS
    <2>2. QED
      BY <2>1
  <1>3. /\ \E m \in 1 .. n : Max({f[i] : i \in 1 .. n}) = f[m]
        /\ \A i \in 1 .. n : f[i] <= Max({f[i_1] : i_1 \in 1 .. n})
    <2> HIDE DEF f
    <2>1. QED
      BY <1>2, MaxIs
  <1>4. QED
    BY <1>1, <1>3

\* paragraph
LEMMA ParagraphLays ==
    ASSUME NEW b \in ParagraphBlock, NEW ls \in Seq(Bitmaps), LowLines(ls, LINE)
    PROVE  Lays(b, Paragraph(b, ls)) /\ Whole(Paragraph(b, ls))
  <1> DEFINE n == Len(ls)
             imgs == FitAll(ls, LIVE)
             ink == [i \in DOMAIN imgs |-> At(imgs[i], Placed(imgs[i], b.align, 0, 0), 0 + (i - 1) * LINE)]
             h == LINE * n + 4
  <1>1. b.type = "paragraph" /\ b.align \in Aligns /\ LIVE \in Int /\ LIVE > 0 /\ LINE = 26
    BY PaperIs DEF ParagraphBlock
  <1>2. Overhang(b) \in Nat /\ Excess(b) \in Nat
    BY <1>1, NoExcess
  <1>3. n \in Nat /\ DOMAIN imgs = 1 .. n /\ h \in Nat /\ h > 0 /\ 0 + LINE * n <= h
    BY <1>1, FittedLines
  <1>4. \A i \in 1 .. n : /\ imgs[i].w \in Int /\ imgs[i].w > 0 /\ imgs[i].w <= LIVE
                          /\ imgs[i].h \in Int /\ imgs[i].h > 0 /\ imgs[i].h <= LINE
    <2>1. \A i \in 1 .. n : /\ imgs[i] = Fit(ls[i], LIVE) /\ ls[i].h \in Int
                            /\ imgs[i].h \in Int /\ imgs[i].h <= ls[i].h
      BY <1>1, FittedLines
    <2>2. \A i \in 1 .. n : ls[i].h <= LINE
      BY DEF LowLines
    <2>3. \A i \in 1 .. n : imgs[i].h <= LINE
      BY <1>1, <2>1, <2>2
    <2>4. QED
      BY <1>1, <2>3, FittedLines
  <1>5. Paragraph(b, ls) = Canvas(h, ink)
    BY DEF Paragraph, Rows
  <1> HIDE DEF imgs
  <1>6. \A i \in 1 .. n : /\ Placed(imgs[i], b.align, 0, 0) \in Int /\ 0 <= Placed(imgs[i], b.align, 0, 0)
                          /\ Placed(imgs[i], b.align, 0, 0) + imgs[i].w <= LIVE
    BY <1>1, <1>4, PlacedFits, SMTT(30)
  <1>7. \A i \in 1 .. n : ink[i] = At(imgs[i], Placed(imgs[i], b.align, 0, 0), 0 + (i - 1) * LINE)
    BY <1>3
  <1>8. DOMAIN ink = 1 .. n
    BY <1>3
  <1> HIDE DEF ink
  <1>9. \A i \in 1 .. n : /\ ink[i].x \in Int /\ ink[i].w \in Int /\ ink[i].h \in Int
                          /\ 0 <= ink[i].x /\ ink[i].x + ink[i].w <= LIVE
                          /\ ink[i].w > 0 /\ ink[i].h > 0 /\ ink[i].h <= LINE
                          /\ ink[i].y = 0 + (i - 1) * LINE
    <2>1. SUFFICES ASSUME NEW i \in 1 .. n
                   PROVE  /\ ink[i].x \in Int /\ ink[i].w \in Int /\ ink[i].h \in Int
                          /\ 0 <= ink[i].x /\ ink[i].x + ink[i].w <= LIVE
                          /\ ink[i].w > 0 /\ ink[i].h > 0 /\ ink[i].h <= LINE
                          /\ ink[i].y = 0 + (i - 1) * LINE
      OBVIOUS
    <2> DEFINE x == Placed(imgs[i], b.align, 0, 0)  y == 0 + (i - 1) * LINE
    <2>2. x \in Int /\ 0 <= x /\ x + imgs[i].w <= LIVE
      BY <1>6
    <2>3. ink[i] = At(imgs[i], x, y)
      BY <1>7
    <2>4. /\ imgs[i].w \in Int /\ imgs[i].w > 0 /\ imgs[i].h \in Int
          /\ imgs[i].h > 0 /\ imgs[i].h <= LINE
      BY <1>4
    <2> HIDE DEF x, y
    <2>5. ink[i].x = x /\ ink[i].y = y /\ ink[i].w = imgs[i].w /\ ink[i].h = imgs[i].h
      BY <2>3, AtIs
    <2>6. QED
      BY <2>2, <2>4, <2>5 DEF y
  <1>10. /\ \A i \in DOMAIN ink : Snug(ink[i], LIVE, h)
         /\ \A i, j \in DOMAIN ink : i # j => Disjoint(ink[i], ink[j])
    <2>1. LINE \in Nat /\ 0 \in Nat /\ h \in Int
      BY <1>1, <1>3
    <2> HIDE DEF h
    <2>2. QED
      BY <1>3, <1>8, <1>9, <2>1, RowsSnug
  <1>11. QED
    BY <1>2, <1>3, <1>5, <1>10, LaySnug

\* footer
LEMMA FooterLays ==
    ASSUME NEW b \in FooterBlock, NEW ls \in Seq(Bitmaps), ls # <<>>
    PROVE  Lays(b, Footer(b, ls)) /\ Whole(Footer(b, ls))
  <1> DEFINE n == Len(ls)
             imgs == FitAll(ls, LIVE)
             step == Tallest(imgs) + 2
             ink == [i \in DOMAIN imgs |-> At(imgs[i], Centered(imgs[i]), 8 + (i - 1) * step)]
             h == step * n + 12
  <1>1. b.type = "footer" /\ LIVE \in Int /\ LIVE > 0
    BY PaperIs DEF FooterBlock
  <1>2. Overhang(b) \in Nat /\ Excess(b) \in Nat
    BY <1>1, NoExcess
  <1>3. n \in Nat /\ n > 0 /\ DOMAIN imgs = 1 .. n
    BY <1>1, FittedLines
  <1>4. \A i \in 1 .. n : /\ imgs[i].w \in Int /\ imgs[i].w > 0 /\ imgs[i].w <= LIVE
                          /\ imgs[i].h \in Int /\ imgs[i].h > 0
    BY <1>1, FittedLines
  <1>5. Footer(b, ls) = Canvas(h, ink)
    BY DEF Footer, Rows
  <1> HIDE DEF imgs
  <1>6. step \in Nat /\ \A i \in 1 .. n : imgs[i].h <= step
    <2>1. /\ Tallest(imgs) \in Int /\ \A i \in 1 .. n : imgs[i].h <= Tallest(imgs)
      BY <1>3, <1>4, TallestIs
    <2>2. 1 \in 1 .. n
      BY <1>3
    <2>3. Tallest(imgs) > 0
      BY <1>4, <2>1, <2>2
    <2>4. QED
      BY <1>4, <2>1, <2>3
  <1> HIDE DEF step
  <1>7. step * n \in Nat /\ h \in Nat /\ h > 0 /\ 8 + step * n <= h
    <2>1. step * n \in Nat
      BY <1>3, <1>6
    <2>2. QED
      BY <2>1
  <1>8. \A i \in 1 .. n : /\ Centered(imgs[i]) \in Int /\ 0 <= Centered(imgs[i])
                          /\ Centered(imgs[i]) + imgs[i].w <= LIVE
    BY <1>4, PaperIs, CenteredIs
  <1>9. DOMAIN ink = 1 .. n /\ \A i \in 1 .. n : ink[i] = At(imgs[i], Centered(imgs[i]), 8 + (i - 1) * step)
    BY <1>3
  <1> HIDE DEF ink, h
  <1>10. \A i \in 1 .. n : /\ ink[i].x \in Int /\ ink[i].w \in Int /\ ink[i].h \in Int
                           /\ 0 <= ink[i].x /\ ink[i].x + ink[i].w <= LIVE
                           /\ ink[i].w > 0 /\ ink[i].h > 0 /\ ink[i].h <= step
                           /\ ink[i].y = 8 + (i - 1) * step
    <2>1. \A i \in 1 .. n : /\ ink[i].x = Centered(imgs[i]) /\ ink[i].w = imgs[i].w
                            /\ ink[i].h = imgs[i].h /\ ink[i].y = 8 + (i - 1) * step
      BY <1>9, AtIs
    <2>2. QED
      BY <1>4, <1>6, <1>8, <2>1, Zenon
  <1>11. /\ \A i \in DOMAIN ink : Snug(ink[i], LIVE, h)
         /\ \A i, j \in DOMAIN ink : i # j => Disjoint(ink[i], ink[j])
    <2>1. 8 \in Nat /\ h \in Int
      BY <1>7
    <2>2. QED
      BY <1>3, <1>6, <1>7, <1>9, <1>10, <2>1, RowsSnug, ZenonT(30)
  <1>12. QED
    BY <1>2, <1>5, <1>7, <1>11, LaySnug

\* An italic line.
LEMMA ItalicIs ==
    ASSUME NEW img \in Bitmaps, NEW max \in Int, max > 0
    PROVE  /\ Italic(Fit(img, max)).h = Fit(img, max).h
           /\ Italic(Fit(img, max)).w = Fit(img, max).w + Slant(Fit(img, max).h)
           /\ Slant(Fit(img, max).h) \in Nat /\ Slant(Fit(img, max).h) <= Slant(img.h)
           /\ Slant(img.h) \in Nat /\ (img.h <= 26 => Slant(img.h) <= 5)
           /\ Italic(Fit(img, max)).w \in Int /\ Italic(Fit(img, max)).w > 0
           /\ Italic(Fit(img, max)).w <= max + Slant(img.h)
           /\ Italic(Fit(img, max)).h \in Int /\ Italic(Fit(img, max)).h > 0
  <1> DEFINE f == Fit(img, max)
  <1>1. /\ f.w \in Int /\ f.w > 0 /\ f.w <= max /\ f.h \in Int /\ f.h > 0 /\ f.h <= img.h
        /\ img.h \in Int /\ img.h > 0
    BY Fitted
  <1>2. \E w, h : f = [w |-> w, h |-> h]
    BY DEF Fit, Bitmaps
  <1> HIDE DEF f
  <1>3. Italic(f).h = f.h /\ Italic(f).w = f.w + Slant(f.h)
    BY <1>2 DEF Italic
  <1>4. /\ Slant(f.h) \in Nat /\ Slant(f.h) <= Slant(img.h) /\ Slant(img.h) \in Nat
        /\ img.h <= 26 => Slant(img.h) <= 5
    BY <1>1 DEF Slant
  <1>5. Italic(f).w \in Int /\ Italic(f).w > 0 /\ Italic(f).w <= max + Slant(img.h)
    BY <1>1, <1>3, <1>4
  <1>6. QED
    BY <1>1, <1>3, <1>4, <1>5 DEF f

\* Italic lines.
LEMMA ItalicLines ==
    ASSUME NEW ls \in Seq(Bitmaps), LowLines(ls, LINE), ls # <<>>, NEW max \in Int, max > 0
    PROVE  /\ Len(ls) \in Nat /\ Len(ls) > 0 /\ DOMAIN ItalicAll(ls, max) = 1 .. Len(ls)
           /\ \A i \in 1 .. Len(ls) :
                LET img == ItalicAll(ls, max)[i] IN
                  img.w \in Int /\ img.w > 0 /\ img.w <= max + 5 /\ img.h \in Int /\ img.h > 0
  <1>1. Len(ls) \in Nat /\ Len(ls) > 0 /\ DOMAIN ls = 1 .. Len(ls)
    OBVIOUS
  <1>2. ASSUME NEW i \in 1 .. Len(ls)
        PROVE  LET img == ItalicAll(ls, max)[i] IN
                 img.w \in Int /\ img.w > 0 /\ img.w <= max + 5 /\ img.h \in Int /\ img.h > 0
    <2> DEFINE img == ItalicAll(ls, max)[i]
    <2>1. ls[i] \in Bitmaps /\ ls[i].h <= 26
      BY ElementsOf, PaperIs DEF LowLines
    <2>2. img = Italic(Fit(ls[i], max))
      BY <1>1 DEF ItalicAll
    <2>3. /\ img.w \in Int /\ img.w > 0 /\ img.w <= max + Slant(ls[i].h) /\ Slant(ls[i].h) <= 5
          /\ Slant(ls[i].h) \in Nat /\ img.h \in Int /\ img.h > 0
      BY <2>1, <2>2, ItalicIs
    <2> HIDE DEF img
    <2>4. img.w <= max + 5
      BY <2>3
    <2>5. QED
      BY <2>3, <2>4 DEF img
  <1>3. QED
    BY <1>1, <1>2 DEF ItalicAll

\* colophon
LEMMA ColophonLays ==
    ASSUME NEW b \in ColophonBlock, NEW ls \in Seq(Bitmaps), LowLines(ls, LINE), ls # <<>>
    PROVE  Lays(b, Colophon(b, ls)) /\ Whole(Colophon(b, ls))
  <1> DEFINE n == Len(ls)
             imgs == ItalicAll(ls, 360)
             step == Tallest(imgs) + 2
             ink == [i \in DOMAIN imgs |-> At(imgs[i], Centered(imgs[i]), 12 + (i - 1) * step)]
             h == 12 + step * n + 6
  <1>1. b.type = "colophon"
    BY DEF ColophonBlock
  <1>2. Overhang(b) \in Nat /\ Excess(b) \in Nat
    BY <1>1, NoExcess
  <1>3. /\ n \in Nat /\ n > 0 /\ DOMAIN imgs = 1 .. n
        /\ \A i \in 1 .. n : imgs[i].w \in Int /\ imgs[i].w > 0 /\ imgs[i].w <= 365
                             /\ imgs[i].h \in Int /\ imgs[i].h > 0
    <2>1. 360 \in Int /\ 360 > 0 /\ 360 + 5 = 365
      OBVIOUS
    <2>2. QED
      BY <2>1, ItalicLines
  <1>4. Colophon(b, ls) = Canvas(h, ink)
    BY DEF Colophon, Rows
  <1> HIDE DEF imgs
  <1>5. step \in Nat /\ \A i \in 1 .. n : imgs[i].h <= step
    <2>1. /\ Tallest(imgs) \in Int /\ \A i \in 1 .. n : imgs[i].h <= Tallest(imgs)
      BY <1>3, TallestIs
    <2>2. 1 \in 1 .. n
      BY <1>3
    <2>3. Tallest(imgs) > 0
      BY <1>3, <2>1, <2>2
    <2>4. QED
      BY <1>3, <2>1, <2>3
  <1> HIDE DEF step
  <1>6. step * n \in Nat /\ h \in Nat /\ h > 0 /\ 12 + step * n <= h
    <2>1. step * n \in Nat
      BY <1>3, <1>5
    <2>2. QED
      BY <2>1
  <1>7. \A i \in 1 .. n : /\ Centered(imgs[i]) \in Int /\ 0 <= Centered(imgs[i])
                          /\ Centered(imgs[i]) + imgs[i].w <= LIVE
    BY <1>3, PaperIs, CenteredIs
  <1>8. DOMAIN ink = 1 .. n /\ \A i \in 1 .. n : ink[i] = At(imgs[i], Centered(imgs[i]), 12 + (i - 1) * step)
    BY <1>3
  <1> HIDE DEF ink, h
  <1>9. \A i \in 1 .. n : /\ ink[i].x \in Int /\ ink[i].w \in Int /\ ink[i].h \in Int
                          /\ 0 <= ink[i].x /\ ink[i].x + ink[i].w <= LIVE
                          /\ ink[i].w > 0 /\ ink[i].h > 0 /\ ink[i].h <= step
                          /\ ink[i].y = 12 + (i - 1) * step
    <2>1. \A i \in 1 .. n : /\ ink[i].x = Centered(imgs[i]) /\ ink[i].y = 12 + (i - 1) * step
                            /\ ink[i].w = imgs[i].w /\ ink[i].h = imgs[i].h
      BY <1>8, AtIs
    <2>2. QED
      BY <1>3, <1>5, <1>7, <2>1, ZenonT(30)
  <1>10. /\ \A i \in DOMAIN ink : Snug(ink[i], LIVE, h)
         /\ \A i, j \in DOMAIN ink : i # j => Disjoint(ink[i], ink[j])
    <2>1. 12 \in Nat /\ h \in Int
      BY <1>6
    <2>2. QED
      BY <1>3, <1>5, <1>6, <1>8, <1>9, <2>1, RowsSnug, ZenonT(30)
  <1>11. QED
    BY <1>2, <1>4, <1>6, <1>10, LaySnug

\* Rows, and below them one piece that may be missing.
LEMMA LayBelowRows ==
    ASSUME NEW b, Overhang(b) \in Nat, Excess(b) \in Nat, NEW h \in Nat, h > 0, NEW n \in Nat,
           NEW S, NEW rows \in Seq(S), Len(rows) = n, NEW foot \in Int,
           \A i \in 1 .. n : Snug(rows[i], LIVE, h) /\ rows[i].y + rows[i].h <= foot,
           \A i, j \in 1 .. n : i # j => Disjoint(rows[i], rows[j]),
           NEW present \in BOOLEAN, NEW q \in S, present => Snug(q, LIVE, h) /\ foot <= q.y,
           NEW ink, ink = rows \o (IF present THEN <<q>> ELSE <<>>)
    PROVE  Lays(b, Canvas(h, ink)) /\ Whole(Canvas(h, ink))
  <1>1. CASE ~present
    <2>1. ink = rows
      BY <1>1
    <2>2. DOMAIN rows = 1 .. n
      OBVIOUS
    <2>3. QED
      BY <2>1, <2>2, LaySnug
  <1>2. CASE present
    <2>1. /\ <<q>> \in Seq(S) /\ Len(<<q>>) = 1 /\ <<q>>[1] = q
      OBVIOUS
    <2>2. /\ DOMAIN ink = 1 .. n + 1 /\ ink[n + 1] = q
          /\ \A i \in 1 .. n : ink[i] = rows[i]
      <3>1. ink = rows \o <<q>>
        BY <1>2
      <3>2. QED
        BY <2>1, <3>1
    <2>3. \A i \in 1 .. n + 1 : i \in 1 .. n \/ i = n + 1
      OBVIOUS
    <2>4. ASSUME NEW i \in 1 .. n PROVE Disjoint(ink[i], ink[n + 1]) /\ Disjoint(ink[n + 1], ink[i])
      <3>1. rows[i].y + rows[i].h <= foot /\ Snug(rows[i], LIVE, h) /\ Snug(q, LIVE, h) /\ foot <= q.y
        BY <1>2
      <3>2. rows[i].y \in Int /\ rows[i].h \in Int /\ q.y \in Int
        BY <3>1 DEF Snug, IsBox
      <3>6. rows[i].y + rows[i].h <= q.y
        BY <3>1, <3>2
      <3>3. Disjoint(rows[i], q)
        BY <3>6, Below
      <3>4. Disjoint(q, rows[i])
        BY <3>3, Zenon DEF Disjoint
      <3>5. QED
        BY <2>2, <3>3, <3>4
    <2>5. \A i, j \in DOMAIN ink : i # j => Disjoint(ink[i], ink[j])
      <3>1. \A i, j \in 1 .. n : i # j => Disjoint(ink[i], ink[j])
        BY <2>2
      <3>2. QED
        BY <2>2, <2>3, <2>4, <3>1
    <2>6. \A i \in DOMAIN ink : Snug(ink[i], LIVE, h)
      BY <1>2, <2>2, <2>3
    <2>7. QED
      BY <2>5, <2>6, LaySnug
  <1>3. QED
    BY <1>1, <1>2

\* epigraph
LEMMA EpigraphLays ==
    ASSUME NEW b \in EpigraphBlock, FontsGive(b), NEW ls \in Seq(Bitmaps), LowLines(ls, LINE), ls # <<>>
    PROVE  Lays(b, Epigraph(b, ls)) /\ Whole(Epigraph(b, ls))
  <1> DEFINE n == Len(ls)
             max == LIVE - 120
             imgs == ItalicAll(ls, max)
             step == Tallest(imgs) + 2
             attr == Italic(Fit(b.sub, max))
             present == b.sub # None
             X(img) == 60
             area == step * n
             rows == [i \in DOMAIN imgs |-> At(imgs[i], X(imgs[i]), 6 + (i - 1) * step)]
             h == 6 + area + Band(b.sub, max, 4) + 10
             q == At(attr, LIVE - 60 - attr.w, 6 + area + 4)
             ink == rows \o (IF present THEN <<q>> ELSE <<>>)
  <1>1. b.type = "epigraph" /\ (present => b.sub \in Bitmaps /\ b.sub.h <= 26) /\ max = 408
    BY PaperIs DEF EpigraphBlock, Caption, FontsGive
  <1> HIDE DEF max
  <1>2. Overhang(b) \in Nat /\ Excess(b) \in Nat
    BY <1>1, NoExcess
  <1>3. /\ n \in Nat /\ n > 0 /\ DOMAIN imgs = 1 .. n
        /\ \A i \in 1 .. n : imgs[i].w \in Int /\ imgs[i].w > 0 /\ imgs[i].w <= 413
                             /\ imgs[i].h \in Int /\ imgs[i].h > 0
    <2>1. max \in Int /\ max > 0 /\ max + 5 = 413
      BY <1>1
    <2>2. /\ n \in Nat /\ n > 0 /\ DOMAIN imgs = 1 .. n
          /\ \A i \in 1 .. n : imgs[i].w \in Int /\ imgs[i].w > 0 /\ imgs[i].w <= max + 5
                               /\ imgs[i].h \in Int /\ imgs[i].h > 0
      BY <2>1, ItalicLines
    <2>3. QED
      BY <2>1, <2>2
  <1>4. present => /\ attr.w \in Int /\ attr.w > 0 /\ attr.w <= 413
                   /\ attr.h \in Int /\ attr.h > 0 /\ attr.h = Fit(b.sub, max).h
    <2> SUFFICES ASSUME present PROVE /\ attr.w \in Int /\ attr.w > 0 /\ attr.w <= 413
                                      /\ attr.h \in Int /\ attr.h > 0 /\ attr.h = Fit(b.sub, max).h
      OBVIOUS
    <2>1. max \in Int /\ max > 0 /\ b.sub \in Bitmaps /\ b.sub.h <= 26
      BY <1>1
    <2>2. /\ attr.w \in Int /\ attr.w > 0 /\ attr.w <= max + Slant(b.sub.h) /\ Slant(b.sub.h) \in Nat
          /\ Slant(b.sub.h) <= 5 /\ attr.h \in Int /\ attr.h > 0 /\ attr.h = Fit(b.sub, max).h
      BY <2>1, ItalicIs
    <2> HIDE DEF attr
    <2>3. attr.w <= 413
      BY <1>1, <2>2
    <2>4. QED
      BY <2>2, <2>3
  <1>5. Epigraph(b, ls) = Canvas(h, ink)
    BY DEF Epigraph, Rows, max
  <1>6. Band(b.sub, max, 4) = IF present THEN attr.h + 4 ELSE 0
    BY <1>4 DEF Band, max
  <1> HIDE DEF imgs, attr
  <1>7. step \in Nat /\ \A i \in 1 .. n : imgs[i].h <= step
    <2>1. /\ Tallest(imgs) \in Int /\ \A i \in 1 .. n : imgs[i].h <= Tallest(imgs)
      BY <1>3, TallestIs
    <2>2. 1 \in 1 .. n
      BY <1>3
    <2>3. Tallest(imgs) > 0
      BY <1>3, <2>1, <2>2
    <2>4. QED
      BY <1>3, <2>1, <2>3
  <1> HIDE DEF step
  <1>17. area \in Nat
    BY <1>3, <1>7
  <1> HIDE DEF area
  <1>8. /\ h \in Nat /\ h > 0 /\ 6 + area <= h
        /\ present => h = 20 + area + attr.h
    BY <1>4, <1>6, <1>17
  <1>9. /\ DOMAIN rows = 1 .. n /\ Len(rows) = n
        /\ \A i \in 1 .. n : rows[i] = At(imgs[i], 60, 6 + (i - 1) * step)
    BY <1>3
  <1>10. rows \in Seq({rows[i] : i \in 1 .. n} \cup {q})
    BY <1>3
  <1> HIDE DEF rows, h
  <1>11. \A i \in 1 .. n : /\ rows[i].x \in Int /\ rows[i].w \in Int /\ rows[i].h \in Int
                           /\ 0 <= rows[i].x /\ rows[i].x + rows[i].w <= LIVE
                           /\ rows[i].w > 0 /\ rows[i].h > 0 /\ rows[i].h <= step
                           /\ rows[i].y = 6 + (i - 1) * step
    <2>1. \A i \in 1 .. n : /\ rows[i].x = 60 /\ rows[i].y = 6 + (i - 1) * step
                            /\ rows[i].w = imgs[i].w /\ rows[i].h = imgs[i].h
      BY <1>9, AtIs
    <2>2. \A i \in 1 .. n : 60 + imgs[i].w <= LIVE /\ imgs[i].h <= step
      BY <1>3, <1>7, PaperIs
    <2>3. 60 \in Int /\ 0 <= 60
      OBVIOUS
    <2>4. QED
      BY <1>3, <2>1, <2>2, <2>3, SMTT(30)
  <1>12. /\ \A i \in 1 .. n : Snug(rows[i], LIVE, h) /\ rows[i].y + rows[i].h <= 6 + area
         /\ \A i, j \in 1 .. n : i # j => Disjoint(rows[i], rows[j])
    <2>1. 6 \in Nat /\ h \in Int /\ 6 + step * n <= h
      BY <1>8 DEF area
    <2>2. /\ \A i \in 1 .. n : Snug(rows[i], LIVE, h) /\ rows[i].y + rows[i].h <= 6 + step * n
          /\ \A i, j \in DOMAIN rows : i # j => Disjoint(rows[i], rows[j])
      BY <1>3, <1>7, <1>9, <1>11, <2>1, RowsSnug, ZenonT(30)
    <2>3. QED
      BY <1>9, <2>2 DEF area
  <1>13. present => Snug(q, LIVE, h) /\ 6 + area <= q.y
    <2> SUFFICES ASSUME present PROVE Snug(q, LIVE, h) /\ 6 + area <= q.y
      OBVIOUS
    <2>1. /\ LIVE - 60 - attr.w \in Int /\ 0 <= LIVE - 60 - attr.w /\ LIVE - 60 - attr.w + attr.w <= LIVE
          /\ 6 + area + 4 \in Int /\ 0 <= 6 + area + 4 /\ 6 + area + 4 + attr.h <= h
          /\ h \in Int /\ LIVE \in Int
      BY <1>4, <1>8, <1>17, PaperIs, SMTT(30)
    <2>2. Snug(q, LIVE, h)
      BY <1>4, <2>1, AtSnug
    <2>3. q.y = 6 + area + 4
      BY AtIs
    <2> HIDE DEF q
    <2>4. QED
      BY <1>17, <2>2, <2>3
  <1> DEFINE foot == 6 + area
             S == {rows[i] : i \in 1 .. n} \cup {q}
  <1>14. foot \in Int /\ q \in S /\ rows \in Seq(S) /\ Len(rows) = n /\ DOMAIN rows = 1 .. n
    BY <1>9, <1>10, <1>17
  <1>18. /\ \A i \in 1 .. n : Snug(rows[i], LIVE, h) /\ rows[i].y + rows[i].h <= foot
         /\ \A i, j \in 1 .. n : i # j => Disjoint(rows[i], rows[j])
         /\ present => Snug(q, LIVE, h) /\ foot <= q.y
    BY <1>12, <1>13
  <1> HIDE DEF q, foot, S
  <1>15. Lays(b, Canvas(h, ink)) /\ Whole(Canvas(h, ink))
    BY <1>2, <1>3, <1>8, <1>14, <1>18, LayBelowRows, ZenonT(30)
  <1>16. QED
    BY <1>5, <1>15

\* Ink that reaches at most Overhang(b) beyond the sides.
LEMMA OverIs ==
    ASSUME NEW b, Overhang(b) \in Nat, Excess(b) \in Nat, NEW h \in Nat, NEW ink,
           NEW box, IsBox(box), 0 <= box.y, box.y + box.h <= h,
           0 - Overhang(b) <= box.x, box.x + box.w <= LIVE + Overhang(b)
    PROVE  OnPaper(box, b, Canvas(h, ink))
  <1>1. Canvas(h, ink).w = LIVE /\ Canvas(h, ink).h = h
    BY DEF Canvas
  <1>2. box.y \in Int /\ box.h \in Int
    BY DEF IsBox
  <1>3. box.y >= 0 - Excess(b) /\ box.y + box.h <= h + Excess(b)
    BY <1>2
  <1>4. box.x >= 0 - Overhang(b)
    BY DEF IsBox
  <1>5. QED
    BY <1>1, <1>3, <1>4 DEF OnPaper

\* byline, dateline, salutation
LEMMA OneLineLays ==
    ASSUME NEW b \in OneLineBlock
    PROVE  Lays(b, OneLine(b)) /\ Whole(OneLine(b))
  <1> DEFINE img == IF b.type = "byline" THEN Italic(Fit(b.title, LIVE)) ELSE Fit(b.title, LIVE)
             bottom == CASE b.type = "byline" -> 8 [] b.type = "dateline" -> 6
                         [] b.type = "salutation" -> 14
             h == 4 + img.h + bottom
             p == At(img, 0, 4)
             ink == <<p>>
  <1>1. b.type \in {"byline", "dateline", "salutation"} /\ b.title \in Bitmaps
    BY DEF OneLineBlock
  <1>2. OneLine(b) = Canvas(h, ink)
    BY DEF OneLine
  <1>3. Excess(b) = 0
    BY <1>1, NoExcess
  <1>4. /\ img.w \in Int /\ img.w > 0 /\ img.w <= LIVE + Overhang(b)
        /\ img.h \in Int /\ img.h > 0 /\ Overhang(b) \in Nat
    <2>1. LIVE \in Int /\ LIVE > 0
      BY PaperIs
    <2>2. CASE b.type = "byline"
      <3>1. /\ img.w \in Int /\ img.w > 0 /\ img.w <= LIVE + Slant(b.title.h)
            /\ img.h \in Int /\ img.h > 0 /\ Slant(b.title.h) \in Nat
        BY <1>1, <2>1, <2>2, ItalicIs
      <3>2. Overhang(b) = Larger(Slant(b.title.h), 0)
        BY <2>2 DEF Overhang
      <3>3. Larger(Slant(b.title.h), 0) = Slant(b.title.h)
        <4>1. /\ Slant(b.title.h) <= Larger(Slant(b.title.h), 0)
              /\ Larger(Slant(b.title.h), 0) = Slant(b.title.h) \/ Larger(Slant(b.title.h), 0) = 0
          BY <3>1, 0 \in Int, LargerIs
        <4>2. QED
          BY <3>1, <4>1
      <3>4. QED
        BY <3>1, <3>2, <3>3
    <2>3. CASE b.type # "byline"
      <3>1. Overhang(b) = 0
        BY <1>1, <2>3, NoExcess
      <3>2. /\ img.w \in Int /\ img.w > 0 /\ img.w <= LIVE /\ img.h \in Int /\ img.h > 0
        BY <1>1, <2>1, <2>3, Fitted
      <3>3. LIVE + 0 = LIVE
        BY <2>1
      <3>4. QED
        BY <3>1, <3>2, <3>3
    <2>4. QED
      BY <2>2, <2>3
  <1> HIDE DEF img
  <1>5. bottom \in {6, 8, 14}
    BY <1>1
  <1> HIDE DEF bottom
  <1>6. h \in Nat /\ h > 0 /\ 4 + img.h <= h
    BY <1>4, <1>5
  <1> HIDE DEF h
  <1>7. p.x = 0 /\ p.y = 4 /\ p.w = img.w /\ p.h = img.h
    BY AtIs
  <1> HIDE DEF p
  <1>8. IsBox(p) /\ OnPaper(p, b, Canvas(h, ink)) /\ p.w > 0 /\ p.h > 0
    <2>1. IsBox(p) /\ p.w > 0 /\ p.h > 0
      BY <1>4, <1>7 DEF IsBox
    <2>2. /\ 0 <= p.y /\ p.y + p.h <= h /\ 0 - Overhang(b) <= p.x
          /\ p.x + p.w <= LIVE + Overhang(b)
      BY <1>4, <1>6, <1>7, PaperIs
    <2>3. QED
      BY <1>3, <1>4, <1>6, <2>1, <2>2, OverIs
  <1>9. DOMAIN ink = {1} /\ ink[1] = p
    OBVIOUS
  <1> HIDE DEF ink
  <1>10. /\ \A i \in DOMAIN ink : /\ IsBox(ink[i]) /\ OnPaper(ink[i], b, Canvas(h, ink))
                                  /\ ink[i].w > 0 /\ ink[i].h > 0
         /\ \A i, j \in DOMAIN ink : i = j
    BY <1>8, <1>9
  <1>11. QED
    BY <1>2, <1>6, <1>10, LayInk

\* The heights of no images, and of one more.
LEMMA HeightsFrom ==
    ASSUME NEW S, NEW imgs \in Seq(S)
    PROVE  /\ Heights(imgs, 0) = 0
           /\ \A n \in 1 .. Len(imgs) : Heights(imgs, n) = Heights(imgs, n - 1) + imgs[n].h
  <1> DEFINE f == [i \in DOMAIN imgs |-> imgs[i].h]
  <1>1. \A n \in 1 .. Len(imgs) : f[n] = imgs[n].h
    OBVIOUS
  <1>2. \A n : Heights(imgs, n) = Total(f, n)
    BY DEF Heights
  <1> HIDE DEF f
  <1>3. Total(f, 0) = 0
    BY TotalStep
  <1>4. \A n \in 1 .. Len(imgs) : n \in Nat /\ n > 0
    OBVIOUS
  <1>5. \A n \in 1 .. Len(imgs) : Total(f, n) = Total(f, n - 1) + f[n]
    BY <1>4, TotalFrom
  <1>6. QED
    BY <1>1, <1>2, <1>3, <1>5

\* signature
LEMMA SignatureLays ==
    ASSUME NEW b \in SignatureBlock
    PROVE  Lays(b, Signature(b)) /\ Whole(Signature(b))
  <1> DEFINE present == b.sub # None
             t == Italic(Fit(b.title, LIVE))
             s == Italic(Fit(b.sub, LIVE))
             over == Overhang(b)
             two == (IF present THEN <<s>> ELSE <<>>) \o <<t>>
             n == Len(two)
             h == 12 + Heights(two, n) + 2 * (n - 1) + 6
             ink == [i \in DOMAIN two |->
                       At(two[i], LIVE - two[i].w, 12 + Heights(two, i - 1) + 2 * (i - 1))]
  <1>1. b.type = "signature" /\ b.title \in Bitmaps /\ (present => b.sub \in Bitmaps)
    BY DEF SignatureBlock, Caption
  <1>2. Signature(b) = Canvas(h, ink)
    BY DEF Signature
  <1>3. Excess(b) = 0
    BY <1>1, NoExcess
  <1>4. LIVE \in Int /\ LIVE > 0 /\ LIVE = 528
    BY PaperIs
  <1>5. /\ t.w \in Int /\ t.w > 0 /\ t.w <= LIVE + Slant(b.title.h) /\ t.h \in Int /\ t.h > 0
        /\ Slant(b.title.h) \in Nat
    BY <1>1, <1>4, ItalicIs
  <1>6. present => /\ s.w \in Int /\ s.w > 0 /\ s.w <= LIVE + Slant(b.sub.h)
                   /\ s.h \in Int /\ s.h > 0 /\ Slant(b.sub.h) \in Nat
    BY <1>1, <1>4, ItalicIs
  <1>7. /\ over \in Nat /\ Slant(b.title.h) <= over /\ (present => Slant(b.sub.h) <= over)
    <2> DEFINE other == IF present THEN Slant(b.sub.h) ELSE 0
    <2>1. over = Larger(Slant(b.title.h), other)
      BY <1>1 DEF Overhang
    <2>2. other \in Nat
      BY <1>6
    <2> HIDE DEF over
    <2>3. over \in Int /\ Slant(b.title.h) <= over /\ other <= over
      <3> HIDE DEF other
      <3>1. other \in Int /\ Slant(b.title.h) \in Int
        BY <1>5, <2>2
      <3>2. QED
        BY <2>1, <3>1, LargerIs
    <2>4. over \in Nat
      BY <1>5, <2>3
    <2>5. QED
      BY <2>3, <2>4
  <1> HIDE DEF t, s, over
  <1>8. t.w <= 528 + over /\ (present => s.w <= 528 + over)
    BY <1>4, <1>5, <1>6, <1>7
  <1>9. CASE present
    <2>1. two = <<s, t>>
      BY <1>9, PairIs
    <2>2. two \in Seq({s, t}) /\ n = 2 /\ DOMAIN two = {1, 2} /\ two[1] = s /\ two[2] = t
      <3>1. <<s, t>> \in Seq({s, t}) /\ Len(<<s, t>>) = 2 /\ DOMAIN <<s, t>> = {1, 2}
        OBVIOUS
      <3> HIDE DEF two
      <3>2. QED
        BY <2>1, <3>1
    <2> HIDE DEF two, n
    <2>3. Heights(two, 0) = 0 /\ Heights(two, 1) = s.h /\ Heights(two, 2) = s.h + t.h
      <3>1. /\ Heights(two, 0) = 0
            /\ \A i \in 1 .. 2 : Heights(two, i) = Heights(two, i - 1) + two[i].h
        BY <2>2, HeightsFrom DEF n
      <3>2. Heights(two, 1) = 0 + s.h
        BY <3>1, <2>2
      <3>3. Heights(two, 2) = Heights(two, 1) + t.h
        BY <3>1, <2>2
      <3>4. QED
        BY <1>6, <1>9, <3>1, <3>2, <3>3
    <2>4. h = 20 + s.h + t.h
      BY <1>5, <1>6, <1>9, <2>2, <2>3, SMTT(30)
    <2>5. /\ DOMAIN ink = {1, 2}
          /\ ink[1] = At(s, 528 - s.w, 12) /\ ink[2] = At(t, 528 - t.w, 14 + s.h)
      <3>1. DOMAIN ink = {1, 2}
        BY <2>2
      <3>2. ink[1] = At(s, 528 - s.w, 12)
        BY <1>4, <2>2, <2>3
      <3>3. ink[2] = At(t, 528 - t.w, 12 + s.h + 2)
        BY <1>4, <2>2, <2>3
      <3>4. 12 + s.h + 2 = 14 + s.h
        BY <1>6, <1>9
      <3>5. QED
        BY <3>1, <3>2, <3>3, <3>4
    <2> HIDE DEF ink, h
    <2>6. /\ ink[1].x = 528 - s.w /\ ink[1].y = 12 /\ ink[1].w = s.w /\ ink[1].h = s.h
          /\ ink[2].x = 528 - t.w /\ ink[2].y = 14 + s.h /\ ink[2].w = t.w /\ ink[2].h = t.h
      BY <2>5, AtIs
    <2>7. h \in Nat /\ h > 0
      BY <1>5, <1>6, <1>9, <2>4
    <2>8. \A i \in DOMAIN ink : /\ IsBox(ink[i]) /\ OnPaper(ink[i], b, Canvas(h, ink))
                                /\ ink[i].w > 0 /\ ink[i].h > 0
      <3>1. /\ IsBox(ink[1]) /\ ink[1].w > 0 /\ ink[1].h > 0
            /\ IsBox(ink[2]) /\ ink[2].w > 0 /\ ink[2].h > 0
        BY <1>5, <1>6, <1>9, <2>6 DEF IsBox
      <3>2. /\ 0 <= ink[1].y /\ ink[1].y + ink[1].h <= h /\ 0 - over <= ink[1].x
            /\ ink[1].x + ink[1].w <= LIVE + over
        BY <1>4, <1>5, <1>6, <1>7, <1>8, <1>9, <2>4, <2>6
      <3>3. /\ 0 <= ink[2].y /\ ink[2].y + ink[2].h <= h /\ 0 - over <= ink[2].x
            /\ ink[2].x + ink[2].w <= LIVE + over
        BY <1>4, <1>5, <1>6, <1>7, <1>8, <1>9, <2>4, <2>6
      <3>4. OnPaper(ink[1], b, Canvas(h, ink)) /\ OnPaper(ink[2], b, Canvas(h, ink))
        BY <1>3, <1>7, <2>7, <3>1, <3>2, <3>3, OverIs DEF over
      <3>5. QED
        BY <2>5, <3>1, <3>4
    <2>9. Disjoint(ink[1], ink[2]) /\ Disjoint(ink[2], ink[1])
      <3>1. ink[1].y + ink[1].h <= ink[2].y
        BY <1>6, <1>9, <2>6
      <3>2. QED
        BY <3>1, Zenon DEF Disjoint
    <2>10. \A i, j \in DOMAIN ink : i # j => Disjoint(ink[i], ink[j])
      BY <2>5, <2>9
    <2>11. Lays(b, Canvas(h, ink)) /\ Whole(Canvas(h, ink))
      BY <2>7, <2>8, <2>10, LayInk
    <2>12. QED
      BY <1>2, <2>11
  <1>10. CASE ~present
    <2>1. two = <<t>>
      BY <1>10
    <2>2. two \in Seq({t}) /\ n = 1 /\ DOMAIN two = {1} /\ two[1] = t
      BY <2>1
    <2> HIDE DEF two, n
    <2>3. Heights(two, 0) = 0 /\ Heights(two, 1) = t.h
      <3>1. /\ Heights(two, 0) = 0
            /\ \A i \in 1 .. 1 : Heights(two, i) = Heights(two, i - 1) + two[i].h
        BY <2>2, HeightsFrom DEF n
      <3>2. Heights(two, 1) = 0 + t.h
        BY <3>1, <2>2
      <3>3. QED
        BY <1>5, <3>1, <3>2
    <2>4. h = 18 + t.h
      BY <1>5, <2>2, <2>3
    <2>5. DOMAIN ink = {1} /\ ink[1] = At(t, 528 - t.w, 12)
      BY <1>4, <2>2, <2>3
    <2> HIDE DEF ink, h
    <2>6. ink[1].x = 528 - t.w /\ ink[1].y = 12 /\ ink[1].w = t.w /\ ink[1].h = t.h
      BY <2>5, AtIs
    <2>7. h \in Nat /\ h > 0
      BY <1>5, <2>4
    <2>8. /\ IsBox(ink[1]) /\ OnPaper(ink[1], b, Canvas(h, ink))
          /\ ink[1].w > 0 /\ ink[1].h > 0
      <3>1. IsBox(ink[1]) /\ ink[1].w > 0 /\ ink[1].h > 0
        BY <1>5, <2>6 DEF IsBox
      <3>2. /\ 0 <= ink[1].y /\ ink[1].y + ink[1].h <= h /\ 0 - over <= ink[1].x
            /\ ink[1].x + ink[1].w <= LIVE + over
        BY <1>4, <1>5, <1>7, <1>8, <2>4, <2>6
      <3>3. QED
        BY <1>3, <1>7, <2>7, <3>1, <3>2, OverIs DEF over
    <2>9. Lays(b, Canvas(h, ink)) /\ Whole(Canvas(h, ink))
      BY <2>5, <2>7, <2>8, LayInk
    <2>10. QED
      BY <1>2, <2>9
  <1>11. QED
    BY <1>9, <1>10

\* image: nothing may be left of it when it is scaled.
LEMMA ImageLays ==
    ASSUME NEW b \in PictureBlock, BleedNoAlign(b)
    PROVE  /\ Lays(b, ImageBlock(b)) /\ (~Fails(ImageBlock(b)) => ImageBlock(b).h > 0)
           /\ Whole(ImageBlock(b)) \/ Flat(b.img, ImageW(b))
  <1> DEFINE img == [w |-> ImageW(b), h |-> ScaledH(b.img, ImageW(b))]
             width == IF b.bleed THEN HEAD ELSE LIVE
             X(i) == IF b.bleed THEN (HEAD - i.w) \div 2 ELSE Centered(i)
             x == IF b.bleed THEN 0 ELSE Placed(img, b.align, 0, 0)
             present == b.sub # None
             sub == Fit(b.sub, LIVE)
             h == img.h + Band(b.sub, LIVE, 4)
             p == At(img, x, 0)
             q == At(sub, X(sub), img.h + 4)
             ink == <<p>> \o (IF present THEN <<q>> ELSE <<>>)
             cv == ImageBlock(b)
  <1>1. /\ b.type = "image" /\ b.img \in Bitmaps /\ b.width \in 1 .. 528 /\ b.bleed \in BOOLEAN
        /\ b.align \in Aligns /\ (present => b.sub \in Bitmaps)
    BY DEF PictureBlock, Caption
  <1>2. cv.w = width /\ cv.h = h /\ cv.ink = ink
    BY DEF ImageBlock, Boxed
  <1>3. Overhang(b) = 0 /\ Excess(b) = 0
    BY <1>1, NoExcess
  <1>4. ImageW(b) \in Nat /\ ImageW(b) > 0 /\ ImageW(b) <= width /\ (~b.bleed => ImageW(b) <= 528)
    BY <1>1, PaperIs DEF ImageW
  <1>5. /\ img.w \in Int /\ img.w > 0 /\ img.w <= width /\ img.h \in Nat
        /\ img.h = 0 => Flat(b.img, ImageW(b))
    <2>1. /\ ScaledH(b.img, ImageW(b)) \in Nat
          /\ ScaledH(b.img, ImageW(b)) = 0 => Flat(b.img, ImageW(b))
      BY <1>1, <1>4, ScaledIs
    <2>2. img.w = ImageW(b) /\ img.h = ScaledH(b.img, ImageW(b))
      OBVIOUS
    <2> HIDE DEF img
    <2>3. QED
      BY <1>4, <2>1, <2>2
  <1>6. present => sub.w \in Int /\ sub.w > 0 /\ sub.w <= 528 /\ sub.h \in Int /\ sub.h > 0
    BY <1>1, PaperIs, Fitted
  <1>7. Band(b.sub, LIVE, 4) = IF present THEN sub.h + 4 ELSE 0
    BY DEF Band
  <1>8. x \in Int /\ 0 <= x /\ x + img.w <= width
    <2>1. CASE b.bleed
      <3>1. x = 0
        BY <2>1
      <3> HIDE DEF x, img, width
      <3>2. QED
        BY <1>5, <3>1
    <2>2. CASE ~b.bleed
      <3>1. x = Placed(img, b.align, 0, 0) /\ width = LIVE
        BY <2>2
      <3> HIDE DEF x, img, width
      <3>2. 0 <= img.w /\ img.w <= LIVE
        BY <1>5, <3>1
      <3>3. QED
        BY <1>1, <1>5, <3>1, <3>2, PlacedFits
    <2>3. QED
      BY <1>1, <2>1, <2>2
  <1>9. present => X(sub) \in Int /\ 0 <= X(sub) /\ X(sub) + sub.w <= width
    <2> SUFFICES ASSUME present PROVE X(sub) \in Int /\ 0 <= X(sub) /\ X(sub) + sub.w <= width
      OBVIOUS
    <2> HIDE DEF sub
    <2>1. CASE b.bleed
      <3>1. X(sub) = (576 - sub.w) \div 2 /\ width = 576
        BY <2>1, PaperIs
      <3> HIDE DEF X, width
      <3>2. QED
        BY <1>6, <3>1
    <2>2. CASE ~b.bleed
      BY <1>6, <2>2, PaperIs, CenteredIs
    <2>3. QED
      BY <1>1, <2>1, <2>2
  <1> HIDE DEF img, sub, x, X, cv
  <1>10. width \in {LIVE, HEAD} /\ width \in Int
    BY PaperIs
  <1> HIDE DEF width
  <1>11. h \in Nat /\ (img.h > 0 => h > 0) /\ img.h <= h /\ (present => img.h + 4 + sub.h <= h)
    BY <1>5, <1>6, <1>7
  <1> HIDE DEF h
  <1>12. /\ p.x = x /\ p.y = 0 /\ p.w = img.w /\ p.h = img.h
         /\ q.x = X(sub) /\ q.y = img.h + 4 /\ q.w = sub.w /\ q.h = sub.h
    BY AtIs
  <1> HIDE DEF p, q
  <1>13. IsBox(p) /\ OnPaper(p, b, cv) /\ p.w > 0 /\ (img.h > 0 => p.h > 0)
    <2>1. IsBox(p) /\ p.w > 0 /\ (img.h > 0 => p.h > 0)
      BY <1>5, <1>8, <1>12 DEF IsBox
    <2>2. p.y >= 0 - 0 /\ p.y + p.h <= cv.h + 0
      BY <1>2, <1>5, <1>11, <1>12
    <2>3. p.x >= 0 - 0 /\ p.x + p.w <= cv.w + 0
      BY <1>2, <1>5, <1>8, <1>10, <1>12
    <2>4. QED
      BY <1>3, <2>1, <2>2, <2>3 DEF OnPaper
  <1>14. present => IsBox(q) /\ OnPaper(q, b, cv) /\ q.w > 0 /\ q.h > 0 /\ Disjoint(p, q) /\ Disjoint(q, p)
    <2> SUFFICES ASSUME present
                 PROVE  IsBox(q) /\ OnPaper(q, b, cv) /\ q.w > 0 /\ q.h > 0 /\ Disjoint(p, q) /\ Disjoint(q, p)
      OBVIOUS
    <2>1. IsBox(q) /\ q.w > 0 /\ q.h > 0
      BY <1>5, <1>6, <1>9, <1>12 DEF IsBox
    <2>2. q.y >= 0 - 0 /\ q.y + q.h <= cv.h + 0
      BY <1>2, <1>5, <1>6, <1>11, <1>12
    <2>3. q.x >= 0 - 0 /\ q.x + q.w <= cv.w + 0
      BY <1>2, <1>6, <1>9, <1>10, <1>12
    <2>4. OnPaper(q, b, cv)
      BY <1>3, <2>2, <2>3 DEF OnPaper
    <2>5. p.y + p.h <= q.y
      BY <1>5, <1>12
    <2>6. QED
      BY <2>1, <2>4, <2>5, Zenon DEF Disjoint
  <1>15. /\ \A i \in DOMAIN ink : i \in {1, 2} /\ (i = 2 => present)
         /\ 1 \in DOMAIN ink /\ ink[1] = p /\ (present => ink[2] = q)
    <2>1. CASE present
      <3>1. ink = <<p, q>>
        BY <2>1, PairIs
      <3>2. QED
        BY <2>1, <3>1
    <2>2. CASE ~present
      <3>1. ink = <<p>>
        BY <2>2
      <3>2. QED
        BY <2>2, <3>1
    <2>3. QED
      BY <2>1, <2>2
  <1> HIDE DEF ink
  <1>16. Lays(b, cv)
    <2>1. \A i \in DOMAIN ink : IsBox(ink[i]) /\ OnPaper(ink[i], b, cv)
      BY <1>13, <1>14, <1>15
    <2>2. \A i, j \in DOMAIN ink : i # j => Disjoint(ink[i], ink[j])
      BY <1>14, <1>15
    <2>3. QED
      BY <1>2, <1>10, <1>11, <2>1, <2>2 DEF Lays
  <1>17. ASSUME img.h > 0 PROVE Whole(cv)
    <2>1. ~(p.w <= 0) /\ ~(p.h <= 0)
      BY <1>13, <1>17 DEF IsBox
    <2>2. present => ~(q.w <= 0) /\ ~(q.h <= 0)
      BY <1>14 DEF IsBox
    <2>3. \A i \in DOMAIN ink : ~(ink[i].w <= 0) /\ ~(ink[i].h <= 0)
      BY <1>15, <2>1, <2>2
    <2>4. QED
      BY <1>2, <1>11, <1>17, <2>3 DEF Whole, Fails
  <1>18. img.h > 0 \/ img.h = 0
    BY <1>5
  <1>19. ASSUME ~Fails(cv) PROVE cv.h > 0
    <2>1. ~(p.h <= 0)
      BY <1>2, <1>15, <1>19 DEF Fails
    <2>2. img.h > 0
      BY <1>12, <1>18, <2>1
    <2>3. QED
      BY <1>2, <1>11, <2>2
  <1>20. QED
    BY <1>5, <1>16, <1>17, <1>18, <1>19 DEF cv

\* One piece, and others after it.
LEMMA LayFirst ==
    ASSUME NEW b, Overhang(b) \in Nat, Excess(b) \in Nat, NEW h \in Nat, h > 0, NEW n \in Nat,
           NEW S, NEW rows \in Seq(S), Len(rows) = n, NEW q \in S,
           \A i \in 1 .. n : Snug(rows[i], LIVE, h) /\ Disjoint(q, rows[i]),
           \A i, j \in 1 .. n : i # j => Disjoint(rows[i], rows[j]),
           Snug(q, LIVE, h)
    PROVE  LET ink == <<q>> \o rows
           IN  Lays(b, Canvas(h, ink)) /\ Whole(Canvas(h, ink))
  <1> DEFINE ink == <<q>> \o rows
  <1>1. <<q>> \in Seq(S) /\ Len(<<q>>) = 1 /\ <<q>>[1] = q
    OBVIOUS
  <1>2. /\ DOMAIN ink = 1 .. n + 1 /\ ink[1] = q
        /\ \A i \in 2 .. n + 1 : ink[i] = rows[i - 1] /\ i - 1 \in 1 .. n
    BY <1>1
  <1>3. \A i \in 1 .. n + 1 : i \in 2 .. n + 1 \/ i = 1
    OBVIOUS
  <1> HIDE DEF ink
  <1>4. ASSUME NEW i \in 2 .. n + 1 PROVE Disjoint(ink[i], ink[1]) /\ Disjoint(ink[1], ink[i])
    <2>1. Disjoint(q, rows[i - 1])
      BY <1>2
    <2>2. Disjoint(rows[i - 1], q)
      BY <2>1, Zenon DEF Disjoint
    <2>3. QED
      BY <1>2, <2>1, <2>2
  <1>5. ASSUME NEW i \in 2 .. n + 1, NEW j \in 2 .. n + 1, i # j PROVE Disjoint(ink[i], ink[j])
    <2>1. i - 1 # j - 1
      BY <1>5
    <2>2. QED
      BY <1>2, <2>1
  <1>6. \A i, j \in DOMAIN ink : i # j => Disjoint(ink[i], ink[j])
    BY <1>2, <1>3, <1>4, <1>5
  <1>7. \A i \in DOMAIN ink : Snug(ink[i], LIVE, h)
    BY <1>2, <1>3
  <1>8. Lays(b, Canvas(h, ink)) /\ Whole(Canvas(h, ink))
    BY <1>6, <1>7, LaySnug
  <1>9. QED
    BY <1>8 DEF ink

\* drop_cap
LEMMA DropCapLays ==
    ASSUME NEW b \in DropCapBlock, NEW ls \in Seq(Bitmaps), LowLines(ls, LINE)
    PROVE  Lays(b, DropCap(b, ls)) /\ Whole(DropCap(b, ls))
  <1> DEFINE n == Len(ls)
             cap == CapOf(b)
             X(i) == IF (i - 1) * LINE < cap.h THEN Indent(b) ELSE 0
             img(i) == Fit(ls[i], LIVE - X(i))
             area == LINE * n
             h == Larger(cap.h, n * LINE) + 4
             q == At(cap, 0, 0)
             rows == [i \in DOMAIN ls |-> At(img(i), X(i), (i - 1) * LINE)]
  <1>1. b.type = "drop_cap" /\ b.title \in Bitmaps
    BY DEF DropCapBlock
  <1>2. Overhang(b) \in Nat /\ Excess(b) \in Nat
    BY <1>1, NoExcess
  <1>3. cap.w \in Int /\ cap.w > 0 /\ cap.w <= 80 /\ cap.h \in Int /\ cap.h > 0
    <2>1. 80 \in Int /\ 80 > 0
      OBVIOUS
    <2>2. QED
      BY <1>1, <2>1, Fitted DEF CapOf
  <1>4. DropCap(b, ls) = Canvas(h, <<q>> \o rows)
    BY DEF DropCap
  <1>5. n \in Nat /\ DOMAIN ls = 1 .. n /\ \A i \in 1 .. n : ls[i] \in Bitmaps /\ ls[i].h <= 26
    <2>1. \A i \in 1 .. n : ls[i] \in Bitmaps
      BY ElementsOf
    <2>2. QED
      BY <2>1, PaperIs DEF LowLines
  <1>6. Indent(b) = cap.w + 6
    BY DEF Indent
  <1> HIDE DEF cap
  <1>7. \A i \in 1 .. n : /\ X(i) \in Int /\ 0 <= X(i) /\ X(i) <= 86
                          /\ X(i) = cap.w + 6 \/ cap.h <= (i - 1) * LINE
    <2> SUFFICES ASSUME NEW i \in 1 .. n
                 PROVE  /\ X(i) \in Int /\ 0 <= X(i) /\ X(i) <= 86
                        /\ X(i) = cap.w + 6 \/ cap.h <= (i - 1) * LINE
      OBVIOUS
    <2> DEFINE y == (i - 1) * LINE
    <2>1. y \in Int
      BY PaperIs
    <2>2. X(i) = IF y < cap.h THEN cap.w + 6 ELSE 0
      BY <1>6
    <2> HIDE DEF X, y
    <2>3. /\ X(i) \in Int /\ 0 <= X(i) /\ X(i) <= 86
          /\ X(i) = cap.w + 6 \/ cap.h <= y
      BY <1>3, <2>1, <2>2
    <2>4. QED
      BY <2>3 DEF y
  <1> HIDE DEF X
  <1>8. \A i \in 1 .. n : /\ img(i).w \in Int /\ img(i).w > 0 /\ X(i) + img(i).w <= 528
                          /\ img(i).h \in Int /\ img(i).h > 0 /\ img(i).h <= 26
    <2> SUFFICES ASSUME NEW i \in 1 .. n
                 PROVE  /\ img(i).w \in Int /\ img(i).w > 0 /\ X(i) + img(i).w <= 528
                        /\ img(i).h \in Int /\ img(i).h > 0 /\ img(i).h <= 26
      OBVIOUS
    <2> DEFINE max == LIVE - X(i)
    <2>1. max \in Int /\ max > 0 /\ max = 528 - X(i)
      BY <1>7, PaperIs
    <2> HIDE DEF max
    <2>2. /\ Fit(ls[i], max).w \in Int /\ Fit(ls[i], max).w > 0 /\ Fit(ls[i], max).w <= max
          /\ Fit(ls[i], max).h \in Int /\ Fit(ls[i], max).h > 0 /\ Fit(ls[i], max).h <= ls[i].h
          /\ ls[i].h \in Int /\ ls[i].h <= 26
      BY <1>5, <2>1, Fitted
    <2>3. img(i) = Fit(ls[i], max)
      BY DEF max
    <2> HIDE DEF img
    <2>4. QED
      BY <1>7, <2>1, <2>2, <2>3
  <1>9. area \in Nat /\ area = n * LINE
    BY <1>5, PaperIs
  <1>10. h \in Nat /\ h > 0 /\ cap.h <= h /\ 0 + area <= h
    <2> HIDE DEF area
    <2>1. h = Larger(cap.h, area) + 4
      BY <1>9
    <2>2. area \in Int /\ Larger(cap.h, area) \in Int /\ cap.h <= Larger(cap.h, area) /\ area <= Larger(cap.h, area)
      <3>1. area \in Int /\ cap.h \in Int
        BY <1>3, <1>9
      <3>2. QED
        BY <3>1, LargerIs
    <2> HIDE DEF h
    <2>3. QED
      BY <1>3, <1>9, <2>1, <2>2
  <1> HIDE DEF h, img
  <1>11. /\ DOMAIN rows = 1 .. n /\ Len(rows) = n
         /\ \A i \in 1 .. n : rows[i] = At(img(i), X(i), (i - 1) * LINE)
    BY <1>5
  <1> DEFINE S == {rows[i] : i \in 1 .. n} \cup {q}
  <1>12. rows \in Seq(S) /\ q \in S
    BY <1>5
  <1> HIDE DEF rows, S
  <1>13. \A i \in 1 .. n : /\ rows[i].x = X(i) /\ rows[i].y = (i - 1) * LINE
                           /\ rows[i].w = img(i).w /\ rows[i].h = img(i).h
    BY <1>11, AtIs
  <1>14. /\ \A i \in 1 .. n : Snug(rows[i], LIVE, h)
         /\ \A i, j \in 1 .. n : i # j => Disjoint(rows[i], rows[j])
    <2>1. \A i \in 1 .. n : (i - 1) * LINE = 0 + (i - 1) * LINE
      <3>1. \A i \in 1 .. n : (i - 1) * LINE \in Int
        BY PaperIs
      <3>2. \A y \in Int : y = 0 + y
        OBVIOUS
      <3>3. QED
        BY <3>1, <3>2
    <2>2. \A i \in 1 .. n : /\ rows[i].x \in Int /\ rows[i].w \in Int /\ rows[i].h \in Int
                            /\ 0 <= rows[i].x /\ rows[i].x + rows[i].w <= LIVE
                            /\ rows[i].w > 0 /\ rows[i].h > 0 /\ rows[i].h <= LINE
                            /\ rows[i].y = 0 + (i - 1) * LINE
      <3>1. \A i \in 1 .. n : rows[i].y = 0 + (i - 1) * LINE
        BY <1>13, <2>1, Zenon
      <3>2. \A i \in 1 .. n : /\ rows[i].x \in Int /\ rows[i].w \in Int /\ rows[i].h \in Int
                              /\ 0 <= rows[i].x /\ rows[i].x + rows[i].w <= 528
                              /\ rows[i].w > 0 /\ rows[i].h > 0 /\ rows[i].h <= 26
        <4>1. SUFFICES ASSUME NEW i \in 1 .. n
                       PROVE  /\ rows[i].x \in Int /\ rows[i].w \in Int /\ rows[i].h \in Int
                              /\ 0 <= rows[i].x /\ rows[i].x + rows[i].w <= 528
                              /\ rows[i].w > 0 /\ rows[i].h > 0 /\ rows[i].h <= 26
          OBVIOUS
        <4> DEFINE x == X(i)  pic == img(i)
        <4>2. x \in Int /\ 0 <= x
          BY <1>7
        <4>3. rows[i].x = x /\ rows[i].w = pic.w /\ rows[i].h = pic.h
          BY <1>13
        <4>4. /\ x + pic.w <= 528 /\ pic.w \in Int /\ pic.h \in Int
              /\ pic.w > 0 /\ pic.h > 0 /\ pic.h <= 26
          BY <1>8
        <4> HIDE DEF x, pic
        <4>5. QED
          BY <4>2, <4>3, <4>4
      <3>3. QED
        BY <3>1, <3>2, PaperIs
    <2>3. LINE \in Nat /\ 0 \in Nat /\ h \in Int /\ 0 + LINE * n <= h
      BY <1>10, PaperIs
    <2>4. /\ \A i \in 1 .. n : Snug(rows[i], LIVE, h) /\ rows[i].y + rows[i].h <= 0 + LINE * n
          /\ \A i, j \in DOMAIN rows : i # j => Disjoint(rows[i], rows[j])
      BY <1>5, <1>11, <2>2, <2>3, RowsSnug
    <2>5. QED
      BY <1>11, <2>4
  <1>15. q.x = 0 /\ q.y = 0 /\ q.w = cap.w /\ q.h = cap.h
    BY AtIs
  <1>16. Snug(q, LIVE, h)
    BY <1>3, <1>10, <1>15, PaperIs DEF Snug, IsBox
  <1> HIDE DEF q
  <1>17. ASSUME NEW i \in 1 .. n PROVE Disjoint(q, rows[i])
    <2>1. q.x + q.w <= rows[i].x \/ q.y + q.h <= rows[i].y
      <3>1. CASE X(i) = cap.w + 6
        BY <1>3, <1>13, <1>15, <3>1
      <3>2. CASE cap.h <= (i - 1) * LINE
        BY <1>3, <1>13, <1>15, <3>2
      <3>3. QED
        BY <1>7, <3>1, <3>2
    <2>2. QED
      BY <2>1, Below, Beside
  <1>18. Lays(b, Canvas(h, <<q>> \o rows)) /\ Whole(Canvas(h, <<q>> \o rows))
    BY <1>2, <1>5, <1>10, <1>11, <1>12, <1>14, <1>16, <1>17, LayFirst
  <1>19. QED
    BY <1>4, <1>18

-----------------------------------------------------------------------------
(* Blocks whose rows may be taller than their step.                          *)

\* The greatest of some numbers and zero.
LEMMA MaxOrZero ==
    ASSUME NEW n \in Nat, NEW K \in SUBSET (1 .. n), NEW f, \A i \in K : f[i] \in Int
    PROVE  /\ Max({0} \cup {f[i] : i \in K}) \in Nat
           /\ \A i \in K : f[i] <= Max({0} \cup {f[i_1] : i_1 \in K})
  <1> DEFINE g == [i \in 1 .. n + 1 |-> IF i = n + 1 THEN 0 ELSE f[i]]
             L == K \cup {n + 1}
             T == {0} \cup {f[i] : i \in K}
  <1>1. \A i \in K : i \in 1 .. n + 1 /\ i # n + 1
    OBVIOUS
  <1>2. n + 1 \in Nat /\ n + 1 \in 1 .. n + 1 /\ L \in SUBSET (1 .. n + 1) /\ L # {}
    BY <1>1
  <1>3. g[n + 1] = 0 /\ \A i \in K : g[i] = f[i]
    BY <1>1, <1>2
  <1> HIDE DEF g
  <1>4. \A i \in L : g[i] \in Int
    BY <1>3
  <1>5. {g[i] : i \in L} = T
    BY <1>3, Zenon
  <1> HIDE DEF L
  <1>6. /\ \E m \in L : Max({g[i] : i \in L}) = g[m]
        /\ \A i \in L : g[i] <= Max({g[i_1] : i_1 \in L})
    BY <1>2, <1>4, MaxIs
  <1>7. Max(T) \in Int /\ \A i \in L : g[i] <= Max(T)
    BY <1>4, <1>5, <1>6
  <1>8. Max(T) \in Nat /\ \A i \in K : f[i] <= Max(T)
    BY <1>3, <1>7 DEF L
  <1>9. QED
    BY <1>8

\* By how much a line is too tall.
LEMMA TooTallIs ==
    ASSUME NEW imgs \in Seq(Bitmaps), NEW h \in Int
    PROVE  /\ Max({0} \cup TooTall(imgs, h)) \in Nat
           /\ \A i \in 1 .. Len(imgs) : imgs[i].h <= h + Max({0} \cup TooTall(imgs, h))
  <1> DEFINE n == Len(imgs)
             f == [i \in 1 .. n |-> imgs[i].h - h]
             K == {i \in 1 .. n : imgs[i].h > h}
             M == Max({0} \cup {f[i] : i \in K})
  <1>1. n \in Nat /\ DOMAIN imgs = 1 .. n
    OBVIOUS
  <1>2. \A i \in 1 .. n : imgs[i].h \in Int
    <2>1. \A i \in 1 .. n : imgs[i] \in Bitmaps
      BY ElementsOf
    <2>2. QED
      BY <2>1 DEF Bitmaps
  <1>3. TooTall(imgs, h) = {f[i] : i \in K}
    BY <1>1 DEF TooTall
  <1>4. \A i \in K : f[i] = imgs[i].h - h /\ f[i] \in Int
    BY <1>2
  <1>5. K \in SUBSET (1 .. n)
    OBVIOUS
  <1> HIDE DEF f
  <1>6. M \in Nat /\ \A i \in K : f[i] <= M
    BY <1>1, <1>4, <1>5, MaxOrZero
  <1> HIDE DEF M
  <1>7. ASSUME NEW i \in 1 .. n PROVE imgs[i].h <= h + M
    <2>1. CASE imgs[i].h > h
      <3>1. imgs[i].h - h <= M
        BY <1>4, <1>6, <2>1
      <3>2. QED
        BY <1>2, <1>6, <3>1
    <2>2. CASE ~(imgs[i].h > h)
      BY <1>2, <1>6, <2>2
    <2>3. QED
      BY <2>1, <2>2
  <1>8. QED
    BY <1>3, <1>6, <1>7 DEF M

\* Rows that are taller than their step.
LEMMA TightRows ==
    ASSUME NEW n \in Nat, NEW step \in Nat, NEW top \in Int, NEW extra \in Nat, NEW ink, DOMAIN ink = 1 .. n,
           \A i \in 1 .. n : /\ ink[i].y = top + (i - 1) * step
                             /\ ink[i].h \in Int /\ ink[i].h <= step + extra
    PROVE  /\ \A i \in 1 .. n : /\ ink[i].y \in Int /\ top <= ink[i].y
                                /\ ink[i].y + ink[i].h <= top + step * n + extra
           /\ (\A i \in 1 .. n : ink[i].h <= step) =>
                \A i, j \in DOMAIN ink : i # j => Disjoint(ink[i], ink[j])
  <1>1. ASSUME NEW i \in 1 .. n
        PROVE  ink[i].y \in Int /\ top <= ink[i].y /\ ink[i].y + ink[i].h <= top + step * n + extra
    <2> DEFINE a == (i - 1) * step  e == step * n
    <2>1. a \in Nat /\ e \in Nat /\ a + step <= e
      BY RowIs
    <2>2. ink[i].y = top + a /\ ink[i].h \in Int /\ ink[i].h <= step + extra
      OBVIOUS
    <2> HIDE DEF a, e
    <2>3. ink[i].y \in Int /\ top <= ink[i].y /\ ink[i].y + ink[i].h <= top + e + extra
      BY <2>1, <2>2
    <2>4. QED
      BY <2>3 DEF e
  <1>2. ASSUME \A i \in 1 .. n : ink[i].h <= step
        PROVE  \A i, j \in DOMAIN ink : i # j => Disjoint(ink[i], ink[j])
    <2>1. \A i \in 1 .. n : /\ ink[i].y = top + (i - 1) * step
                            /\ ink[i].h \in Int /\ ink[i].h <= step
      BY <1>2
    <2>2. QED
      BY <2>1, RowsApart
  <1>3. QED
    BY <1>1, <1>2

\* code
LEMMA CodeLays ==
    ASSUME NEW b \in CodeBlock, b.imgs # <<>>
    PROVE  Lays(b, Code(b)) /\ Whole(Code(b))
  <1> DEFINE ls == b.imgs
             n == Len(ls)
             step == CodeStep(b.size)
             imgs == FitAll(ls, LIVE)
             area == step * n
             h == area + 4
             extra == Excess(b)
             ink == [i \in DOMAIN imgs |-> At(imgs[i], Zero(imgs[i]), 0 + (i - 1) * step)]
             cv == Canvas(h, ink)
  <1>1. b.type = "code" /\ b.size \in {"sm", "md", "lg"} /\ ls \in Seq(Bitmaps) /\ ls # <<>>
    BY DEF CodeBlock, Sizes
  <1>2. Overhang(b) = 0 /\ extra = Max({0} \cup TooTall(ls, step + 4))
    BY <1>1, NoExcess DEF Excess
  <1>3. step \in Nat /\ step > 0
    BY <1>1 DEF CodeStep
  <1>4. Code(b) = cv
    BY DEF Code, Rows
  <1>5. TightStep(b) = ~LowLines(ls, step)
    BY <1>1 DEF TightStep
  <1> HIDE DEF ls, step, extra
  <1>6. /\ n \in Nat /\ n > 0 /\ DOMAIN ls = 1 .. n /\ DOMAIN imgs = 1 .. n
        /\ \A i \in 1 .. n : /\ imgs[i].w \in Int /\ imgs[i].w > 0 /\ imgs[i].w <= 528
                             /\ imgs[i].h \in Int /\ imgs[i].h > 0 /\ imgs[i].h <= ls[i].h /\ ls[i].h \in Int
    <2>1. LIVE \in Int /\ LIVE > 0 /\ LIVE = 528
      BY PaperIs
    <2>2. n \in Nat /\ n > 0
      BY <1>1
    <2>3. QED
      BY <1>1, <2>1, <2>2, FittedLines
  <1> HIDE DEF imgs
  <1>7. extra \in Nat /\ \A i \in 1 .. n : ls[i].h <= step + 4 + extra
    <2>1. step + 4 \in Int
      BY <1>3
    <2>2. QED
      BY <1>1, <1>2, <2>1, TooTallIs
  <1>8. area \in Nat /\ area > 0
    <2>1. \A s, k \in Nat : s > 0 /\ k > 0 => s * k \in Nat /\ s * k > 0
      OBVIOUS
    <2>2. QED
      BY <1>3, <1>6, <2>1
  <1>9. \A i \in 1 .. n : ink[i] = At(imgs[i], 0, 0 + (i - 1) * step)
    BY <1>6 DEF Zero
  <1>10. DOMAIN ink = 1 .. n
    BY <1>6
  <1> HIDE DEF ink
  <1>11. \A i \in 1 .. n : /\ ink[i].x = 0 /\ ink[i].y = 0 + (i - 1) * step
                           /\ ink[i].w = imgs[i].w /\ ink[i].h = imgs[i].h
    BY <1>9, AtIs
  <1>12. /\ \A i \in 1 .. n : /\ ink[i].y \in Int /\ 0 <= ink[i].y
                              /\ ink[i].y + ink[i].h <= 0 + area + (4 + extra)
         /\ (\A i \in 1 .. n : ink[i].h <= step) =>
              \A i, j \in DOMAIN ink : i # j => Disjoint(ink[i], ink[j])
    <2>1. 4 + extra \in Nat /\ 0 \in Int
      BY <1>7
    <2>2. \A i \in 1 .. n : ink[i].h \in Int /\ ink[i].h <= step + (4 + extra)
      <3>1. \A i \in 1 .. n : ink[i].h \in Int /\ ink[i].h <= ls[i].h /\ ls[i].h \in Int
        BY <1>6, <1>11
      <3>2. QED
        BY <1>3, <1>7, <3>1
    <2> DEFINE e == 4 + extra
    <2> HIDE DEF e
    <2>3. e \in Nat /\ \A i \in 1 .. n : /\ ink[i].y = 0 + (i - 1) * step
                                         /\ ink[i].h \in Int /\ ink[i].h <= step + e
      BY <1>11, <2>1, <2>2, Zenon DEF e
    <2>4. /\ \A i \in 1 .. n : /\ ink[i].y \in Int /\ 0 <= ink[i].y
                               /\ ink[i].y + ink[i].h <= 0 + step * n + e
          /\ (\A i \in 1 .. n : ink[i].h <= step) =>
               \A i, j \in DOMAIN ink : i # j => Disjoint(ink[i], ink[j])
      BY <1>3, <1>6, <1>10, <2>1, <2>3, TightRows, ZenonT(30)
    <2>5. QED
      BY <2>4 DEF e
  <1> HIDE DEF area
  <1>13. h \in Nat /\ h > 0 /\ cv.w = 528 /\ cv.h = h /\ cv.h = area + 4
    BY <1>8, PaperIs DEF Canvas
  <1> HIDE DEF h, cv
  <1>14. ASSUME NEW i \in 1 .. n
         PROVE  IsBox(ink[i]) /\ OnPaper(ink[i], b, cv) /\ ink[i].w > 0 /\ ink[i].h > 0
    <2>5. ink[i].y \in Int
      BY <1>12
    <2>6. ink[i].x = 0 /\ ink[i].w = imgs[i].w /\ ink[i].h = imgs[i].h
      BY <1>11
    <2>1. IsBox(ink[i]) /\ ink[i].w > 0 /\ ink[i].h > 0
      BY <1>6, <2>5, <2>6 DEF IsBox
    <2>2. ink[i].y >= 0 - extra /\ ink[i].y + ink[i].h <= cv.h + extra
      BY <1>6, <1>7, <1>8, <1>11, <1>12, <1>13
    <2>3. ink[i].x >= 0 - 0 /\ ink[i].x + ink[i].w <= cv.w + 0
      BY <1>6, <1>11, <1>13
    <2>4. QED
      BY <1>2, <2>1, <2>2, <2>3 DEF OnPaper, extra
  <1>15. TightStep(b) \/ \A i, j \in DOMAIN ink : i # j => Disjoint(ink[i], ink[j])
    <2>1. ASSUME LowLines(ls, step) PROVE \A i \in 1 .. n : ink[i].h <= step
      <3>1. \A i \in 1 .. n : ls[i].h <= step
        BY <1>6, <2>1 DEF LowLines
      <3>2. \A i \in 1 .. n : ink[i].h \in Int /\ ink[i].h <= ls[i].h /\ ls[i].h \in Int
        BY <1>6, <1>11
      <3>3. QED
        BY <1>3, <3>1, <3>2
    <2>2. QED
      BY <1>5, <1>12, <2>1
  <1>16. Lays(b, cv) /\ Whole(cv)
    <2>1. \A i \in DOMAIN ink : /\ IsBox(ink[i]) /\ OnPaper(ink[i], b, Canvas(h, ink))
                                /\ ink[i].w > 0 /\ ink[i].h > 0
      BY <1>10, <1>14 DEF cv
    <2>2. Lays(b, Canvas(h, ink)) /\ Whole(Canvas(h, ink))
      BY <1>13, <1>15, <2>1, LayInk
    <2>3. QED
      BY <2>2 DEF cv
  <1>17. QED
    BY <1>4, <1>16

\* address
LEMMA AddressLays ==
    ASSUME NEW b \in AddressBlock, FontsGive(b), b.imgs # <<>>
    PROVE  Lays(b, Address(b)) /\ Whole(Address(b))
  <1> DEFINE ls == b.imgs
             n == Len(ls)
             imgs == FitAll(ls, LIVE)
             area == 22 * n
             h == 4 + area + 8
             ink == [i \in DOMAIN imgs |-> At(imgs[i], Zero(imgs[i]), 4 + (i - 1) * 22)]
  <1>1. b.type = "address" /\ ls \in Seq(Bitmaps) /\ LowLines(ls, 30) /\ ls # <<>>
    BY DEF AddressBlock, FontsGive
  <1>2. Overhang(b) \in Nat /\ Excess(b) \in Nat
    BY <1>1, NoExcess
  <1>3. Address(b) = Canvas(h, ink)
    BY DEF Address, Rows
  <1>4. TightStep(b) = ~LowLines(ls, 22)
    BY <1>1 DEF TightStep
  <1> HIDE DEF ls
  <1>5. /\ n \in Nat /\ n > 0 /\ DOMAIN ls = 1 .. n /\ DOMAIN imgs = 1 .. n
        /\ \A i \in 1 .. n : /\ imgs[i].w \in Int /\ imgs[i].w > 0 /\ imgs[i].w <= 528
                             /\ imgs[i].h \in Int /\ imgs[i].h > 0 /\ imgs[i].h <= ls[i].h
                             /\ ls[i].h \in Int /\ ls[i].h <= 30
    <2>1. LIVE \in Int /\ LIVE > 0 /\ LIVE = 528
      BY PaperIs
    <2>2. n \in Nat /\ n > 0 /\ DOMAIN ls = 1 .. n
      BY <1>1
    <2>3. \A i \in 1 .. n : ls[i].h <= 30
      BY <1>1, <2>2 DEF LowLines
    <2>4. QED
      BY <1>1, <2>1, <2>2, <2>3, FittedLines
  <1> HIDE DEF imgs
  <1>6. area \in Nat /\ area > 0
    BY <1>5
  <1>7. DOMAIN ink = 1 .. n /\ \A i \in 1 .. n : ink[i] = At(imgs[i], 0, 4 + (i - 1) * 22)
    BY <1>5 DEF Zero
  <1> HIDE DEF ink
  <1>8. \A i \in 1 .. n : /\ ink[i].x = 0 /\ ink[i].y = 4 + (i - 1) * 22
                          /\ ink[i].w = imgs[i].w /\ ink[i].h = imgs[i].h
    BY <1>7, AtIs
  <1>9. \A i \in 1 .. n : /\ ink[i].y = 4 + (i - 1) * 22
                          /\ ink[i].h \in Int /\ ink[i].h <= 22 + 8
    <2>1. \A i \in 1 .. n : ink[i].h \in Int /\ ink[i].h <= 30
      <3>1. \A i \in 1 .. n : ink[i].h = imgs[i].h
        BY <1>8
      <3>2. \A i \in 1 .. n : imgs[i].h \in Int /\ imgs[i].h <= 30
        BY <1>5, SMTT(30)
      <3>3. QED
        BY <3>1, <3>2
    <2>2. \A i \in 1 .. n : ink[i].y = 4 + (i - 1) * 22
      BY <1>8
    <2>3. 22 + 8 = 30
      OBVIOUS
    <2>4. QED
      BY <2>1, <2>2, <2>3
  <1>10. /\ \A i \in 1 .. n : /\ ink[i].y \in Int /\ 4 <= ink[i].y
                              /\ ink[i].y + ink[i].h <= 4 + area + 8
         /\ (\A i \in 1 .. n : ink[i].h <= 22) =>
              \A i, j \in DOMAIN ink : i # j => Disjoint(ink[i], ink[j])
    <2> DEFINE e == 8  step == 22  top == 4
    <2>1. step \in Nat /\ top \in Int /\ e \in Nat
      OBVIOUS
    <2>2. \A i \in 1 .. n : /\ ink[i].y = top + (i - 1) * step
                            /\ ink[i].h \in Int /\ ink[i].h <= step + e
      BY <1>9
    <2> HIDE DEF e, step, top
    <2>3. /\ \A i \in 1 .. n : /\ ink[i].y \in Int /\ top <= ink[i].y
                                /\ ink[i].y + ink[i].h <= top + step * n + e
          /\ (\A i \in 1 .. n : ink[i].h <= step) =>
               \A i, j \in DOMAIN ink : i # j => Disjoint(ink[i], ink[j])
      <3>1. n \in Nat /\ DOMAIN ink = 1 .. n
        BY <1>5, <1>7
      <3> HIDE DEF n
      <3>2. QED
        BY <2>1, <2>2, <3>1, TightRows
    <2>4. QED
      BY <2>3 DEF e, step, top
  <1> HIDE DEF area
  <1>11. h \in Nat /\ h > 0 /\ h = 4 + area + 8
    BY <1>6
  <1> HIDE DEF h
  <1>12. \A i \in DOMAIN ink : Snug(ink[i], LIVE, h)
    <2> SUFFICES ASSUME NEW i \in 1 .. n PROVE Snug(ink[i], LIVE, h)
      BY <1>7
    <2>5. ink[i].y \in Int
      BY <1>10
    <2>6. ink[i].x = 0 /\ ink[i].w = imgs[i].w /\ ink[i].h = imgs[i].h
      BY <1>8
    <2>1. IsBox(ink[i]) /\ ink[i].w > 0 /\ ink[i].h > 0
      BY <1>5, <2>5, <2>6 DEF IsBox
    <2>2. 0 <= ink[i].y /\ ink[i].y + ink[i].h <= h
      <3>1. ink[i].y \in Int /\ 4 <= ink[i].y
        BY <1>10
      <3>2. QED
        BY <1>10, <1>11, <3>1
    <2>3. 0 <= ink[i].x /\ ink[i].x + ink[i].w <= LIVE
      BY <1>5, <1>8, PaperIs, SMTT(30)
    <2>4. QED
      BY <2>1, <2>2, <2>3 DEF Snug
  <1>13. TightStep(b) \/ \A i, j \in DOMAIN ink : i # j => Disjoint(ink[i], ink[j])
    <2>1. ASSUME LowLines(ls, 22) PROVE \A i \in 1 .. n : ink[i].h <= 22
      <3>1. \A i \in 1 .. n : ls[i].h <= 22
        BY <1>5, <2>1 DEF LowLines
      <3>2. \A i \in 1 .. n : ink[i].h \in Int /\ ink[i].h <= ls[i].h /\ ls[i].h \in Int
        BY <1>5, <1>8
      <3>3. QED
        BY <3>1, <3>2
    <2>2. QED
      BY <1>4, <1>10, <2>1
  <1>14. QED
    BY <1>2, <1>3, <1>11, <1>12, <1>13, LaySnug

-----------------------------------------------------------------------------
(* Lists: each item's mark, and its lines at their rows.                     *)

\* The lines of the items before, and of one more.
LEMMA LinesFrom ==
    ASSUME NEW items \in Seq(Wrapped)
    PROVE  /\ LinesOf(items, 0) = 0
           /\ \A i \in 1 .. Len(items) :
                /\ LinesOf(items, i) = LinesOf(items, i - 1) + Len(items[i])
                /\ Len(items[i]) \in Nat /\ Len(items[i]) > 0
           /\ \A i \in 0 .. Len(items) : LinesOf(items, i) \in Nat
           /\ \A i, k \in 0 .. Len(items) : i <= k => LinesOf(items, i) <= LinesOf(items, k)
  <1> DEFINE n == Len(items)
             f == [i \in DOMAIN items |-> Len(items[i])]
  <1>1. n \in Nat /\ DOMAIN items = 1 .. n
    OBVIOUS
  <1>2. \A i \in 1 .. n : Len(items[i]) \in Nat /\ Len(items[i]) > 0
    <2>1. \A i \in 1 .. n : items[i] \in Wrapped
      BY ElementsOf
    <2>2. QED
      BY <2>1 DEF Wrapped
  <1>3. \A i \in 1 .. n : f[i] = Len(items[i])
    BY <1>1
  <1>4. \A k : LinesOf(items, k) = Total(f, k)
    BY DEF LinesOf
  <1> HIDE DEF f
  <1>5. \A i \in 1 .. n : f[i] \in Nat
    BY <1>2, <1>3
  <1>6. Total(f, 0) = 0
    BY TotalStep
  <1>7. \A i \in 1 .. n : Total(f, i) = Total(f, i - 1) + f[i]
    <2>1. \A i \in 1 .. n : i \in Nat /\ i > 0
      OBVIOUS
    <2>2. QED
      BY <2>1, TotalFrom
  <1>8. \A i \in 0 .. n : i \in Nat /\ i <= n
    BY <1>1
  <1>9. \A i \in 0 .. n : Total(f, i) \in Nat
    BY <1>1, <1>5, <1>8, TotalNat
  <1>10. \A i, k \in 0 .. n : i <= k => Total(f, i) <= Total(f, k)
    BY <1>1, <1>5, <1>8, TotalGrows
  <1>11. QED
    BY <1>2, <1>3, <1>4, <1>6, <1>7, <1>9, <1>10

\* Rows on the body grid.
LEMMA GridIs ==
    ASSUME NEW l \in Nat, NEW k \in Nat, NEW m \in Nat, l + k <= m, NEW j \in Nat, 1 <= j, j <= k
    PROVE  /\ 26 * l + (j - 1) * 26 \in Int /\ 0 <= 26 * l + (j - 1) * 26
           /\ 26 * l + (j - 1) * 26 + 26 <= 26 * m
           /\ 26 * l \in Int /\ 0 <= 26 * l /\ 26 * l + 26 <= 26 * m /\ 26 * m \in Int
  OBVIOUS

\* Lines of later items lie below.
LEMMA GridBelow ==
    ASSUME NEW l \in Nat, NEW j \in Nat, NEW m \in Nat, NEW k \in Nat, 1 <= j, 1 <= k,
           l + j <= m + (k - 1)
    PROVE  /\ 26 * l + (j - 1) * 26 + 26 <= 26 * m + (k - 1) * 26
           /\ 26 * l + (j - 1) * 26 \in Int /\ 26 * m + (k - 1) * 26 \in Int
  OBVIOUS

\* A list: a mark at each item, left of x, and its lines from x on.
MarksFit(items, x, mark) ==
    \A i \in 1 .. Len(items) :
       /\ IsBox(mark[i]) /\ mark[i].w > 0 /\ mark[i].h > 0
       /\ 0 <= mark[i].x /\ mark[i].x + mark[i].w <= x
       /\ LINE * LinesOf(items, i - 1) <= mark[i].y
       /\ mark[i].y + mark[i].h <= LINE * LinesOf(items, i - 1) + LINE
ListInk(items, x, mark, ink) ==
    /\ DOMAIN ink = UNION {{i} \X (0 .. Len(items[i])) : i \in DOMAIN items}
    /\ \A i \in 1 .. Len(items) : \A j \in 0 .. Len(items[i]) :
          ink[<<i, j>>] = IF j = 0 THEN mark[i]
                          ELSE At(Fit(items[i][j], LIVE - x), x,
                                  LINE * LinesOf(items, i - 1) + (j - 1) * LINE)
LowItems(items) == \A i \in 1 .. Len(items) : LowLines(items[i], LINE)

\* Any list whose marks fit.
LEMMA ListLays ==
    ASSUME NEW b, Overhang(b) \in Nat, Excess(b) \in Nat,
           NEW items \in Seq(Wrapped), Len(items) > 0, LowItems(items),
           NEW x \in Nat, x < LIVE, NEW mark, MarksFit(items, x, mark),
           NEW ink, ListInk(items, x, mark, ink)
    PROVE  /\ Lays(b, Canvas(LINE * LinesOf(items, Len(items)) + 4, ink))
           /\ Whole(Canvas(LINE * LinesOf(items, Len(items)) + 4, ink))
  <1> DEFINE n == Len(items)
             L(i) == LinesOf(items, i)
             h == LINE * L(n) + 4
             Idx(i) == 0 .. Len(items[i])
  <1>1. n \in Nat /\ n > 0 /\ DOMAIN items = 1 .. n
    OBVIOUS
  <1>2. LINE = 26 /\ LIVE = 528
    BY PaperIs
  <1>3. /\ \A i \in 1 .. n : /\ L(i) = L(i - 1) + Len(items[i]) /\ L(i) \in Nat /\ L(i - 1) \in Nat
                             /\ Len(items[i]) \in Nat /\ Len(items[i]) > 0 /\ L(i) <= L(n)
        /\ \A i, k \in 1 .. n : i < k => L(i) <= L(k - 1)
    <2>1. \A i \in 1 .. n : i \in 0 .. n /\ i - 1 \in 0 .. n /\ i <= n /\ n \in 0 .. n
      BY <1>1
    <2>2. \A i, k \in 1 .. n : i < k => i <= k - 1
      OBVIOUS
    <2>3. /\ \A i \in 1 .. n : L(i) = L(i - 1) + Len(items[i]) /\ Len(items[i]) \in Nat /\ Len(items[i]) > 0
          /\ \A i \in 0 .. n : L(i) \in Nat
          /\ \A i, k \in 0 .. n : i <= k => L(i) <= L(k)
      BY LinesFrom
    <2> HIDE DEF L
    <2>4. QED
      BY <2>1, <2>2, <2>3
  <1>4. \A i \in 1 .. n : \A j \in 1 .. Len(items[i]) :
          LET img == Fit(items[i][j], LIVE - x)
          IN  img.w \in Int /\ img.w > 0 /\ x + img.w <= LIVE /\ img.h \in Int /\ img.h > 0 /\ img.h <= 26
    <2> SUFFICES ASSUME NEW i \in 1 .. n, NEW j \in 1 .. Len(items[i])
                 PROVE  LET img == Fit(items[i][j], LIVE - x)
                        IN  /\ img.w \in Int /\ img.w > 0 /\ x + img.w <= LIVE
                            /\ img.h \in Int /\ img.h > 0 /\ img.h <= 26
      OBVIOUS
    <2> DEFINE max == LIVE - x
               img == Fit(items[i][j], max)
    <2>1. items[i] \in Seq(Bitmaps)
      <3>1. items[i] \in Wrapped
        BY ElementsOf
      <3>2. QED
        BY <3>1 DEF Wrapped
    <2>2. items[i][j] \in Bitmaps /\ items[i][j].h <= 26
      <3>1. j \in DOMAIN items[i]
        BY <2>1
      <3>2. QED
        BY <1>2, <2>1, <3>1, ElementsOf DEF LowLines, LowItems
    <2>3. max \in Int /\ max > 0 /\ x + max = LIVE
      BY <1>2
    <2> HIDE DEF max
    <2>4. /\ img.w \in Int /\ img.w > 0 /\ img.w <= max /\ img.h \in Int /\ img.h > 0
          /\ img.h <= items[i][j].h /\ items[i][j].h \in Int
      BY <2>2, <2>3, Fitted
    <2> HIDE DEF img
    <2>51. img.w \in Int /\ img.w > 0
      BY <2>4
    <2>52. x + img.w <= LIVE 
      BY <1>2, <2>3, <2>4
    <2>53. img.h <= 26
      BY <2>2, <2>4
    <2>5. img.w \in Int /\ img.w > 0 /\ x + img.w <= LIVE /\ img.h \in Int /\ img.h > 0 /\ img.h <= 26
      BY <2>51, <2>52, <2>53, <2>4
    <2>6. QED
      BY <2>5 DEF img, max
  <1>5. ASSUME NEW i \in 1 .. n
        PROVE  /\ ink[<<i, 0>>] = mark[i] /\ <<i, 0>> \in DOMAIN ink
               /\ \A j \in 1 .. Len(items[i]) :
                    /\ <<i, j>> \in DOMAIN ink
                    /\ ink[<<i, j>>].x = x /\ ink[<<i, j>>].y = 26 * L(i - 1) + (j - 1) * 26
                    /\ ink[<<i, j>>].w \in Int /\ ink[<<i, j>>].w > 0 /\ x + ink[<<i, j>>].w <= LIVE
                    /\ ink[<<i, j>>].h \in Int /\ ink[<<i, j>>].h > 0 /\ ink[<<i, j>>].h <= 26
    <2>1. 0 \in Idx(i) /\ \A j \in 1 .. Len(items[i]) : j \in Idx(i) /\ j # 0
      BY <1>3
    <2>2. ink[<<i, 0>>] = mark[i]
      BY <2>1 DEF ListInk
    <2>3. \A j \in Idx(i) : <<i, j>> \in DOMAIN ink
      BY <1>1 DEF ListInk
    <2>4. \A j \in 1 .. Len(items[i]) :
            ink[<<i, j>>] = At(Fit(items[i][j], LIVE - x), x, 26 * L(i - 1) + (j - 1) * 26)
      BY <1>2, <2>1, SMTT(30) DEF ListInk
    <2>5. QED
      BY <1>4, <2>1, <2>2, <2>3, <2>4, AtIs, SMTT(30)
  <1>6. \A p \in DOMAIN ink : \E i \in 1 .. n : \E j \in Idx(i) : p = <<i, j>>
    BY <1>1 DEF ListInk
  <1>7. ASSUME NEW i \in 1 .. n
        PROVE  /\ Snug(mark[i], LIVE, h) /\ 26 * L(i - 1) <= mark[i].y /\ mark[i].y + mark[i].h <= 26 * L(i - 1) + 26
               /\ mark[i].x + mark[i].w <= x
               /\ \A j \in 1 .. Len(items[i]) : Snug(ink[<<i, j>>], LIVE, h)
    <2>1. /\ L(i - 1) \in Nat /\ L(i) \in Nat /\ L(n) \in Nat /\ L(i) = L(i - 1) + Len(items[i])
          /\ Len(items[i]) \in Nat /\ Len(items[i]) > 0 /\ L(i) <= L(n) /\ h = 26 * L(n) + 4
      BY <1>1, <1>2, <1>3
    <2>2. /\ IsBox(mark[i]) /\ mark[i].w > 0 /\ mark[i].h > 0
          /\ 0 <= mark[i].x /\ mark[i].x + mark[i].w <= x
          /\ 26 * L(i - 1) <= mark[i].y /\ mark[i].y + mark[i].h <= 26 * L(i - 1) + 26
      BY <1>2 DEF MarksFit
    <2> HIDE DEF L, h
    <2>6. /\ 26 * L(i - 1) \in Int /\ 0 <= 26 * L(i - 1) /\ 26 * L(i - 1) + 26 <= 26 * L(n)
          /\ 26 * L(n) \in Int
      <3>1. L(i - 1) + Len(items[i]) <= L(n) /\ 1 \in Nat /\ 1 <= 1 /\ 1 <= Len(items[i])
        BY <2>1
      <3>2. QED
        BY <2>1, <3>1, GridIs, SMTT(30)
    <2>3. Snug(mark[i], LIVE, h)
      <3> DEFINE p == mark[i]  y == 26 * L(i - 1)  e == 26 * L(n)
      <3>1. /\ y \in Int /\ 0 <= y /\ y + 26 <= e /\ e \in Int /\ h = e + 4
            /\ y <= p.y /\ p.y + p.h <= y + 26
        BY <2>1, <2>2, <2>6
      <3>2. p.x \in Int /\ p.y \in Int /\ p.w \in Int /\ p.h \in Int /\ p.x + p.w <= x /\ x <= LIVE
        BY <1>2, <2>2 DEF IsBox
      <3>3. LIVE \in Int
        BY <1>2
      <3> HIDE DEF p, y, e
      <3>4. 0 <= p.y /\ p.y + p.h <= h
        BY <3>1, <3>2
      <3>5. p.x + p.w <= LIVE
        BY <3>2, <3>3
      <3>6. QED
        BY <2>2, <3>4, <3>5 DEF Snug, p
    <2>4. ASSUME NEW j \in 1 .. Len(items[i]) PROVE Snug(ink[<<i, j>>], LIVE, h)
      <3> DEFINE p == ink[<<i, j>>]
                 y == 26 * L(i - 1) + (j - 1) * 26
                 e == 26 * L(n)
      <3>1. /\ p.x = x /\ p.y = y /\ p.w \in Int /\ p.w > 0 /\ x + p.w <= LIVE
            /\ p.h \in Int /\ p.h > 0 /\ p.h <= 26
        BY <1>5 DEF L
      <3>2. j \in Nat /\ 1 <= j /\ j <= Len(items[i])
        BY <2>1
      <3>3. L(i - 1) + Len(items[i]) <= L(n)
        BY <2>1
      <3>4. y \in Int /\ 0 <= y /\ y + 26 <= e
        BY <2>1, <3>2, <3>3, GridIs
      <3>5. e \in Int /\ h = e + 4
        BY <2>1, <2>6
      <3> HIDE DEF p, y, e
      <3>6. p.y \in Int /\ 0 <= p.y /\ p.y + p.h <= h
        BY <3>1, <3>4, <3>5
      <3>7. Snug(p, LIVE, h)
        BY <3>1, <3>6 DEF Snug, IsBox
      <3>8. QED
        BY <3>7 DEF p
    <2>5. QED
      BY <2>2, <2>3, <2>4 DEF L
  <1>8. h \in Nat /\ h > 0
    <2>1. n \in 1 .. n
      BY <1>1
    <2>2. L(n) \in Nat
      BY <1>3, <2>1
    <2> HIDE DEF L, n
    <2>3. QED
      BY <1>2, <2>2
  <1>9. \A p \in DOMAIN ink : Snug(ink[p], LIVE, h)
    <2> SUFFICES ASSUME NEW i \in 1 .. n, NEW j \in Idx(i) PROVE Snug(ink[<<i, j>>], LIVE, h)
      BY <1>6
    <2>1. j = 0 \/ j \in 1 .. Len(items[i])
      OBVIOUS
    <2>2. QED
      BY <1>5, <1>7, <2>1
  <1>10. ASSUME NEW i \in 1 .. n, NEW j \in Idx(i), NEW k \in 1 .. n, NEW m \in Idx(k), <<i, j>> # <<k, m>>,
                i < k \/ (i = k /\ j < m)
         PROVE  Disjoint(ink[<<i, j>>], ink[<<k, m>>])
    <2> DEFINE p == ink[<<i, j>>]  q == ink[<<k, m>>]
    <2>1. j = 0 \/ j \in 1 .. Len(items[i])
      OBVIOUS
    <2>2. m = 0 \/ m \in 1 .. Len(items[k])
      OBVIOUS
    <2>3. CASE j = 0 /\ m = 0
      <3>1. i < k
        BY <1>10, <2>3
      <3> DEFINE y == 26 * L(i - 1)  z == 26 * L(k - 1)
      <3>2. /\ p = mark[i] /\ q = mark[k] /\ p.y + p.h <= y + 26 /\ z <= q.y
        BY <1>5, <1>7, <2>3
      <3>3. y + 26 <= z /\ y \in Int /\ z \in Int
        <4>1. /\ L(i) = L(i - 1) + Len(items[i]) /\ Len(items[i]) \in Nat /\ Len(items[i]) > 0
              /\ L(i - 1) \in Nat /\ L(i) <= L(k - 1) /\ L(k - 1) \in Nat
          BY <1>3, <3>1
        <4> HIDE DEF L
        <4>2. L(i - 1) + Len(items[i]) <= L(k - 1) /\ 1 \in Nat /\ 1 <= 1 /\ 1 <= Len(items[i])
          BY <4>1
        <4>3. /\ 26 * L(i - 1) + 26 <= 26 * L(k - 1)
              /\ 26 * L(i - 1) \in Int /\ 26 * L(k - 1) \in Int
          BY <4>1, <4>2, GridIs, SMTT(30)
        <4>4. QED
          BY <4>3
      <3>4. p.y \in Int /\ p.h \in Int /\ q.y \in Int
        BY <1>7, <3>2 DEF Snug, IsBox
      <3>5. p.y + p.h <= q.y
        <4> HIDE DEF p, q, y, z
        <4>1. p.y + p.h <= y + 26 /\ z <= q.y
          BY <3>2
        <4>2. QED
          BY <3>3, <3>4, <4>1, SMTT(30)
      <3>6. QED
        BY <3>5, Below
    <2>4. CASE j = 0 /\ m \in 1 .. Len(items[k])
      <3>1. p = mark[i] /\ p.x + p.w <= x /\ q.x = x
        BY <1>5, <1>7, <2>4
      <3>2. QED
        BY <3>1, Beside
    <2>5. CASE j \in 1 .. Len(items[i]) /\ m = 0
      <3>1. q = mark[k] /\ q.x + q.w <= x /\ p.x = x
        BY <1>5, <1>7, <2>5
      <3>2. Disjoint(q, p)
        BY <3>1, Beside
      <3>3. QED
        BY <3>2, Zenon DEF Disjoint
    <2>6. CASE j \in 1 .. Len(items[i]) /\ m \in 1 .. Len(items[k])
      <3>1. /\ p.y = 26 * L(i - 1) + (j - 1) * 26 /\ p.h \in Int /\ p.h <= 26
            /\ q.y = 26 * L(k - 1) + (m - 1) * 26
        BY <1>5, <2>6
      <3>2. /\ L(i) = L(i - 1) + Len(items[i]) /\ Len(items[i]) \in Nat
            /\ L(i - 1) \in Nat /\ L(k - 1) \in Nat /\ Len(items[k]) \in Nat
            /\ i < k => L(i) <= L(k - 1)
        BY <1>3
      <3>3. j \in Nat /\ m \in Nat /\ 1 <= j /\ 1 <= m /\ j <= Len(items[i])
        BY <2>6, <3>2
      <3>4. CASE i < k
        <4>1. L(i - 1) + j <= L(k - 1) + (m - 1)
          <5> HIDE DEF L
          <5>1. QED
            BY <3>2, <3>3, <3>4, SMTT(30)
        <4>2. p.y + p.h <= q.y
          <5> DEFINE y == 26 * L(i - 1) + (j - 1) * 26
                     z == 26 * L(k - 1) + (m - 1) * 26
          <5>1. y + 26 <= z /\ y \in Int /\ z \in Int
            <6> DEFINE l == L(i - 1)  r == L(k - 1)
            <6>1. l \in Nat /\ r \in Nat /\ l + j <= r + (m - 1)
              BY <3>2, <4>1
            <6> HIDE DEF l, r
            <6>2. /\ 26 * l + (j - 1) * 26 + 26 <= 26 * r + (m - 1) * 26
                  /\ 26 * l + (j - 1) * 26 \in Int /\ 26 * r + (m - 1) * 26 \in Int
              BY <3>3, <6>1, GridBelow
            <6>3. QED
              BY <6>2, Zenon DEF l, r
          <5>2. p.y = y /\ q.y = z /\ p.h \in Int /\ p.h <= 26
            BY <3>1
          <5> HIDE DEF p, q, y, z
          <5>3. QED
            BY <5>1, <5>2
        <4>3. QED
          BY <4>2, Below
      <3>5. CASE i = k /\ j < m
        <4>1. p.y + p.h <= q.y
          <5> DEFINE y == 26 * L(i - 1) + (j - 1) * 26
                     z == 26 * L(i - 1) + (m - 1) * 26
          <5>1. y + 26 <= z /\ y \in Int /\ z \in Int
            <6>1. L(i - 1) + j <= L(i - 1) + (m - 1)
              <7> HIDE DEF L
              <7>1. QED
                BY <3>2, <3>3, <3>5
            <6> DEFINE l == L(i - 1)
            <6>2. l \in Nat /\ l + j <= l + (m - 1)
              BY <3>2, <6>1
            <6> HIDE DEF l
            <6>3. /\ 26 * l + (j - 1) * 26 + 26 <= 26 * l + (m - 1) * 26
                  /\ 26 * l + (j - 1) * 26 \in Int /\ 26 * l + (m - 1) * 26 \in Int
              BY <3>3, <6>2, GridBelow
            <6>4. QED
              BY <6>3, Zenon DEF l
          <5>2. p.y = y /\ q.y = z /\ p.h \in Int /\ p.h <= 26
            BY <3>1, <3>5
          <5> HIDE DEF p, q, y, z
          <5>3. QED
            BY <5>1, <5>2
        <4>2. QED
          BY <4>1, Below
      <3>6. QED
        BY <1>10, <3>4, <3>5
    <2>7. QED
      BY <2>1, <2>2, <2>3, <2>4, <2>5, <2>6
  <1>11. \A p, q \in DOMAIN ink : p # q => Disjoint(ink[p], ink[q])
    <2> SUFFICES ASSUME NEW i \in 1 .. n, NEW j \in Idx(i), NEW k \in 1 .. n, NEW m \in Idx(k),
                        <<i, j>> # <<k, m>>
                 PROVE  Disjoint(ink[<<i, j>>], ink[<<k, m>>])
      BY <1>6
    <2>1. i # k \/ j # m
      OBVIOUS
    <2>2. i < k \/ (i = k /\ j < m) \/ k < i \/ (i = k /\ m < j)
      <3>1. i \in Int /\ k \in Int /\ j \in Int /\ m \in Int
        OBVIOUS
      <3>2. QED
        BY <2>1, <3>1
    <2>3. CASE i < k \/ (i = k /\ j < m)
      BY <1>10, <2>3
    <2>4. CASE k < i \/ (i = k /\ m < j)
      <3>1. <<k, m>> # <<i, j>> /\ (k < i \/ (k = i /\ m < j))
        BY <2>4
      <3>2. Disjoint(ink[<<k, m>>], ink[<<i, j>>])
        BY <1>10, <3>1
      <3>3. QED
        BY <3>2, Zenon DEF Disjoint
    <2>5. QED
      BY <2>2, <2>3, <2>4
  <1> HIDE DEF h
  <1>12. Lays(b, Canvas(h, ink)) /\ Whole(Canvas(h, ink))
    BY <1>8, <1>9, <1>11, LaySnug
  <1>13. QED
    BY <1>12 DEF h

\* The items of a list: the one that was wrapped, and the rest.
LEMMA ItemsAre ==
    ASSUME NEW b, b.rest \in Seq(Wrapped), \A i \in DOMAIN b.rest : LowLines(b.rest[i], LINE),
           NEW ls \in Seq(Bitmaps), ls # <<>>, LowLines(ls, LINE)
    PROVE  /\ Items(b, ls) \in Seq(Wrapped) /\ Len(Items(b, ls)) = Len(b.rest) + 1
           /\ Len(Items(b, ls)) \in Nat /\ Len(Items(b, ls)) > 0 /\ LowItems(Items(b, ls))
           /\ DOMAIN Items(b, ls) = 1 .. Len(Items(b, ls))
           /\ Len(b.rest) \in Nat
  <1> DEFINE r == b.rest
             items == Items(b, ls)
  <1>1. r \in Seq(Wrapped) /\ ls \in Wrapped /\ \A i \in DOMAIN r : LowLines(r[i], LINE)
    BY DEF Wrapped
  <1>2. items = <<ls>> \o r
    BY DEF Items
  <1> HIDE DEF r, items
  <1>3. /\ items \in Seq(Wrapped) /\ Len(items) = Len(r) + 1 /\ items[1] = ls /\ Len(r) \in Nat
        /\ \A i \in 2 .. Len(items) : items[i] = r[i - 1] /\ i - 1 \in DOMAIN r
    <2>1. <<ls>> \in Seq(Wrapped) /\ Len(<<ls>>) = 1 /\ <<ls>>[1] = ls
      BY <1>1
    <2>2. QED
      BY <1>1, <1>2, <2>1
  <1>4. \A i \in 1 .. Len(items) : i = 1 \/ i \in 2 .. Len(items)
    BY <1>3
  <1>5. LowItems(items)
    BY <1>1, <1>3, <1>4 DEF LowItems
  <1>6. QED
    BY <1>3, <1>5 DEF r, items

\* checklist
LEMMA ChecklistLays ==
    ASSUME NEW b \in ChecklistBlock, FontsGive(b),
           NEW ls \in Seq(Bitmaps), ls # <<>>, LowLines(ls, LINE)
    PROVE  Lays(b, Checklist(b, ls)) /\ Whole(Checklist(b, ls))
  <1> DEFINE items == Items(b, ls)
             n == Len(items)
             y(i) == LINE * LinesOf(items, i - 1)
             mark == [i \in 1 .. n |-> [x |-> 2, y |-> y(i) + 4, w |-> 17, h |-> 17]]
             ink == [ij \in UNION {{i} \X (0 .. Len(items[i])) : i \in DOMAIN items} |->
                       LET i == ij[1]  j == ij[2]
                       IN  IF j = 0 THEN [x |-> 2, y |-> y(i) + 4, w |-> 17, h |-> 17]
                           ELSE At(Fit(items[i][j], LIVE - 26), 26, y(i) + (j - 1) * LINE)]
  <1>1. /\ b.type = "checklist" /\ b.rest \in Seq(Wrapped)
        /\ \A i \in DOMAIN b.rest : LowLines(b.rest[i], LINE)
    BY DEF ChecklistBlock, FontsGive
  <1>2. Overhang(b) \in Nat /\ Excess(b) \in Nat
    BY <1>1, NoExcess
  <1>3. /\ items \in Seq(Wrapped) /\ n \in Nat /\ n > 0 /\ LowItems(items) /\ DOMAIN items = 1 .. n
    BY <1>1, ItemsAre
  <1>4. Checklist(b, ls) = Canvas(LINE * LinesOf(items, n) + 4, ink)
    BY DEF Checklist, ListOf
  <1> HIDE DEF items
  <1>5. \A i \in 1 .. n : LinesOf(items, i - 1) \in Nat
    <2>1. \A i \in 1 .. n : i - 1 \in 0 .. n
      BY <1>3
    <2>2. QED
      BY <1>3, <2>1, LinesFrom
  <1>6. MarksFit(items, 26, mark)
    <2> SUFFICES ASSUME NEW i \in 1 .. n
                 PROVE  /\ IsBox(mark[i]) /\ mark[i].w > 0 /\ mark[i].h > 0
                        /\ 0 <= mark[i].x /\ mark[i].x + mark[i].w <= 26
                        /\ y(i) <= mark[i].y /\ mark[i].y + mark[i].h <= y(i) + LINE
      BY DEF MarksFit
    <2>1. y(i) \in Int
      BY <1>5, PaperIs
    <2> HIDE DEF y
    <2>2. mark[i].x = 2 /\ mark[i].y = y(i) + 4 /\ mark[i].w = 17 /\ mark[i].h = 17
      OBVIOUS
    <2> HIDE DEF mark
    <2>3. QED
      BY <2>1, <2>2, PaperIs DEF IsBox
  <1>7. ListInk(items, 26, mark, ink)
    <2>1. ASSUME NEW i \in 1 .. n, NEW j \in 0 .. Len(items[i])
          PROVE  ink[<<i, j>>] = IF j = 0 THEN mark[i]
                                 ELSE At(Fit(items[i][j], LIVE - 26), 26, y(i) + (j - 1) * LINE)
      BY <1>3
    <2>2. DOMAIN ink = UNION {{i} \X (0 .. Len(items[i])) : i \in DOMAIN items}
      OBVIOUS
    <2> HIDE DEF ink, mark
    <2>3. QED
      BY <2>1, <2>2 DEF ListInk
  <1>8. 26 \in Nat /\ 26 < LIVE
    BY PaperIs
  <1> HIDE DEF mark, ink
  <1>9. /\ Lays(b, Canvas(LINE * LinesOf(items, n) + 4, ink))
        /\ Whole(Canvas(LINE * LinesOf(items, n) + 4, ink))
    BY <1>2, <1>3, <1>6, <1>7, <1>8, ListLays
  <1>10. QED
    BY <1>4, <1>9

\* bullets
LEMMA BulletsLays ==
    ASSUME NEW b \in BulletsBlock, FontsGive(b),
           NEW ls \in Seq(Bitmaps), ls # <<>>, LowLines(ls, LINE)
    PROVE  Lays(b, Bullets(b, ls)) /\ Whole(Bullets(b, ls))
  <1> DEFINE items == Items(b, ls)
             n == Len(items)
             y(i) == LINE * LinesOf(items, i - 1)
             img == Fit(b.title, 24)
             mark == [i \in 1 .. n |-> At(img, 4, y(i))]
             ink == [ij \in UNION {{i} \X (0 .. Len(items[i])) : i \in DOMAIN items} |->
                       LET i == ij[1]  j == ij[2]
                       IN  IF j = 0 THEN At(img, 4, y(i))
                           ELSE At(Fit(items[i][j], LIVE - 28), 28, y(i) + (j - 1) * LINE)]
  <1>1. /\ b.type = "bullets" /\ b.rest \in Seq(Wrapped) /\ b.title \in Bitmaps /\ b.title.h <= 26
        /\ \A i \in DOMAIN b.rest : LowLines(b.rest[i], LINE)
    BY PaperIs DEF BulletsBlock, FontsGive
  <1>2. Overhang(b) \in Nat /\ Excess(b) \in Nat
    BY <1>1, NoExcess
  <1>3. /\ items \in Seq(Wrapped) /\ n \in Nat /\ n > 0 /\ LowItems(items) /\ DOMAIN items = 1 .. n
    BY <1>1, ItemsAre
  <1>4. Bullets(b, ls) = Canvas(LINE * LinesOf(items, n) + 4, ink)
    BY DEF Bullets, ListOf
  <1>11. /\ img.w \in Int /\ img.w > 0 /\ img.w <= 24 /\ img.h \in Int /\ img.h > 0 /\ img.h <= 26
    <2>1. 24 \in Int /\ 24 > 0
      OBVIOUS
    <2>2. /\ img.w \in Int /\ img.w > 0 /\ img.w <= 24 /\ img.h \in Int /\ img.h > 0 /\ img.h <= b.title.h
          /\ b.title.h \in Int
      BY <1>1, <2>1, Fitted
    <2> HIDE DEF img
    <2>3. QED
      BY <1>1, <2>2
  <1> HIDE DEF items, img
  <1>5. \A i \in 1 .. n : LinesOf(items, i - 1) \in Nat
    <2>1. \A i \in 1 .. n : i - 1 \in 0 .. n
      BY <1>3
    <2>2. QED
      BY <1>3, <2>1, LinesFrom
  <1>6. MarksFit(items, 28, mark)
    <2> SUFFICES ASSUME NEW i \in 1 .. n
                 PROVE  /\ IsBox(mark[i]) /\ mark[i].w > 0 /\ mark[i].h > 0
                        /\ 0 <= mark[i].x /\ mark[i].x + mark[i].w <= 28
                        /\ y(i) <= mark[i].y /\ mark[i].y + mark[i].h <= y(i) + LINE
      BY DEF MarksFit
    <2>1. y(i) \in Int
      BY <1>5, PaperIs
    <2> HIDE DEF y
    <2>2. mark[i].x = 4 /\ mark[i].y = y(i) /\ mark[i].w = img.w /\ mark[i].h = img.h
      BY AtIs
    <2> HIDE DEF mark
    <2>3. QED
      BY <1>11, <2>1, <2>2, PaperIs DEF IsBox
  <1>7. ListInk(items, 28, mark, ink)
    <2>1. ASSUME NEW i \in 1 .. n, NEW j \in 0 .. Len(items[i])
          PROVE  ink[<<i, j>>] = IF j = 0 THEN mark[i]
                                 ELSE At(Fit(items[i][j], LIVE - 28), 28, y(i) + (j - 1) * LINE)
      BY <1>3
    <2>2. DOMAIN ink = UNION {{i} \X (0 .. Len(items[i])) : i \in DOMAIN items}
      OBVIOUS
    <2> HIDE DEF ink, mark
    <2>3. QED
      BY <2>1, <2>2 DEF ListInk
  <1>8. 28 \in Nat /\ 28 < LIVE
    BY PaperIs
  <1> HIDE DEF mark, ink
  <1>9. /\ Lays(b, Canvas(LINE * LinesOf(items, n) + 4, ink))
        /\ Whole(Canvas(LINE * LinesOf(items, n) + 4, ink))
    BY <1>2, <1>3, <1>6, <1>7, <1>8, ListLays
  <1>10. QED
    BY <1>4, <1>9

\* numbered
LEMMA NumberedLays ==
    ASSUME NEW b \in NumberedBlock, Len(b.imgs) = Len(b.rest) + 1, FontsGive(b),
           NEW ls \in Seq(Bitmaps), ls # <<>>, LowLines(ls, LINE)
    PROVE  Lays(b, Numbered(b, ls)) /\ Whole(Numbered(b, ls))
  <1> DEFINE items == Items(b, ls)
             n == Len(items)
             y(i) == LINE * LinesOf(items, i - 1)
             col == PrefixCol(b)
             img(i) == Fit(b.imgs[i], col)
             mark == [i \in 1 .. n |-> At(img(i), col - img(i).w - 4, y(i))]
             ink == [ij \in UNION {{i} \X (0 .. Len(items[i])) : i \in DOMAIN items} |->
                       LET i == ij[1]  j == ij[2]
                       IN  IF j = 0 THEN At(img(i), col - img(i).w - 4, y(i))
                           ELSE At(Fit(items[i][j], LIVE - col), col, y(i) + (j - 1) * LINE)]
  <1>1. /\ b.type = "numbered" /\ b.rest \in Seq(Wrapped) /\ b.imgs \in Seq(Bitmaps)
        /\ LowLines(b.imgs, LINE) /\ col < LIVE
        /\ \A i \in DOMAIN b.imgs : b.imgs[i].w + 4 <= col
        /\ \A i \in DOMAIN b.rest : LowLines(b.rest[i], LINE)
    BY DEF NumberedBlock, FontsGive
  <1>2. Overhang(b) \in Nat /\ Excess(b) \in Nat
    BY <1>1, NoExcess
  <1>3. /\ items \in Seq(Wrapped) /\ n \in Nat /\ n > 0 /\ LowItems(items) /\ DOMAIN items = 1 .. n
        /\ n = Len(b.imgs)
    BY <1>1, ItemsAre
  <1>4. Numbered(b, ls) = Canvas(LINE * LinesOf(items, n) + 4, ink)
    BY DEF Numbered, ListOf
  <1>11. col \in Nat /\ col > 0
    <2> DEFINE last == b.imgs[Len(b.imgs)]
    <2>1. last \in Bitmaps
      <3>1. Len(b.imgs) \in 1 .. Len(b.imgs)
        BY <1>3
      <3>2. QED
        BY <1>1, <3>1, ElementsOf
    <2>2. LIVE \in Int /\ LIVE > 0
      BY PaperIs
    <2>3. Fit(last, LIVE).w \in Int /\ Fit(last, LIVE).w > 0
      BY <2>1, <2>2, Fitted
    <2>4. col = Fit(last, LIVE).w + 12
      BY DEF PrefixCol
    <2> HIDE DEF last, col
    <2>5. QED
      BY <2>3, <2>4
  <1> HIDE DEF items, col
  <1>12. \A i \in 1 .. n : /\ img(i).w \in Int /\ img(i).w > 0 /\ img(i).w + 4 <= col
                           /\ img(i).h \in Int /\ img(i).h > 0 /\ img(i).h <= 26
    <2> SUFFICES ASSUME NEW i \in 1 .. n
                 PROVE  /\ img(i).w \in Int /\ img(i).w > 0 /\ img(i).w + 4 <= col
                        /\ img(i).h \in Int /\ img(i).h > 0 /\ img(i).h <= 26
      OBVIOUS
    <2> DEFINE raw == b.imgs[i]
    <2>1. i \in 1 .. Len(b.imgs) /\ i \in DOMAIN b.imgs
      BY <1>1, <1>3
    <2>2. raw \in Bitmaps
      BY <1>1, <2>1, ElementsOf
    <2>3. raw.w + 4 <= col /\ raw.h <= 26
      BY <1>1, <2>1, PaperIs DEF LowLines
    <2>4. col \in Int
      BY <1>11
    <2>5. /\ Fit(raw, col).w \in Int /\ Fit(raw, col).w > 0 /\ Fit(raw, col).w <= raw.w /\ raw.w \in Int
          /\ Fit(raw, col).h \in Int /\ Fit(raw, col).h > 0 /\ Fit(raw, col).h <= raw.h /\ raw.h \in Int
      BY <1>11, <2>2, <2>4, Fitted
    <2> HIDE DEF raw
    <2>6. Fit(raw, col).w + 4 <= col /\ Fit(raw, col).h <= 26
      BY <2>3, <2>4, <2>5, SMTT(30)
    <2>7. QED
      BY <2>5, <2>6 DEF raw
  <1>5. \A i \in 1 .. n : LinesOf(items, i - 1) \in Nat
    <2>1. \A i \in 1 .. n : i - 1 \in 0 .. n
      BY <1>3
    <2>2. QED
      BY <1>3, <2>1, LinesFrom
  <1> HIDE DEF img
  <1>6. MarksFit(items, col, mark)
    <2> SUFFICES ASSUME NEW i \in 1 .. n
                 PROVE  /\ IsBox(mark[i]) /\ mark[i].w > 0 /\ mark[i].h > 0
                        /\ 0 <= mark[i].x /\ mark[i].x + mark[i].w <= col
                        /\ y(i) <= mark[i].y /\ mark[i].y + mark[i].h <= y(i) + LINE
      BY DEF MarksFit
    <2>1. y(i) \in Int
      BY <1>5, PaperIs
    <2> HIDE DEF y
    <2>2. mark[i].x = col - img(i).w - 4 /\ mark[i].y = y(i) /\ mark[i].w = img(i).w /\ mark[i].h = img(i).h
      BY AtIs
    <2> HIDE DEF mark
    <2>3. /\ img(i).w \in Int /\ img(i).w > 0 /\ img(i).w + 4 <= col
          /\ img(i).h \in Int /\ img(i).h > 0 /\ img(i).h <= 26
      BY <1>12
    <2>4. IsBox(mark[i]) /\ mark[i].w > 0 /\ mark[i].h > 0
      BY <1>11, <2>1, <2>2, <2>3 DEF IsBox
    <2>5. 0 <= mark[i].x /\ mark[i].x + mark[i].w <= col
      BY <1>11, <2>2, <2>3
    <2>6. y(i) <= mark[i].y /\ mark[i].y + mark[i].h <= y(i) + LINE
      BY <2>1, <2>2, <2>3, PaperIs
    <2>7. QED
      BY <2>4, <2>5, <2>6
  <1>7. ListInk(items, col, mark, ink)
    <2>1. ASSUME NEW i \in 1 .. n, NEW j \in 0 .. Len(items[i])
          PROVE  ink[<<i, j>>] = IF j = 0 THEN mark[i]
                                 ELSE At(Fit(items[i][j], LIVE - col), col, y(i) + (j - 1) * LINE)
      BY <1>3
    <2>2. DOMAIN ink = UNION {{i} \X (0 .. Len(items[i])) : i \in DOMAIN items}
      OBVIOUS
    <2> HIDE DEF ink, mark
    <2>3. QED
      BY <2>1, <2>2 DEF ListInk
  <1> HIDE DEF mark, ink
  <1>9. /\ Lays(b, Canvas(LINE * LinesOf(items, n) + 4, ink))
        /\ Whole(Canvas(LINE * LinesOf(items, n) + 4, ink))
    BY <1>1, <1>2, <1>3, <1>6, <1>7, <1>11, ListLays
  <1>10. QED
    BY <1>4, <1>9

-----------------------------------------------------------------------------
(* Pairs of keys and values.                                                 *)

\* A bounded set of numbers has a greatest one.
LEMMA MaxBounded ==
    ASSUME NEW S, S \subseteq Nat, S # {}, NEW M \in Nat, \A x \in S : x <= M
    PROVE  Max(S) \in S /\ \A x \in S : x <= Max(S)
  <1> DEFINE T == {M - x : x \in S}
  <1>1. T \subseteq Nat /\ T # {}
    <2>1. \A x \in S : x \in Nat /\ x <= M
      OBVIOUS
    <2>2. \A x \in S : M - x \in Nat
      BY <2>1
    <2>3. QED
      BY <2>2
  <1>2. PICK t \in T : \A u \in T : t <= u
    BY <1>1, LeastIs
  <1>3. PICK z \in S : t = M - z
    OBVIOUS
  <1>4. \A x \in S : z >= x
    <2> SUFFICES ASSUME NEW x \in S PROVE z >= x
      OBVIOUS
    <2>1. M - z <= M - x
      BY <1>2, <1>3
    <2>2. x \in Int /\ z \in Int
      OBVIOUS
    <2>3. QED
      BY <2>1, <2>2
  <1>5. Max(S) \in S /\ \A x \in S : Max(S) >= x
    BY <1>4 DEF Max
  <1>6. QED
    BY <1>5

\* By how much the values of a kv block are too tall.
LEMMA KvExcess ==
    ASSUME NEW b, b.type = "kv", b.pairs \in Seq(Wrapped)
    PROVE  /\ Excess(b) \in Nat
           /\ \A i \in DOMAIN b.pairs : \A j \in DOMAIN b.pairs[i] : b.pairs[i][j].h <= LINE + Excess(b)
  <1> DEFINE pairs == b.pairs
             n == Len(pairs)
             mx(i) == Max({0} \cup TooTall(pairs[i], LINE))
             m == [i \in 1 .. n |-> mx(i)]
             S == {0} \cup UNION {TooTall(pairs[i], LINE) : i \in DOMAIN pairs}
             M == Max({0} \cup {m[i] : i \in 1 .. n})
  <1>1. Excess(b) = Max(S)
    BY DEF Excess
  <1>2. n \in Nat /\ DOMAIN pairs = 1 .. n /\ \A i \in 1 .. n : pairs[i] \in Seq(Bitmaps) /\ DOMAIN pairs[i] = 1 .. Len(pairs[i])
    <2>1. \A i \in 1 .. n : pairs[i] \in Wrapped
      BY ElementsOf
    <2>2. QED
      BY <2>1 DEF Wrapped
  <1> HIDE DEF pairs
  <1>3. \A i \in 1 .. n : /\ mx(i) \in Nat
                          /\ \A j \in 1 .. Len(pairs[i]) : pairs[i][j].h <= LINE + mx(i)
    <2> SUFFICES ASSUME NEW i \in 1 .. n
                 PROVE  /\ mx(i) \in Nat
                        /\ \A j \in 1 .. Len(pairs[i]) : pairs[i][j].h <= LINE + mx(i)
      OBVIOUS
    <2>1. LINE \in Int /\ pairs[i] \in Seq(Bitmaps)
      BY <1>2, PaperIs
    <2>2. QED
      BY <2>1, TooTallIs
  <1>4. \A i \in 1 .. n : \A j \in 1 .. Len(pairs[i]) : pairs[i][j].h \in Int
    <2>1. \A i \in 1 .. n : \A j \in 1 .. Len(pairs[i]) : pairs[i][j] \in Bitmaps
      BY <1>2, ElementsOf
    <2>2. QED
      BY <2>1 DEF Bitmaps
  <1> HIDE DEF mx
  <1>5. \A i \in 1 .. n : m[i] = mx(i) /\ m[i] \in Int
    BY <1>3
  <1> HIDE DEF m
  <1>6. M \in Nat /\ \A i \in 1 .. n : m[i] <= M
    <2>1. (1 .. n) \in SUBSET (1 .. n)
      OBVIOUS
    <2>2. QED
      BY <1>2, <1>5, <2>1, MaxOrZero
  <1> HIDE DEF M
  <1>7. \A t \in S : t \in Nat /\ t <= M
    <2> SUFFICES ASSUME NEW t \in S PROVE t \in Nat /\ t <= M
      OBVIOUS
    <2>1. CASE t = 0
      BY <1>6, <2>1
    <2>2. CASE t # 0
      <3>1. PICK i \in 1 .. n : t \in TooTall(pairs[i], LINE)
        BY <1>2, <2>2
      <3>2. PICK j \in 1 .. Len(pairs[i]) : t = pairs[i][j].h - LINE /\ pairs[i][j].h > LINE
        BY <1>2, <3>1 DEF TooTall
      <3>3. pairs[i][j].h \in Int /\ pairs[i][j].h <= LINE + mx(i) /\ mx(i) \in Nat /\ mx(i) <= M
        BY <1>3, <1>4, <1>5, <1>6
      <3>4. QED
        BY <1>6, <3>2, <3>3, PaperIs, SMTT(30)
    <2>3. QED
      BY <2>1, <2>2
  <1>8. Max(S) \in S /\ \A t \in S : t <= Max(S)
    <2>1. S \subseteq Nat /\ S # {} /\ \A t \in S : t <= M
      BY <1>7
    <2> HIDE DEF S
    <2>2. QED
      BY <1>6, <2>1, MaxBounded
  <1>9. Max(S) \in Nat
    BY <1>7, <1>8
  <1>10. ASSUME NEW i \in 1 .. n, NEW j \in 1 .. Len(pairs[i]) PROVE pairs[i][j].h <= LINE + Max(S)
    <2>1. CASE pairs[i][j].h > LINE
      <3>1. pairs[i][j].h - LINE \in S
        <4>1. j \in DOMAIN pairs[i] /\ i \in DOMAIN pairs
          BY <1>2
        <4>2. pairs[i][j].h - LINE \in TooTall(pairs[i], LINE)
          BY <2>1, <4>1 DEF TooTall
        <4>3. QED
          BY <4>1, <4>2
      <3>2. pairs[i][j].h - LINE <= Max(S)
        BY <1>8, <3>1
      <3> HIDE DEF S
      <3>3. QED
        BY <1>4, <1>9, <3>2, PaperIs
    <2>2. CASE ~(pairs[i][j].h > LINE)
      <3> HIDE DEF S
      <3>1. QED
        BY <1>4, <1>9, <2>2, PaperIs
    <2>3. QED
      BY <2>1, <2>2
  <1>11. QED
    BY <1>1, <1>2, <1>9, <1>10 DEF pairs

\* Sums of numbers, in order.
LEMMA TotalsAre ==
    ASSUME NEW n \in Nat, NEW f, \A i \in 1 .. n : f[i] \in Nat
    PROVE  /\ Total(f, 0) = 0
           /\ \A i \in 1 .. n : Total(f, i) = Total(f, i - 1) + f[i]
           /\ \A i \in 0 .. n : Total(f, i) \in Nat
           /\ \A i, k \in 0 .. n : i <= k => Total(f, i) <= Total(f, k)
  <1>1. Total(f, 0) = 0
    BY TotalStep
  <1>2. \A i \in 1 .. n : Total(f, i) = Total(f, i - 1) + f[i]
    <2>1. \A i \in 1 .. n : i \in Nat /\ i > 0
      OBVIOUS
    <2>2. QED
      BY <2>1, TotalFrom
  <1>3. \A i \in 0 .. n : i \in Nat /\ i <= n
    OBVIOUS
  <1>4. \A i \in 0 .. n : Total(f, i) \in Nat
    BY <1>3, TotalNat
  <1>5. \A i, k \in 0 .. n : i <= k => Total(f, i) <= Total(f, k)
    BY <1>3, TotalGrows
  <1>6. QED
    BY <1>1, <1>2, <1>4, <1>5

\* The last row of a cell ends on the grid.
LEMMA FootIs ==
    ASSUME NEW t \in Nat, NEW r \in Nat, NEW m \in Nat, t + r <= m, NEW j \in Nat, 1 <= j, j <= r
    PROVE  /\ 26 * t + j * 26 \in Int /\ 26 <= 26 * t + j * 26 /\ 26 * t + j * 26 <= 26 * m
           /\ 26 * m \in Int
  OBVIOUS

\* kv
LEMMA KvLays ==
    ASSUME NEW b \in KvBlock, Len(b.pairs) = Len(b.rest) + 1, FontsGive(b),
           NEW ls \in Seq(Bitmaps), ls # <<>>, LowLines(ls, LINE)
    PROVE  Lays(b, Kv(b, ls)) /\ Whole(Kv(b, ls))
  <1> DEFINE keys == Items(b, ls)
             pairs == b.pairs
             n == Len(keys)
             rows == [i \in DOMAIN keys |-> Larger(Len(keys[i]), Len(pairs[i]))]
             R(i) == Total(rows, i)
             text(x) == IF x = 0 THEN keys ELSE pairs
             cell(x, i, j) == Fit(text(x)[i][j], IF x = 0 THEN 192 ELSE LIVE - 200)
             extra == Excess(b)
             h == LINE * Total(rows, Len(keys) + 1 - 1) + 4
             ink == [xij \in UNION {{x} \X {i} \X (1 .. Len(text(x)[i])) : x \in {0, 200}, i \in DOMAIN keys} |->
                      LET x == xij[1]  i == xij[2]  j == xij[3]
                      IN  At(cell(x, i, j), x, LINE * Total(rows, i - 1) + j * LINE - cell(x, i, j).h)]
  <1>1. /\ b.type = "kv" /\ b.rest \in Seq(Wrapped) /\ pairs \in Seq(Wrapped)
        /\ \A i \in DOMAIN b.rest : LowLines(b.rest[i], LINE)
    BY DEF KvBlock, FontsGive
  <1>2. Overhang(b) = 0 /\ LINE = 26 /\ LIVE = 528
    BY <1>1, NoExcess, PaperIs
  <1>3. Kv(b, ls) = Canvas(h, ink)
    BY DEF Kv
  <1>4. /\ keys \in Seq(Wrapped) /\ n \in Nat /\ n > 0 /\ LowItems(keys) /\ DOMAIN keys = 1 .. n
        /\ n = Len(pairs) /\ DOMAIN pairs = 1 .. n
    BY <1>1, ItemsAre
  <1>5. /\ extra \in Nat
        /\ \A i \in 1 .. n : \A j \in DOMAIN pairs[i] : pairs[i][j].h <= 26 + extra
    BY <1>1, <1>2, <1>4, KvExcess
  <1>6. TightStep(b) = \E i \in 1 .. n : ~LowLines(pairs[i], 26)
    BY <1>1, <1>2, <1>4 DEF TightStep
  <1> HIDE DEF keys, pairs, extra
  <1>7. \A x \in {0, 200} : \A i \in 1 .. n :
          /\ text(x)[i] \in Seq(Bitmaps) /\ Len(text(x)[i]) \in Nat /\ Len(text(x)[i]) > 0
          /\ DOMAIN text(x)[i] = 1 .. Len(text(x)[i])
    <2>1. \A i \in 1 .. n : keys[i] \in Wrapped /\ pairs[i] \in Wrapped
      BY <1>1, <1>4, ElementsOf
    <2>2. QED
      BY <2>1 DEF Wrapped
  <1>8. \A i \in 1 .. n : /\ rows[i] \in Nat /\ rows[i] > 0
                          /\ \A x \in {0, 200} : Len(text(x)[i]) <= rows[i]
    <2>1. ASSUME NEW i \in 1 .. n
          PROVE  /\ rows[i] \in Nat /\ rows[i] > 0
                 /\ Len(keys[i]) <= rows[i] /\ Len(pairs[i]) <= rows[i]
      <3>1. /\ Len(keys[i]) \in Int /\ Len(pairs[i]) \in Int /\ Len(keys[i]) > 0
        <4>1. text(0)[i] = keys[i] /\ text(200)[i] = pairs[i]
          OBVIOUS
        <4>2. QED
          BY <1>7, <4>1
      <3>2. rows[i] = Larger(Len(keys[i]), Len(pairs[i]))
        BY <1>4
      <3> HIDE DEF rows
      <3>3. rows[i] \in Int /\ Len(keys[i]) <= rows[i] /\ Len(pairs[i]) <= rows[i]
        BY <3>1, <3>2, LargerIs
      <3>4. QED
        BY <3>1, <3>3
    <2>2. \A x \in {0, 200} : text(x) = keys \/ text(x) = pairs
      OBVIOUS
    <2> HIDE DEF rows, text
    <2>3. QED
      BY <2>1, <2>2
  <1> HIDE DEF rows
  <1>9. /\ \A i \in 1 .. n : R(i) = R(i - 1) + rows[i] /\ R(i) \in Nat /\ R(i - 1) \in Nat /\ R(i) <= R(n)
        /\ \A i, k \in 1 .. n : i < k => R(i) <= R(k - 1)
    <2>1. \A i \in 1 .. n : i \in 0 .. n /\ i - 1 \in 0 .. n /\ i <= n /\ n \in 0 .. n
      BY <1>4
    <2>2. \A i, k \in 1 .. n : i < k => i <= k - 1
      OBVIOUS
    <2>3. /\ \A i \in 1 .. n : R(i) = R(i - 1) + rows[i]
          /\ \A i \in 0 .. n : R(i) \in Nat
          /\ \A i, k \in 0 .. n : i <= k => R(i) <= R(k)
      BY <1>4, <1>8, TotalsAre, ZenonT(30)
    <2> HIDE DEF R
    <2>4. QED
      BY <2>1, <2>2, <2>3
  <1>10. h = 26 * R(n) + 4
    <2>1. Len(keys) + 1 - 1 = n
      BY <1>4
    <2>2. QED
      BY <1>2, <2>1
  <1> DEFINE Idx(x, i) == 1 .. Len(text(x)[i])
             foot(i, j) == 26 * R(i - 1) + j * 26
  <1>11. \A x \in {0, 200} : \A i \in 1 .. n : \A j \in Idx(x, i) :
           /\ cell(x, i, j).w \in Int /\ cell(x, i, j).w > 0 /\ x + cell(x, i, j).w <= 528
           /\ x = 0 => cell(x, i, j).w <= 200
           /\ cell(x, i, j).h \in Int /\ cell(x, i, j).h > 0 /\ cell(x, i, j).h <= 26 + extra
           /\ TightStep(b) \/ cell(x, i, j).h <= 26
    <2> SUFFICES ASSUME NEW x \in {0, 200}, NEW i \in 1 .. n, NEW j \in Idx(x, i)
                 PROVE  /\ cell(x, i, j).w \in Int /\ cell(x, i, j).w > 0 /\ x + cell(x, i, j).w <= 528
                        /\ x = 0 => cell(x, i, j).w <= 200
                        /\ cell(x, i, j).h \in Int /\ cell(x, i, j).h > 0 /\ cell(x, i, j).h <= 26 + extra
                        /\ TightStep(b) \/ cell(x, i, j).h <= 26
      <3> HIDE DEF cell, Idx
      <3>1. QED
        OBVIOUS
    <2> DEFINE img == text(x)[i][j]
               max == IF x = 0 THEN 192 ELSE LIVE - 200
               c == Fit(img, max)
    <2>1. img \in Bitmaps
      BY <1>7, ElementsOf
    <2>2. max \in Int /\ max > 0 /\ x + max <= 528 /\ (x = 0 => max = 192) /\ x \in Int
      BY <1>2
    <2>3. img.h <= 26 + extra /\ (TightStep(b) \/ img.h <= 26)
      <3>1. CASE x = 0
        <4>1. j \in DOMAIN keys[i] /\ img = keys[i][j]
          BY <1>7, <3>1
        <4>2. img.h <= 26
          BY <1>2, <1>4, <4>1 DEF LowItems, LowLines
        <4>3. img.h \in Int
          BY <2>1 DEF Bitmaps
        <4> HIDE DEF img
        <4>4. QED
          BY <1>5, <4>2, <4>3
      <3>2. CASE x = 200
        <4>1. j \in DOMAIN pairs[i] /\ img = pairs[i][j]
          BY <1>7, <3>2
        <4>2. img.h <= 26 + extra
          BY <1>5, <4>1
        <4>3. TightStep(b) \/ img.h <= 26
          BY <1>6, <4>1 DEF LowLines
        <4>4. QED
          BY <4>2, <4>3
      <3>3. QED
        BY <3>1, <3>2
    <2>4. cell(x, i, j) = c
      OBVIOUS
    <2> HIDE DEF img, max
    <2>5. /\ c.w \in Int /\ c.w > 0 /\ c.w <= max /\ c.h \in Int /\ c.h > 0 /\ c.h <= img.h /\ img.h \in Int
      BY <2>1, <2>2, Fitted
    <2> HIDE DEF c, cell
    <2>6. x + c.w <= 528 /\ (x = 0 => c.w <= 200)
      BY <2>2, <2>5
    <2>7. c.h <= 26 + extra
      BY <1>5, <2>3, <2>5
    <2>8. TightStep(b) \/ c.h <= 26
      BY <2>3, <2>5
    <2>9. QED
      BY <2>4, <2>5, <2>6, <2>7, <2>8
  <1>12. \A x \in {0, 200} : \A i \in 1 .. n : \A j \in Idx(x, i) :
           /\ <<x, i, j>> \in DOMAIN ink
           /\ ink[<<x, i, j>>].x = x /\ ink[<<x, i, j>>].y = foot(i, j) - cell(x, i, j).h
           /\ ink[<<x, i, j>>].w = cell(x, i, j).w /\ ink[<<x, i, j>>].h = cell(x, i, j).h
    <2> SUFFICES ASSUME NEW x \in {0, 200}, NEW i \in 1 .. n, NEW j \in Idx(x, i)
                 PROVE  /\ <<x, i, j>> \in DOMAIN ink
                        /\ ink[<<x, i, j>>].x = x /\ ink[<<x, i, j>>].y = foot(i, j) - cell(x, i, j).h
                        /\ ink[<<x, i, j>>].w = cell(x, i, j).w /\ ink[<<x, i, j>>].h = cell(x, i, j).h
      <3> HIDE DEF ink, cell, foot, Idx
      <3>1. QED
        OBVIOUS
    <2> DEFINE g == LINE * Total(rows, i - 1) + j * LINE
               y == LINE * Total(rows, i - 1) + (j * LINE - cell(x, i, j).h)
    <2>1. <<x, i, j>> \in DOMAIN ink
      <3> HIDE DEF text
      <3>1. <<x, i, j>> \in {x} \X {i} \X (1 .. Len(text(x)[i]))
        OBVIOUS
      <3>2. i \in DOMAIN keys
        BY <1>4
      <3>3. DOMAIN ink = UNION {{z} \X {k} \X (1 .. Len(text(z)[k])) : z \in {0, 200}, k \in DOMAIN keys}
        OBVIOUS
      <3> HIDE DEF ink
      <3> DEFINE D(z, k) == {z} \X {k} \X (1 .. Len(text(z)[k]))
      <3>4. <<x, i, j>> \in D(x, i) /\ DOMAIN ink = UNION {D(z, k) : z \in {0, 200}, k \in DOMAIN keys}
        BY <3>1, <3>3
      <3> HIDE DEF D
      <3>5. QED
        BY <3>2, <3>4
    <2> HIDE DEF cell, text
    <2>2. ink[<<x, i, j>>] = At(cell(x, i, j), x, y)
      <3> DEFINE V(z, k, m) == At(cell(z, k, m), z, LINE * Total(rows, k - 1) + m * LINE - cell(z, k, m).h)
      <3>1. \A t \in DOMAIN ink : ink[t] = V(t[1], t[2], t[3])
        OBVIOUS
      <3>2. V(x, i, j) = At(cell(x, i, j), x, y)
        BY Zenon
      <3> HIDE DEF ink, V
      <3>3. ink[<<x, i, j>>] = V(x, i, j)
        BY <2>1, <3>1
      <3>4. QED
        BY <3>2, <3>3
    <2> HIDE DEF ink
    <2>3. y = foot(i, j) - cell(x, i, j).h
      <3> DEFINE c == cell(x, i, j).h  t == Total(rows, i - 1)
      <3>1. c \in Int /\ j \in Int
        BY <1>11
      <3>2. t \in Int
        BY <1>9
      <3>3. y = LINE * t + (j * LINE - c) /\ foot(i, j) = 26 * t + j * 26
        OBVIOUS
      <3> HIDE DEF c, t, y, foot
      <3>4. y = foot(i, j) - c
        BY <1>2, <3>1, <3>2, <3>3
      <3>5. QED
        BY <3>4 DEF c
    <2> HIDE DEF y, foot
    <2>4. QED
      BY <2>1, <2>2, <2>3, AtIs
  <1>13. \A p \in DOMAIN ink : \E x \in {0, 200} : \E i \in 1 .. n : \E j \in Idx(x, i) : p = <<x, i, j>>
    <2> HIDE DEF cell, text
    <2> SUFFICES ASSUME NEW p \in DOMAIN ink
                 PROVE  \E x \in {0, 200} : \E i \in 1 .. n : \E j \in Idx(x, i) : p = <<x, i, j>>
      OBVIOUS
    <2>1. DOMAIN ink = UNION {{z} \X {k} \X (1 .. Len(text(z)[k])) : z \in {0, 200}, k \in DOMAIN keys}
      OBVIOUS
    <2> HIDE DEF ink
    <2>2. PICK x \in {0, 200}, i \in 1 .. n : p \in {x} \X {i} \X (1 .. Len(text(x)[i]))
      BY <1>4, <2>1, SMTT(30)
    <2>3. QED
      BY <2>2
  <1>14. \A x \in {0, 200} : \A i \in 1 .. n : \A j \in Idx(x, i) :
           j \in Nat /\ 1 <= j /\ j <= Len(text(x)[i])
    <2> HIDE DEF text
    <2>1. QED
      BY <1>7
  <1>15. \A i \in 1 .. n : \A j : foot(i, j) = 26 * R(i - 1) + j * 26
    OBVIOUS
  <1> HIDE DEF ink, cell, text, R, Idx, foot
  <1>16. ASSUME NEW x \in {0, 200}, NEW i \in 1 .. n, NEW j \in Idx(x, i)
         PROVE  /\ R(i - 1) \in Nat /\ j \in Nat /\ 1 <= j /\ j <= rows[i] /\ rows[i] \in Nat
                /\ R(i - 1) + rows[i] <= R(n) /\ R(n) \in Nat
                /\ foot(i, j) \in Int /\ 26 <= foot(i, j) /\ foot(i, j) <= 26 * R(n) /\ 26 * R(n) \in Int
    <2>1. j \in Nat /\ 1 <= j /\ j <= Len(text(x)[i]) /\ Len(text(x)[i]) \in Nat /\ Len(text(x)[i]) <= rows[i]
      BY <1>7, <1>8, <1>14
    <2>2. rows[i] \in Nat
      BY <1>8
    <2>3. R(i - 1) \in Nat /\ R(i) = R(i - 1) + rows[i] /\ R(i) <= R(n)
      BY <1>9
    <2>4. n \in 1 .. n
      BY <1>4
    <2>5. R(n) \in Nat
      BY <1>9, <2>4
    <2>6. j <= rows[i] /\ R(i - 1) + rows[i] <= R(n)
      BY <2>1, <2>2, <2>3
    <2>7. /\ 26 * R(i - 1) + j * 26 \in Int /\ 26 <= 26 * R(i - 1) + j * 26
          /\ 26 * R(i - 1) + j * 26 <= 26 * R(n) /\ 26 * R(n) \in Int
      <3> DEFINE t == R(i - 1)  r == rows[i]  m == R(n)
      <3>1. t \in Nat /\ r \in Nat /\ m \in Nat /\ t + r <= m /\ j \in Nat /\ 1 <= j /\ j <= r
        BY <2>1, <2>2, <2>3, <2>5, <2>6
      <3> HIDE DEF t, r, m
      <3>2. /\ 26 * t + j * 26 \in Int /\ 26 <= 26 * t + j * 26
            /\ 26 * t + j * 26 <= 26 * m /\ 26 * m \in Int
        BY <3>1, FootIs
      <3>3. QED
        BY <3>2, Zenon DEF t, m
    <2>8. foot(i, j) = 26 * R(i - 1) + j * 26
      BY <1>15
    <2>9. QED
      BY <2>1, <2>2, <2>3, <2>5, <2>6, <2>7, <2>8, Zenon
  <1> DEFINE cv == Canvas(h, ink)
  <1>17. h \in Nat /\ h > 0
    <2>1. n \in 1 .. n
      BY <1>4
    <2>2. R(n) \in Nat
      BY <1>9, <2>1
    <2> HIDE DEF R, h
    <2>3. QED
      BY <1>10, <2>2
  <1>18. cv.w = 528 /\ cv.h = h /\ h = 26 * R(n) + 4
    BY <1>2, <1>10 DEF Canvas
  <1> HIDE DEF h, cv
  <1>19. ASSUME NEW x \in {0, 200}, NEW i \in 1 .. n, NEW j \in Idx(x, i)
         PROVE  LET p == ink[<<x, i, j>>]
                IN  IsBox(p) /\ OnPaper(p, b, cv) /\ p.w > 0 /\ p.h > 0
    <2> DEFINE p == ink[<<x, i, j>>]
               c == cell(x, i, j)
               f == foot(i, j)
               e == 26 * R(n)
    <2>1. f \in Int /\ 26 <= f /\ f <= e /\ e \in Int
      BY <1>16
    <2>2. /\ c.w \in Int /\ c.w > 0 /\ x + c.w <= 528
          /\ c.h \in Int /\ c.h > 0 /\ c.h <= 26 + extra
      BY <1>11
    <2>3. p.x = x /\ p.y = f - c.h /\ p.w = c.w /\ p.h = c.h
      BY <1>12
    <2>4. cv.w = 528 /\ cv.h = e + 4
      BY <1>18
    <2> HIDE DEF p, c, f, e
    <2>5. IsBox(p) /\ p.w > 0 /\ p.h > 0
      BY <2>1, <2>2, <2>3 DEF IsBox
    <2>6. p.y >= 0 - extra
      BY <1>5, <2>1, <2>2, <2>3
    <2>7. p.y + p.h = f
      BY <2>1, <2>2, <2>3
    <2>8. p.y + p.h <= cv.h + extra
      BY <1>5, <2>1, <2>4, <2>7
    <2>9. p.x >= 0 - 0 /\ p.x + p.w <= cv.w + 0
      BY <2>2, <2>3, <2>4
    <2>10. OnPaper(p, b, cv)
      BY <1>2, <2>6, <2>8, <2>9 DEF OnPaper, extra
    <2>11. QED
      BY <2>5, <2>10 DEF p
  <1>20. ASSUME ~TightStep(b), NEW x \in {0, 200}, NEW i \in 1 .. n, NEW k \in 1 .. n,
                NEW j \in Idx(x, i), NEW m \in Idx(x, k), i < k \/ (i = k /\ j < m)
         PROVE  ink[<<x, i, j>>].y + ink[<<x, i, j>>].h <= ink[<<x, k, m>>].y
    <2> DEFINE p == ink[<<x, i, j>>]  q == ink[<<x, k, m>>]
               f == foot(i, j)  g == foot(k, m)
               c == cell(x, i, j)  d == cell(x, k, m)
    <2>1. /\ R(i - 1) \in Nat /\ j \in Nat /\ 1 <= j /\ j <= rows[i] /\ rows[i] \in Nat
          /\ R(k - 1) \in Nat /\ m \in Nat /\ 1 <= m
      <3>1. /\ R(i - 1) \in Nat /\ j \in Nat /\ 1 <= j /\ j <= rows[i] /\ rows[i] \in Nat
        BY <1>16
      <3>2. R(k - 1) \in Nat /\ m \in Nat /\ 1 <= m
        BY <1>16
      <3>3. QED
        BY <3>1, <3>2
    <2>2. R(i - 1) + j < R(k - 1) + m
      <3>1. CASE i < k
        <4>1. R(i) = R(i - 1) + rows[i] /\ R(i) <= R(k - 1)
          BY <1>9, <3>1
        <4>2. QED
          BY <2>1, <4>1, SMTT(30)
      <3>2. CASE i = k /\ j < m
        <4>1. QED
          BY <2>1, <3>2
      <3>3. QED
        BY <1>20, <3>1, <3>2
    <2>3. f + 26 <= g /\ f \in Int /\ g \in Int
      <3>1. /\ 26 * R(i - 1) + j * 26 + 26 <= 26 * R(k - 1) + m * 26
            /\ 26 * R(i - 1) + j * 26 \in Int /\ 26 * R(k - 1) + m * 26 \in Int
        <4> DEFINE t == R(i - 1)  u == R(k - 1)
        <4>1. t \in Nat /\ u \in Nat /\ t + j < u + m /\ j \in Nat /\ m \in Nat
          BY <2>1, <2>2
        <4> HIDE DEF t, u
        <4>2. 26 * t + j * 26 + 26 <= 26 * u + m * 26 /\ 26 * t + j * 26 \in Int /\ 26 * u + m * 26 \in Int
          BY <4>1
        <4>3. QED
          BY <4>2 DEF t, u
      <3>2. QED
        BY <1>15, <3>1
    <2>4. p.y = f - c.h /\ p.h = c.h /\ c.h \in Int
      BY <1>11, <1>12
    <2>5. q.y = g - d.h /\ d.h \in Int /\ d.h <= 26
      <3>1. q.y = g - d.h
        BY <1>12
      <3>2. d.h \in Int /\ d.h <= 26
        BY <1>11, <1>20
      <3>3. QED
        BY <3>1, <3>2
    <2> HIDE DEF p, q, f, g, c, d
    <2>6. p.y + p.h <= q.y
      BY <2>3, <2>4, <2>5
    <2>7. QED
      BY <2>6 DEF p, q
  <1>21. ASSUME ~TightStep(b), NEW x \in {0, 200}, NEW i \in 1 .. n, NEW j \in Idx(x, i),
                NEW u \in {0, 200}, NEW k \in 1 .. n, NEW m \in Idx(u, k), <<x, i, j>> # <<u, k, m>>
         PROVE  Disjoint(ink[<<x, i, j>>], ink[<<u, k, m>>])
    <2> DEFINE p == ink[<<x, i, j>>]  q == ink[<<u, k, m>>]
    <2>1. /\ p.x = x /\ q.x = u /\ p.w \in Int /\ q.w \in Int
          /\ (x = 0 => p.w <= 200) /\ (u = 0 => q.w <= 200)
      <3>1. p.x = x /\ p.w \in Int /\ (x = 0 => p.w <= 200)
        BY <1>11, <1>12
      <3>2. q.x = u /\ q.w \in Int /\ (u = 0 => q.w <= 200)
        BY <1>11, <1>12, SMTT(30)
      <3>3. QED
        BY <3>1, <3>2
    <2>2. CASE x = 0 /\ u = 200
      <3> HIDE DEF p, q
      <3>1. p.x + p.w <= q.x
        BY <2>1, <2>2
      <3>2. Disjoint(p, q)
        BY <3>1, Beside
      <3>3. QED
        BY <3>2 DEF p, q
    <2>3. CASE x = 200 /\ u = 0
      <3> HIDE DEF p, q
      <3>1. q.x + q.w <= p.x
        BY <2>1, <2>3
      <3>2. Disjoint(p, q)
        BY <3>1, Zenon DEF Disjoint
      <3>3. QED
        BY <3>2 DEF p, q
    <2>4. CASE x = u
      <3>1. i # k \/ j # m
        BY <1>21, <2>4
      <3>2. i < k \/ (i = k /\ j < m) \/ k < i \/ (i = k /\ m < j)
        <4>1. i \in Int /\ k \in Int /\ j \in Int /\ m \in Int
          BY <1>14
        <4>2. QED
          BY <3>1, <4>1
      <3>3. CASE i < k \/ (i = k /\ j < m)
        <4>1. p.y + p.h <= q.y
          BY <1>20, <1>21, <2>4, <3>3
        <4>2. QED
          BY <4>1, Below
      <3>4. CASE k < i \/ (i = k /\ m < j)
        <4>1. q.y + q.h <= p.y
          <5>1. k < i \/ (k = i /\ m < j)
            BY <3>4
          <5>2. QED
            BY <1>20, <1>21, <2>4, <5>1
        <4>2. QED
          BY <4>1, Zenon DEF Disjoint
      <3>5. QED
        BY <3>2, <3>3, <3>4
    <2>5. QED
      BY <2>2, <2>3, <2>4
  <1> DEFINE Apart(x, i, j, u, k, m) ==
               <<x, i, j>> # <<u, k, m>> => Disjoint(ink[<<x, i, j>>], ink[<<u, k, m>>])
  <1>22. ~TightStep(b) =>
           \A x \in {0, 200} : \A i \in 1 .. n : \A j \in Idx(x, i) :
             \A u \in {0, 200} : \A k \in 1 .. n : \A m \in Idx(u, k) : Apart(x, i, j, u, k, m)
    BY <1>21, Zenon
  <1> HIDE DEF Apart
  <1>23. \A p \in DOMAIN ink : IsBox(ink[p]) /\ OnPaper(ink[p], b, cv) /\ ink[p].w > 0 /\ ink[p].h > 0
    BY <1>13, <1>19, SMTT(30)
  <1>24. TightStep(b) \/ \A p, q \in DOMAIN ink : p # q => Disjoint(ink[p], ink[q])
    <2> SUFFICES ASSUME ~TightStep(b), NEW p \in DOMAIN ink, NEW q \in DOMAIN ink, p # q
                 PROVE  Disjoint(ink[p], ink[q])
      OBVIOUS
    <2>1. PICK x \in {0, 200} : \E i \in 1 .. n : \E j \in Idx(x, i) : p = <<x, i, j>>
      BY <1>13
    <2>2. PICK i \in 1 .. n : \E j \in Idx(x, i) : p = <<x, i, j>>
      BY <2>1
    <2>3. PICK j \in Idx(x, i) : p = <<x, i, j>>
      BY <2>2
    <2>4. PICK u \in {0, 200} : \E i_1 \in 1 .. n : \E j_1 \in Idx(u, i_1) : q = <<u, i_1, j_1>>
      BY <1>13
    <2>5. PICK k \in 1 .. n : \E j_1 \in Idx(u, k) : q = <<u, k, j_1>>
      BY <2>4
    <2>6. PICK m \in Idx(u, k) : q = <<u, k, m>>
      BY <2>5
    <2>7. <<x, i, j>> # <<u, k, m>>
      BY <2>3, <2>6
    <2>8. /\ ~TightStep(b) /\ x \in {0, 200} /\ i \in 1 .. n /\ j \in Idx(x, i)
          /\ u \in {0, 200} /\ k \in 1 .. n /\ m \in Idx(u, k)
      BY <2>1, <2>2, <2>3, <2>4, <2>5, <2>6
    <2>10. Apart(x, i, j, u, k, m)
      BY <1>22, <2>8, SMT
    <2> USE DEF Apart
    <2>9. QED
      BY <2>3, <2>6, <2>7, <2>10
  <1>25. Lays(b, Canvas(h, ink)) /\ Whole(Canvas(h, ink))
    BY <1>17, <1>23, <1>24, LayInk DEF cv
  <1>26. QED
    BY <1>3, <1>25

-----------------------------------------------------------------------------
(* Tables: columns that share the paper.                                     *)

\* The paper scaled by one number over another.
LEMMA ShareOfPaper ==
    ASSUME NEW n \in Int, NEW from \in Nat, from > 0
    PROVE  /\ Scaled(n, 528, from) \in Int /\ Scaled(n, 528, from) * from <= n * 528
           /\ n * 528 <= (Scaled(n, 528, from) + 1) * from
  <1> DEFINE to == 528
             q == Scaled(n, to, from)
  <1>1. to \in Int
    OBVIOUS
  <1> HIDE DEF to
  <1>2. q \in Int /\ q * from <= n * to /\ n * to <= (q + 1) * from
    BY <1>1, ScaledNumber
  <1>3. QED
    BY <1>2 DEF to, q

\* What a column keeps when all of them are scaled to the paper.
LEMMA ShareIs ==
    ASSUME NEW a \in Int, 13 <= a, NEW t \in Int, 528 < t, t <= 1620
    PROVE  /\ Larger(1, Scaled(a, 528, t)) \in Int /\ 0 < Larger(1, Scaled(a, 528, t))
           /\ Larger(1, Scaled(a, 528, t)) * t <= a * 528
           /\ 14 <= a /\ t <= a + 540 => 12 < Larger(1, Scaled(a, 528, t))
  <1> DEFINE q == Scaled(a, 528, t)
  <1>1. q \in Int /\ q * t <= a * 528 /\ a * 528 <= (q + 1) * t
    <2>1. a \in Int /\ t \in Nat /\ t > 0
      OBVIOUS
    <2> HIDE DEF q
    <2>2. Scaled(a, 528, t) \in Int
      BY <2>1, ShareOfPaper
    <2>3. Scaled(a, 528, t) * t <= a * 528
      BY <2>1, ShareOfPaper
    <2>4. a * 528 <= (Scaled(a, 528, t) + 1) * t
      BY <2>1, ShareOfPaper
    <2>5. QED
      BY <2>2, <2>3, <2>4 DEF q
  <1> HIDE DEF q
  <1>2. q >= 1
    <2>1. ASSUME q <= 0 PROVE FALSE
      <3>1. (q + 1) * t <= 1 * t
        BY <1>1, <2>1
      <3>2. a * 528 >= 6864
        OBVIOUS
      <3>3. QED
        BY <1>1, <3>1, <3>2
    <2>2. QED
      BY <1>1, <2>1
  <1>3. 14 <= a /\ t <= a + 540 => 12 < q
    <2> SUFFICES ASSUME 14 <= a, t <= a + 540, q <= 12 PROVE FALSE
      BY <1>1
    <2>1. (q + 1) * t <= 13 * t
      BY <1>1
    <2>2. 13 * t <= 13 * (a + 540)
      OBVIOUS
    <2>3. QED
      BY <1>1, <2>1, <2>2
  <1>4. Larger(1, q) = q
    <2>1. 1 \in Int /\ q \in Int
      BY <1>1
    <2>2. 1 <= Larger(1, q) /\ q <= Larger(1, q) /\ (Larger(1, q) = 1 \/ Larger(1, q) = q)
      BY <2>1, LargerIs
    <2>3. QED
      BY <1>1, <1>2, <2>2
  <1>5. QED
    BY <1>1, <1>2, <1>3, <1>4 DEF q

\* Shares of the paper fit on it.
LEMMA SharesFit ==
    ASSUME NEW t \in Int, t > 0, NEW p \in Int, NEW q \in Int, NEW r \in Int,
           NEW a \in Int, NEW b \in Int, NEW c \in Int,
           p * t <= a * 528, q * t <= b * 528, r * t <= c * 528, a + b + c = t
    PROVE  p + q + r <= 528
  <1> SUFFICES ASSUME p + q + r >= 529 PROVE FALSE
    OBVIOUS
  <1>1. (p + q + r) * t = p * t + q * t + r * t
    OBVIOUS
  <1>2. (p + q + r) * t <= 528 * t
    <2>1. p * t \in Int /\ q * t \in Int /\ r * t \in Int
      OBVIOUS
    <2>2. 528 * t = a * 528 + b * 528 + c * 528
      OBVIOUS
    <2>3. QED
      BY <1>1, <2>1, <2>2
  <1>3. 529 * t <= (p + q + r) * t
    OBVIOUS
  <1>4. QED
    BY <1>2, <1>3

\* The sum of two, or three.
LEMMA TotalThree ==
    ASSUME NEW f, f[1] \in Int, f[2] \in Int
    PROVE  /\ Total(f, 0) = 0 /\ Total(f, 1) = f[1] /\ Total(f, 2) = f[1] + f[2]
           /\ f[3] \in Int => Total(f, 3) = f[1] + f[2] + f[3]
  <1>1. Total(f, 0) = 0
    BY TotalStep
  <1>2. \A n \in Nat : Total(f, n + 1) = Total(f, n) + f[n + 1]
    BY TotalStep
  <1>3. Total(f, 0 + 1) = Total(f, 0) + f[0 + 1]
    BY <1>2
  <1>4. Total(f, 1) = f[1]
    BY <1>1, <1>3
  <1>5. Total(f, 1 + 1) = Total(f, 1) + f[1 + 1]
    BY <1>2
  <1>6. Total(f, 2) = f[1] + f[2]
    BY <1>4, <1>5
  <1>7. Total(f, 2 + 1) = Total(f, 2) + f[2 + 1]
    BY <1>2
  <1>8. f[3] \in Int => Total(f, 3) = f[1] + f[2] + f[3]
    BY <1>6, <1>7
  <1>9. QED
    BY <1>1, <1>4, <1>6, <1>8

\* Columns side by side.
SideBySide(W, n) ==
    /\ \A c \in 1 .. n : /\ W[c] \in Int /\ W[c] > 0 /\ Total(W, c - 1) \in Int
                         /\ 0 <= Total(W, c - 1) /\ Total(W, c - 1) + W[c] <= 528
    /\ \A c, d \in 1 .. n : c < d => Total(W, c - 1) + W[c] <= Total(W, d - 1)

\* The columns are side by side.
LEMMA WidthsFit ==
    ASSUME NEW n \in 2 .. 3, NEW W, \A c \in 1 .. n : W[c] \in Int /\ W[c] > 0,
           W[1] + W[2] + (IF n = 3 THEN W[3] ELSE 0) <= 528
    PROVE  SideBySide(W, n)
  <1>1. 1 \in 1 .. n /\ 2 \in 1 .. n /\ (n = 3 => 3 \in 1 .. n) /\ (n = 2 \/ n = 3)
    OBVIOUS
  <1>2. W[1] \in Int /\ W[1] > 0 /\ W[2] \in Int /\ W[2] > 0 /\ (n = 3 => W[3] \in Int /\ W[3] > 0)
    BY <1>1
  <1>3. /\ Total(W, 0) = 0 /\ Total(W, 1) = W[1] /\ Total(W, 2) = W[1] + W[2]
    BY <1>2, TotalThree
  <1>4. \A c \in 1 .. n : c = 1 \/ c = 2 \/ (c = 3 /\ n = 3)
    OBVIOUS
  <1> DEFINE left(c) == Total(W, c - 1)
  <1>5. left(1) = 0 /\ left(2) = W[1] /\ left(3) = W[1] + W[2]
    <2>1. 1 - 1 = 0 /\ 2 - 1 = 1 /\ 3 - 1 = 2
      OBVIOUS
    <2>2. QED
      BY <1>3, <2>1
  <1> HIDE DEF left
  <1>6. \A c \in 1 .. n : left(c) \in Int /\ 0 <= left(c) /\ left(c) + W[c] <= 528
    BY <1>2, <1>4, <1>5
  <1>7. \A c, d \in 1 .. n : c < d => left(c) + W[c] <= left(d)
    BY <1>2, <1>4, <1>5
  <1>8. \A c \in 1 .. n : W[c] \in Int /\ W[c] > 0
    OBVIOUS
  <1>9. QED
    BY <1>6, <1>7, <1>8 DEF SideBySide, left

\* The rows of a table.
LEMMA TableRowsAre ==
    ASSUME NEW b \in TableCompactBlock, Listed(b.rows, 64), ColumnCount(b)
    PROVE  /\ Columns(b) \in 2 .. 3 /\ DOMAIN b.rows[1] = 1 .. Columns(b)
           /\ Len(TableRows(b)) \in Nat /\ Len(TableRows(b)) > 0
           /\ DOMAIN TableRows(b) = 1 .. Len(TableRows(b))
           /\ \A r \in 1 .. Len(TableRows(b)) :
                /\ DOMAIN TableRows(b)[r] = 1 .. Columns(b)
                /\ \A c \in 1 .. Columns(b) : TableRows(b)[r][c] \in Bitmaps
  <1> DEFINE R == b.rows
             H == b.headers
             C == Columns(b)
             T == TableRows(b)
  <1>1. R \in Seq(Seq(Bitmaps)) /\ H \in Seq(Bitmaps) \cup {None}
    BY DEF TableCompactBlock
  <1>2. Len(R) \in 1 .. 64
    BY DEF Listed
  <1>3. /\ C \in 2 .. 3 /\ C = Len(R[1])
        /\ \A r \in DOMAIN R : Len(R[r]) = C
        /\ H # None => Len(H) = C
    BY DEF ColumnCount, Columns
  <1>4. T = IF H = None THEN R ELSE <<H>> \o R
    BY DEF TableRows
  <1>5. DOMAIN R = 1 .. Len(R) /\ \A r \in 1 .. Len(R) : R[r] \in Seq(Bitmaps)
    <2> HIDE DEF R
    <2>1. QED
      BY <1>1, ElementsOf
  <1>6. \A r \in 1 .. Len(R) : DOMAIN R[r] = 1 .. C /\ \A c \in 1 .. C : R[r][c] \in Bitmaps
    <2> HIDE DEF R, C
    <2>1. QED
      BY <1>3, <1>5, ElementsOf
  <1> HIDE DEF R, H, C, T
  <1>7. DOMAIN R[1] = 1 .. C
    BY <1>2, <1>6
  <1>8. CASE H = None
    <2>1. T = R
      BY <1>4, <1>8
    <2>2. QED
      BY <1>2, <1>3, <1>5, <1>6, <1>7, <2>1 DEF T, C, R
  <1>9. CASE H # None
    <2>1. H \in Seq(Bitmaps) /\ DOMAIN H = 1 .. C
      BY <1>1, <1>3, <1>9
    <2>2. \A c \in 1 .. C : H[c] \in Bitmaps
      BY <1>1, <1>3, <1>9, <2>1, ElementsOf
    <2>3. <<H>> \in Seq(Seq(Bitmaps)) /\ Len(<<H>>) = 1 /\ <<H>>[1] = H
      BY <2>1
    <2>4. T = <<H>> \o R
      BY <1>4, <1>9
    <2>5. /\ T \in Seq(Seq(Bitmaps)) /\ Len(T) = Len(R) + 1 /\ T[1] = H /\ Len(R) \in Nat
          /\ \A r \in 2 .. Len(T) : T[r] = R[r - 1] /\ r - 1 \in 1 .. Len(R)
      BY <1>1, <2>3, <2>4
    <2>6. \A r \in 1 .. Len(T) : r = 1 \/ r \in 2 .. Len(T)
      BY <2>5
    <2>7. \A r \in 1 .. Len(T) : DOMAIN T[r] = 1 .. C /\ \A c \in 1 .. C : T[r][c] \in Bitmaps
      <3> SUFFICES ASSUME NEW r \in 1 .. Len(T)
                   PROVE  DOMAIN T[r] = 1 .. C /\ \A c \in 1 .. C : T[r][c] \in Bitmaps
        OBVIOUS
      <3>1. CASE r = 1
        BY <2>1, <2>2, <2>5, <3>1
      <3>2. CASE r # 1
        <4>1. T[r] = R[r - 1] /\ r - 1 \in 1 .. Len(R)
          BY <2>5, <2>6, <3>2
        <4>2. QED
          BY <1>6, <4>1
      <3>3. QED
        BY <3>1, <3>2
    <2>8. DOMAIN T = 1 .. Len(T) /\ Len(T) \in Nat /\ Len(T) > 0
      BY <2>5
    <2>9. QED
      BY <1>3, <1>7, <2>7, <2>8 DEF T, C, R
  <1>10. QED
    BY <1>8, <1>9

\* A column is as wide as its widest cell, which is on paper, and 12 pixels.
Widest(f, n) == Max({Fit(f[r], LIVE).w : r \in 1 .. n})
\* How wide a column would be.
LEMMA NaturalIs ==
    ASSUME NEW n \in Nat, n > 0, NEW f, \A r \in 1 .. n : f[r] \in Bitmaps,
           NEW a, a = 12 + Widest(f, n)
    PROVE  /\ a \in Int /\ 13 <= a /\ a <= 540
           /\ a = 13 => \A r \in 1 .. n : f[r].w = 1
  <1> DEFINE g == [r \in 1 .. n |-> Fit(f[r], LIVE).w]
             M == Max({g[r] : r \in 1 .. n})
  <1>1. \A r \in 1 .. n : /\ g[r] \in Int /\ g[r] > 0 /\ g[r] <= 528
                          /\ f[r].w \in Int /\ (g[r] = 1 => f[r].w = 1)
    <2> SUFFICES ASSUME NEW r \in 1 .. n
                 PROVE  /\ g[r] \in Int /\ g[r] > 0 /\ g[r] <= 528
                        /\ f[r].w \in Int /\ (g[r] = 1 => f[r].w = 1)
      OBVIOUS
    <2>1. LIVE = 528 /\ LIVE \in Int
      BY PaperIs
    <2>2. /\ Fit(f[r], LIVE).w \in Int /\ Fit(f[r], LIVE).w <= LIVE /\ Fit(f[r], LIVE).w > 0
      BY <2>1, FitIs
    <2>3. f[r].w \in Int /\ (f[r].w <= LIVE => Fit(f[r], LIVE) = f[r])
      BY <2>1, FitIs DEF Bitmaps
    <2>4. ~(f[r].w <= LIVE) => Fit(f[r], LIVE).w = LIVE
      BY <2>1, <2>3 DEF Fit
    <2>5. g[r] = Fit(f[r], LIVE).w
      OBVIOUS
    <2> HIDE DEF g
    <2>6. QED
      BY <2>1, <2>2, <2>3, <2>4, <2>5
  <1>2. {g[r] : r \in 1 .. n} = {Fit(f[r], LIVE).w : r \in 1 .. n}
    OBVIOUS
  <1>3. \A r \in 1 .. n : g[r] = Fit(f[r], LIVE).w
    OBVIOUS
  <1> HIDE DEF g
  <1>4. (\E m \in 1 .. n : M = g[m]) /\ \A r \in 1 .. n : g[r] <= M
    <2>1. (1 .. n) \in SUBSET (1 .. n) /\ 1 .. n # {} /\ \A r \in 1 .. n : g[r] \in Int
      BY <1>1
    <2>2. QED
      BY <2>1, MaxIs
  <1>5. M = Max({Fit(f[r], LIVE).w : r \in 1 .. n})
    BY <1>2
  <1> HIDE DEF M
  <1>6. M \in Int /\ M > 0 /\ M <= 528
    BY <1>1, <1>4
  <1>7. M = 1 => \A r \in 1 .. n : f[r].w = 1
    <2> SUFFICES ASSUME M = 1, NEW r \in 1 .. n PROVE f[r].w = 1
      OBVIOUS
    <2>1. g[r] = 1
      BY <1>1, <1>4
    <2>2. QED
      BY <1>1, <2>1
  <1>8. a = 12 + M
    BY <1>5 DEF Widest
  <1>9. QED
    BY <1>6, <1>7, <1>8

\* The columns of a table lie beside each other on the paper.  A column is
\* wider than its gap, unless there are three or nothing is to be seen in it.
LEMMA ColumnsAre ==
    ASSUME NEW b \in TableCompactBlock, Listed(b.rows, 64), ColumnCount(b)
    PROVE  /\ SideBySide(ColumnWidths(b), Columns(b))
           /\ Columns(b) = 2 =>
                \A c \in 1 .. 2 : \/ 12 < ColumnWidths(b)[c]
                                  \/ \A r \in 1 .. Len(TableRows(b)) : TableRows(b)[r][c].w = 1
  <1> DEFINE R == TableRows(b)
             n == Len(R)
             C == Columns(b)
             W == ColumnWidths(b)
             nat == [c \in DOMAIN b.rows[1] |-> 12 + Max({Fit(R[r][c], LIVE).w : r \in DOMAIN R})]
             t == Total(nat, C)
  <1>1. /\ C \in 2 .. 3 /\ DOMAIN b.rows[1] = 1 .. C /\ n \in Nat /\ n > 0 /\ DOMAIN R = 1 .. n
        /\ \A r \in 1 .. n : \A c \in 1 .. C : R[r][c] \in Bitmaps
    BY TableRowsAre
  <1>2. W = IF t <= LIVE THEN nat ELSE [c \in DOMAIN nat |-> Larger(1, Scaled(nat[c], LIVE, t))]
    BY DEF ColumnWidths
  <1>3. LIVE = 528
    BY PaperIs
  <1> HIDE DEF R, C, W
  <1>4. DOMAIN nat = 1 .. C
    BY <1>1
  <1>5. \A c \in 1 .. C : /\ nat[c] \in Int /\ 13 <= nat[c] /\ nat[c] <= 540
                          /\ nat[c] = 13 => \A r \in 1 .. n : R[r][c].w = 1
    <2> SUFFICES ASSUME NEW c \in 1 .. C
                 PROVE  /\ nat[c] \in Int /\ 13 <= nat[c] /\ nat[c] <= 540
                        /\ nat[c] = 13 => \A r \in 1 .. n : R[r][c].w = 1
      OBVIOUS
    <2> DEFINE f == [r \in 1 .. n |-> R[r][c]]
    <2>1. \A r \in 1 .. n : f[r] = R[r][c] /\ f[r] \in Bitmaps
      BY <1>1
    <2>2. nat[c] = 12 + Max({Fit(f[r], LIVE).w : r \in 1 .. n})
      <3>1. {Fit(R[r][c], LIVE).w : r \in DOMAIN R} = {Fit(f[r], LIVE).w : r \in 1 .. n}
        BY <1>1
      <3>2. QED
        BY <1>1, <3>1
    <2> DEFINE x == nat[c]
    <2> HIDE DEF f, nat
    <2>3. /\ x \in Int /\ 13 <= x /\ x <= 540
          /\ x = 13 => \A r \in 1 .. n : f[r].w = 1
      <3>1. x = 12 + Widest(f, n)
        BY <2>2 DEF Widest
      <3> HIDE DEF x
      <3>2. n \in Nat /\ n > 0 /\ \A r \in 1 .. n : f[r] \in Bitmaps
        BY <1>1, <2>1
      <3> HIDE DEF n
      <3>3. QED
        BY <3>1, <3>2, NaturalIs
    <2>4. QED
      BY <2>1, <2>3
  <1> HIDE DEF nat
  <1>6. 1 \in 1 .. C /\ 2 \in 1 .. C /\ (C = 3 => 3 \in 1 .. C) /\ (C = 2 \/ C = 3)
    BY <1>1
  <1> DEFINE a3 == IF C = 3 THEN nat[3] ELSE 0
  <1>7. t = nat[1] + nat[2] + a3 /\ t \in Int /\ t <= 1620 /\ a3 \in Int
    <2>1. nat[1] \in Int /\ nat[2] \in Int /\ (C = 3 => nat[3] \in Int)
      BY <1>5, <1>6
    <2>2. Total(nat, 2) = nat[1] + nat[2] /\ (C = 3 => Total(nat, 3) = nat[1] + nat[2] + nat[3])
      BY <2>1, TotalThree
    <2>3. nat[1] <= 540 /\ nat[2] <= 540 /\ (C = 3 => nat[3] <= 540)
      BY <1>5, <1>6
    <2>4. QED
      BY <1>6, <2>1, <2>2, <2>3
  <1> HIDE DEF t
  <1>8. CASE t <= 528
    <2>1. W = nat
      BY <1>2, <1>3, <1>8
    <2>2. \A c \in 1 .. C : W[c] \in Int /\ W[c] > 0 /\ 12 < W[c]
      BY <1>5, <2>1
    <2>3. W[1] + W[2] + (IF C = 3 THEN W[3] ELSE 0) <= 528
      BY <1>7, <1>8, <2>1
    <2>4. SideBySide(W, C)
      BY <1>1, <2>2, <2>3, WidthsFit
    <2>5. QED
      BY <1>6, <2>2, <2>4 DEF W, C
  <1>9. CASE ~(t <= 528)
    <2>1. W = [c \in 1 .. C |-> Larger(1, Scaled(nat[c], 528, t))]
      BY <1>2, <1>3, <1>4, <1>9
    <2>2. \A c \in 1 .. C : /\ W[c] \in Int /\ W[c] > 0 /\ W[c] * t <= nat[c] * 528
                            /\ 14 <= nat[c] /\ t <= nat[c] + 540 => 12 < W[c]
      <3> SUFFICES ASSUME NEW c \in 1 .. C
                   PROVE  /\ W[c] \in Int /\ W[c] > 0 /\ W[c] * t <= nat[c] * 528
                          /\ 14 <= nat[c] /\ t <= nat[c] + 540 => 12 < W[c]
        OBVIOUS
      <3> DEFINE x == nat[c]
      <3>1. x \in Int /\ 13 <= x /\ t \in Int /\ 528 < t /\ t <= 1620
        BY <1>5, <1>7, <1>9
      <3>2. W[c] = Larger(1, Scaled(x, 528, t))
        BY <2>1
      <3> HIDE DEF x
      <3>3. QED
        BY <3>1, <3>2, ShareIs DEF x
    <2>3. W[1] + W[2] + (IF C = 3 THEN W[3] ELSE 0) <= 528
      <3> DEFINE p == W[1]  q == W[2]  r == IF C = 3 THEN W[3] ELSE 0
                 a == nat[1]  d == nat[2]
      <3>1. p \in Int /\ q \in Int /\ r \in Int /\ a \in Int /\ d \in Int /\ a3 \in Int /\ t > 0 /\ t \in Int
        <4>1. p \in Int /\ q \in Int /\ a \in Int /\ d \in Int
          BY <1>5, <1>6, <2>2
        <4>2. r \in Int
          BY <1>6, <2>2
        <4>3. t \in Int /\ t > 0 /\ a3 \in Int
          BY <1>7, <1>9
        <4> HIDE DEF p, q, r, a, d, a3
        <4>4. QED
          BY <4>1, <4>2, <4>3
      <3>2. p * t <= a * 528 /\ q * t <= d * 528
        BY <1>6, <2>2
      <3>3. r * t <= a3 * 528
        <4>1. CASE C = 3
          BY <1>6, <2>2, <4>1
        <4>2. CASE C = 2
          BY <1>7, <4>2
        <4>3. QED
          BY <1>6, <4>1, <4>2
      <3>4. a + d + a3 = t
        BY <1>7
      <3> HIDE DEF p, q, r, a, d, a3
      <3>5. p + q + r <= 528
        BY <3>1, <3>2, <3>3, <3>4, SharesFit
      <3>6. QED
        BY <3>5 DEF p, q, r
    <2>4. SideBySide(W, C)
      BY <1>1, <2>2, <2>3, WidthsFit
    <2>5. ASSUME C = 2, NEW c \in 1 .. 2
          PROVE  12 < W[c] \/ \A r \in 1 .. n : R[r][c].w = 1
      <3>1. c \in 1 .. C /\ nat[1] \in Int /\ nat[2] \in Int /\ nat[1] <= 540 /\ nat[2] <= 540
        BY <1>5, <2>5
      <3>2. t = nat[1] + nat[2]
        BY <1>7, <2>5, <3>1
      <3>3. c = 1 \/ c = 2
        OBVIOUS
      <3>4. t <= nat[c] + 540
        BY <3>1, <3>2, <3>3
      <3>5. nat[c] = 13 \/ 14 <= nat[c]
        BY <1>5, <3>1
      <3>6. QED
        BY <1>5, <2>2, <3>1, <3>4, <3>5
    <2>6. QED
      BY <2>4, <2>5 DEF W, C, R
  <1>10. QED
    BY <1>7, <1>8, <1>9

\* A cell stays within its column, less the gap.
LEMMA CellIs ==
    ASSUME NEW img \in Bitmaps, NEW col \in Int,
           NEW c, c = IF Fit(img, LIVE).w > col - 12 THEN Fit(img, col - 12) ELSE Fit(img, LIVE)
    PROVE  /\ c.w \in Int /\ c.w <= col - 12 /\ c.h \in Int /\ c.h > 0 /\ c.h <= img.h /\ img.h \in Int
           /\ 12 < col => c.w > 0
  <1> DEFINE f == Fit(img, LIVE)  g == Fit(img, col - 12)
  <1>1. LIVE \in Int /\ LIVE > 0 /\ col - 12 \in Int
    BY PaperIs
  <1>2. /\ f.w \in Int /\ f.w > 0 /\ f.h \in Int /\ f.h > 0 /\ f.h <= img.h /\ img.h \in Int
    BY <1>1, Fitted
  <1>3. /\ g.w \in Int /\ g.w <= col - 12 /\ g.h \in Int /\ g.h > 0 /\ g.h <= img.h
        /\ 12 < col => g.w > 0
    <2> DEFINE max == col - 12
    <2>1. max \in Int /\ (12 < col => max > 0)
      OBVIOUS
    <2>2. max = col - 12
      OBVIOUS
    <2> HIDE DEF max
    <2>3. /\ Fit(img, max).w \in Int /\ Fit(img, max).w <= max /\ Fit(img, max).h \in Nat
          /\ Fit(img, max).h > 0 /\ Fit(img, max).h <= img.h /\ (max > 0 => Fit(img, max).w > 0)
      BY <2>1, FitIs
    <2>4. QED
      BY <2>1, <2>2, <2>3
  <1>4. c = IF f.w > col - 12 THEN g ELSE f
    OBVIOUS
  <1> HIDE DEF f, g
  <1>5. QED
    BY <1>2, <1>3, <1>4

\* table_compact
LEMMA TableLays ==
    ASSUME NEW b \in TableCompactBlock, Listed(b.rows, 64), ColumnCount(b), FontsGive(b)
    PROVE  /\ Lays(b, TableCompact(b)) /\ TableCompact(b).h > 0
           /\ \/ Whole(TableCompact(b)) \/ Columns(b) = 3
              \/ \E c \in 1 .. 2 : \A r \in DOMAIN TableRows(b) : TableRows(b)[r][c].w = 1
  <1> DEFINE R == TableRows(b)
             n == Len(R)
             C == Columns(b)
             W == ColumnWidths(b)
             cell(img, c) == IF Fit(img, LIVE).w > W[c] - 12 THEN Fit(img, W[c] - 12) ELSE Fit(img, LIVE)
             rule == IF b.headers = None THEN 0 ELSE 6
             top(r) == (r - 1) * LINE + (IF r = 1 THEN 0 ELSE rule)
             left(c) == Total(W, c - 1)
             h == LINE * n + rule + 4
             ink == [rc \in (1 .. n) \X (1 .. C) |->
                       At(cell(R[rc[1]][rc[2]], rc[2]), left(rc[2]), top(rc[1]))]
             cv == Canvas(h, ink)
  <1>1. TableCompact(b) = cv
    BY DEF TableCompact
  <1>2. b.type = "table_compact" /\ \A r \in DOMAIN R : LowLines(R[r], 28)
    BY DEF TableCompactBlock, FontsGive
  <1>3. Overhang(b) = 0 /\ Excess(b) = 0 /\ LINE = 26 /\ LIVE = 528
    BY <1>2, NoExcess, PaperIs
  <1>4. TightStep(b) = \E r \in DOMAIN R : ~LowLines(R[r], 26)
    BY <1>2, <1>3 DEF TightStep
  <1>5. /\ C \in 2 .. 3 /\ n \in Nat /\ n > 0 /\ DOMAIN R = 1 .. n
        /\ \A r \in 1 .. n : DOMAIN R[r] = 1 .. C /\ \A c \in 1 .. C : R[r][c] \in Bitmaps
    BY TableRowsAre
  <1>6. /\ SideBySide(W, C)
        /\ C = 2 => \A c \in 1 .. 2 : 12 < W[c] \/ \A r \in 1 .. n : R[r][c].w = 1
    BY ColumnsAre
  <1> HIDE DEF R, C, W
  <1>7. /\ \A c \in 1 .. C : W[c] \in Int /\ left(c) \in Int /\ 0 <= left(c) /\ left(c) + W[c] <= 528
        /\ \A c, d \in 1 .. C : c < d => left(c) + W[c] <= left(d)
    BY <1>6 DEF SideBySide
  <1>8. rule \in Int /\ 0 <= rule /\ rule <= 6
    OBVIOUS
  <1> HIDE DEF rule, left
  <1>9. h \in Nat /\ h > 0 /\ h = 26 * n + rule + 4
    BY <1>3, <1>5, <1>8
  <1> HIDE DEF h
  <1>10. /\ \A r \in 1 .. n : top(r) \in Int /\ 0 <= top(r) /\ top(r) + 28 <= h
         /\ \A r, s \in 1 .. n : r < s => top(r) + 26 <= top(s)
    BY <1>3, <1>5, <1>8, <1>9
  <1> HIDE DEF top
  <1>11. \A r \in 1 .. n : \A c \in 1 .. C :
           /\ cell(R[r][c], c).w \in Int /\ cell(R[r][c], c).w <= W[c] - 12
           /\ cell(R[r][c], c).h \in Int /\ cell(R[r][c], c).h > 0 /\ cell(R[r][c], c).h <= 28
           /\ TightStep(b) \/ cell(R[r][c], c).h <= 26
           /\ 12 < W[c] => cell(R[r][c], c).w > 0
    <2> SUFFICES ASSUME NEW r \in 1 .. n, NEW c \in 1 .. C
                 PROVE  /\ cell(R[r][c], c).w \in Int /\ cell(R[r][c], c).w <= W[c] - 12
                        /\ cell(R[r][c], c).h \in Int /\ cell(R[r][c], c).h > 0 /\ cell(R[r][c], c).h <= 28
                        /\ TightStep(b) \/ cell(R[r][c], c).h <= 26
                        /\ 12 < W[c] => cell(R[r][c], c).w > 0
      <3> HIDE DEF cell
      <3>1. QED
        OBVIOUS
    <2> DEFINE img == R[r][c]  col == W[c]  d == cell(img, c)
    <2>1. img \in Bitmaps /\ col \in Int
      BY <1>5, <1>7
    <2>2. d = IF Fit(img, LIVE).w > col - 12 THEN Fit(img, col - 12) ELSE Fit(img, LIVE)
      OBVIOUS
    <2>3. img.h <= 28 /\ (TightStep(b) \/ img.h <= 26)
      BY <1>2, <1>4, <1>5 DEF LowLines
    <2> HIDE DEF img, col, d
    <2>4. /\ d.w \in Int /\ d.w <= col - 12 /\ d.h \in Int /\ d.h > 0 /\ d.h <= img.h /\ img.h \in Int
          /\ 12 < col => d.w > 0
      BY <2>1, <2>2, CellIs
    <2>5. d.h <= 28 /\ (TightStep(b) \/ d.h <= 26)
      BY <2>3, <2>4
    <2> HIDE DEF cell
    <2>6. QED
      BY <2>4, <2>5 DEF d, img, col
  <1> HIDE DEF cell
  <1>12. \A r \in 1 .. n : \A c \in 1 .. C :
           /\ <<r, c>> \in DOMAIN ink
           /\ ink[<<r, c>>].x = left(c) /\ ink[<<r, c>>].y = top(r)
           /\ ink[<<r, c>>].w = cell(R[r][c], c).w /\ ink[<<r, c>>].h = cell(R[r][c], c).h
    <2> SUFFICES ASSUME NEW r \in 1 .. n, NEW c \in 1 .. C
                 PROVE  /\ <<r, c>> \in DOMAIN ink
                        /\ ink[<<r, c>>].x = left(c) /\ ink[<<r, c>>].y = top(r)
                        /\ ink[<<r, c>>].w = cell(R[r][c], c).w /\ ink[<<r, c>>].h = cell(R[r][c], c).h
      <3> HIDE DEF ink
      <3>1. QED
        OBVIOUS
    <2>1. <<r, c>> \in DOMAIN ink /\ ink[<<r, c>>] = At(cell(R[r][c], c), left(c), top(r))
      OBVIOUS
    <2> HIDE DEF ink
    <2>2. QED
      BY <2>1, AtIs
  <1>13. \A p \in DOMAIN ink : \E r \in 1 .. n : \E c \in 1 .. C : p = <<r, c>>
    OBVIOUS
  <1> HIDE DEF ink
  <1>14. cv.w = 528 /\ cv.h = h /\ cv.ink = ink
    BY <1>3 DEF Canvas
  <1> HIDE DEF cv
  <1>15. \A r \in 1 .. n : \A c \in 1 .. C :
           /\ IsBox(ink[<<r, c>>]) /\ OnPaper(ink[<<r, c>>], b, cv) /\ ink[<<r, c>>].h > 0
           /\ 12 < W[c] => ink[<<r, c>>].w > 0
    <2> SUFFICES ASSUME NEW r \in 1 .. n, NEW c \in 1 .. C
                 PROVE  /\ IsBox(ink[<<r, c>>]) /\ OnPaper(ink[<<r, c>>], b, cv) /\ ink[<<r, c>>].h > 0
                        /\ 12 < W[c] => ink[<<r, c>>].w > 0
      OBVIOUS
    <2> DEFINE p == ink[<<r, c>>]  d == cell(R[r][c], c)  x == left(c)  y == top(r)  col == W[c]
    <2>1. p.x = x /\ p.y = y /\ p.w = d.w /\ p.h = d.h
      BY <1>12
    <2>2. d.w \in Int /\ d.w <= col - 12 /\ d.h \in Int /\ d.h > 0 /\ d.h <= 28 /\ (12 < col => d.w > 0)
      BY <1>11
    <2>3. col \in Int /\ x \in Int /\ 0 <= x /\ x + col <= 528
      BY <1>7
    <2>4. y \in Int /\ 0 <= y /\ y + 28 <= h /\ h \in Int
      BY <1>9, <1>10
    <2> HIDE DEF p, d, x, y, col
    <2>5. IsBox(p) /\ p.h > 0 /\ (12 < col => p.w > 0)
      BY <2>1, <2>2, <2>3, <2>4 DEF IsBox
    <2>6. p.x >= 0 - 0 /\ p.x + p.w <= 528 + 0 /\ p.y >= 0 - 0 /\ p.y + p.h <= h + 0
      BY <2>1, <2>2, <2>3, <2>4, SMTT(30)
    <2>7. OnPaper(p, b, cv)
      BY <1>3, <1>14, <2>6 DEF OnPaper
    <2>8. QED
      BY <2>5, <2>7 DEF p, col
  <1>16. ASSUME ~TightStep(b), NEW r \in 1 .. n, NEW c \in 1 .. C, NEW s \in 1 .. n, NEW d \in 1 .. C,
                <<r, c>> # <<s, d>>
         PROVE  Disjoint(ink[<<r, c>>], ink[<<s, d>>])
    <2> DEFINE p == ink[<<r, c>>]  q == ink[<<s, d>>]
    <2>1. /\ p.x = left(c) /\ p.y = top(r) /\ p.w \in Int /\ p.w <= W[c] - 12 /\ p.h \in Int /\ p.h <= 26
      BY <1>11, <1>12, <1>16
    <2>2. /\ q.x = left(d) /\ q.y = top(s) /\ q.w \in Int /\ q.w <= W[d] - 12 /\ q.h \in Int /\ q.h <= 26
      BY <1>11, <1>12, <1>16
    <2> HIDE DEF p, q
    <2>3. r < s \/ s < r \/ c < d \/ d < c
      <3>1. r \in Int /\ s \in Int /\ c \in Int /\ d \in Int /\ (r # s \/ c # d)
        BY <1>16
      <3>2. QED
        BY <3>1
    <2>4. CASE r < s
      <3>1. top(r) \in Int /\ top(s) \in Int /\ top(r) + 26 <= top(s)
        BY <1>10, <2>4
      <3>2. p.y + p.h <= q.y
        BY <2>1, <2>2, <3>1
      <3>3. QED
        BY <3>2, Below DEF p, q
    <2>5. CASE s < r
      <3>1. top(r) \in Int /\ top(s) \in Int /\ top(s) + 26 <= top(r)
        BY <1>10, <2>5
      <3>2. q.y + q.h <= p.y
        BY <2>1, <2>2, <3>1
      <3>3. Disjoint(p, q)
        BY <3>2, Zenon DEF Disjoint
      <3>4. QED
        BY <3>3 DEF p, q
    <2>6. CASE c < d
      <3>1. left(c) \in Int /\ left(d) \in Int /\ W[c] \in Int /\ left(c) + W[c] <= left(d)
        BY <1>7, <2>6
      <3>2. p.x + p.w <= q.x
        BY <2>1, <2>2, <3>1, SMTT(30)
      <3>3. QED
        BY <3>2, Beside DEF p, q
    <2>7. CASE d < c
      <3>1. left(c) \in Int /\ left(d) \in Int /\ W[d] \in Int /\ left(d) + W[d] <= left(c)
        BY <1>7, <2>7
      <3>2. q.x + q.w <= p.x
        BY <2>1, <2>2, <3>1, SMTT(30)
      <3>3. Disjoint(p, q)
        BY <3>2, Zenon DEF Disjoint
      <3>4. QED
        BY <3>3 DEF p, q
    <2>8. QED
      BY <2>3, <2>4, <2>5, <2>6, <2>7
  <1>17. \A p \in DOMAIN ink : IsBox(ink[p]) /\ OnPaper(ink[p], b, cv)
    BY <1>13, <1>15
  <1>18. TightStep(b) \/ \A p, q \in DOMAIN ink : p # q => Disjoint(ink[p], ink[q])
    <2> SUFFICES ASSUME ~TightStep(b), NEW p \in DOMAIN ink, NEW q \in DOMAIN ink, p # q
                 PROVE  Disjoint(ink[p], ink[q])
      OBVIOUS
    <2>1. PICK r \in 1 .. n : \E c \in 1 .. C : p = <<r, c>>
      BY <1>13
    <2>2. PICK c \in 1 .. C : p = <<r, c>>
      BY <2>1
    <2>3. PICK s \in 1 .. n : \E d \in 1 .. C : q = <<s, d>>
      BY <1>13
    <2>4. PICK d \in 1 .. C : q = <<s, d>>
      BY <2>3
    <2>5. <<r, c>> # <<s, d>>
      BY <2>2, <2>4
    <2>6. Disjoint(ink[<<r, c>>], ink[<<s, d>>])
      BY <1>16, <2>5
    <2>7. QED
      BY <2>2, <2>4, <2>6
  <1>19. Lays(b, cv) /\ cv.h > 0
    <2>1. cv.w \in {LIVE, HEAD} /\ cv.h \in Nat /\ cv.h > 0
      BY <1>3, <1>9, <1>14
    <2>2. QED
      BY <1>14, <1>17, <1>18, <2>1 DEF Lays
  <1>20. \/ Whole(cv) \/ C = 3
         \/ \E c \in 1 .. 2 : \A r \in DOMAIN R : R[r][c].w = 1
    <2> SUFFICES ASSUME C # 3, ~ \E c \in 1 .. 2 : \A r \in DOMAIN R : R[r][c].w = 1
                 PROVE  Whole(cv)
      OBVIOUS
    <2>1. C = 2
      BY <1>5
    <2>2. \A c \in 1 .. 2 : 12 < W[c]
      BY <1>5, <1>6, <2>1
    <2>3. \A r \in 1 .. n : \A c \in 1 .. C : ink[<<r, c>>].w > 0 /\ ink[<<r, c>>].h > 0 /\ IsBox(ink[<<r, c>>])
      BY <1>15, <2>1, <2>2
    <2>4. \A p \in DOMAIN ink : ink[p].w > 0 /\ ink[p].h > 0 /\ IsBox(ink[p])
      BY <1>13, <2>3
    <2>5. \A p \in DOMAIN ink : ~(ink[p].w <= 0) /\ ~(ink[p].h <= 0)
      BY <2>4 DEF IsBox
    <2>6. \A p \in DOMAIN cv.ink : ~(cv.ink[p].w <= 0) /\ ~(cv.ink[p].h <= 0)
      BY <1>14, <2>5
    <2>7. QED
      BY <1>19, <2>6, Zenon DEF Whole, Fails
  <1>21. QED
    BY <1>1, <1>19, <1>20 DEF R, C

-----------------------------------------------------------------------------
(* Charts: the bars and labels of a series.                                  *)

\* The range of a series.
LEMMA SeriesRange ==
    ASSUME NEW n \in Nat, n > 0, NEW s, DOMAIN s = 1 .. n, \A i \in 1 .. n : s[i] \in Int
    PROVE  /\ Min(Range(s)) \in Int /\ Max(Range(s)) \in Int
           /\ \A i \in 1 .. n : Min(Range(s)) <= s[i] /\ s[i] <= Max(Range(s))
  <1> DEFINE g == [i \in 1 .. n |-> 0 - s[i]]
  <1>1. (1 .. n) \in SUBSET (1 .. n) /\ 1 .. n # {}
    OBVIOUS
  <1>2. \A i \in 1 .. n : g[i] = 0 - s[i] /\ g[i] \in Int
    OBVIOUS
  <1> HIDE DEF g
  <1>3. PICK m \in 1 .. n : \A i \in 1 .. n : g[i] <= g[m]
    BY <1>1, <1>2, HasGreatest
  <1>4. PICK k \in 1 .. n : \A i \in 1 .. n : s[i] <= s[k]
    BY <1>1, HasGreatest
  <1>5. \A i \in 1 .. n : s[m] <= s[i]
    BY <1>2, <1>3
  <1>6. Range(s) = {s[i] : i \in 1 .. n}
    BY DEF Range
  <1>7. /\ s[m] \in Range(s) /\ \A x \in Range(s) : s[m] <= x
        /\ s[k] \in Range(s) /\ \A x \in Range(s) : s[k] >= x
        /\ \A i \in 1 .. n : s[i] \in Range(s)
        /\ Range(s) \subseteq Int
    BY <1>4, <1>5, <1>6
  <1>8. Min(Range(s)) \in Range(s) /\ \A x \in Range(s) : Min(Range(s)) <= x
    BY <1>7 DEF Min
  <1>9. Max(Range(s)) \in Range(s) /\ \A x \in Range(s) : Max(Range(s)) >= x
    BY <1>7 DEF Max
  <1>10. QED
    BY <1>7, <1>8, <1>9

\* A bar is at most 30 tall, whatever the series.
LEMMA BarIs ==
    ASSUME NEW v \in Int, NEW low \in Int, NEW high \in Int, low <= v, v <= high,
           NEW span, span = Larger(1, high - low)
    PROVE  LET bar == Larger(1, Scaled(30, v - low, span))
           IN  bar \in Int /\ 1 <= bar /\ bar <= 30
  <1> DEFINE q == Scaled(30, v - low, span)
  <1>1. span \in Int /\ 1 <= span /\ high - low <= span
    <2>1. 1 \in Int /\ high - low \in Int
      OBVIOUS
    <2>2. QED
      BY <2>1, LargerIs
  <1> DEFINE a == 30 * (v - low)
  <1>2. a \in Int /\ a <= 30 * span
    BY <1>1
  <1>3. q \in Int /\ q * span <= a
    <2>1. span \in Nat /\ span > 0 /\ v - low \in Int /\ 30 \in Int
      BY <1>1
    <2>2. QED
      BY <2>1, ScaledNumber
  <1> HIDE DEF q, a
  <1>4. q <= 30
    <2>1. q * span <= 30 * span
      BY <1>1, <1>2, <1>3
    <2>2. QED
      BY <1>1, <1>3, <2>1
  <1>5. Larger(1, q) \in Int /\ 1 <= Larger(1, q) /\ Larger(1, q) <= 30
    <2>1. 1 \in Int /\ q \in Int
      BY <1>3
    <2>2. /\ Larger(1, q) \in Int /\ 1 <= Larger(1, q) /\ (Larger(1, q) = 1 \/ Larger(1, q) = q)
      BY <2>1, LargerIs
    <2>3. QED
      BY <1>4, <2>2
  <1>6. QED
    BY <1>5 DEF q

\* The slots of n bars fit the paper, and no bar is wider than its slot.
Slots(n, slot, w) ==
    /\ slot \in Int /\ 1 <= slot /\ w \in Int /\ 1 <= w /\ w <= slot
    /\ \A i \in 1 .. n : (i - 1) * slot \in Int /\ 0 <= (i - 1) * slot /\ (i - 1) * slot + slot <= 528
    /\ \A i, j \in 1 .. n : i < j => (i - 1) * slot + slot <= (j - 1) * slot

\* The slots of a series.
LEMMA SlotIs ==
    ASSUME NEW n \in 2 .. 200, NEW slot, slot = Larger(1, 528 \div n),
           NEW w, w = Larger(1, slot - (IF slot >= 3 THEN 1 ELSE 0))
    PROVE  Slots(n, slot, w)
  <1> DEFINE q == 528 \div n
  <1>1. q \in Int /\ q * n <= 528 /\ 2 <= q
    OBVIOUS
  <1> HIDE DEF q
  <1>2. slot = q
    <2>1. 1 \in Int /\ q \in Int
      BY <1>1
    <2>2. q <= Larger(1, q) /\ (Larger(1, q) = 1 \/ Larger(1, q) = q)
      BY <2>1, LargerIs
    <2>3. QED
      BY <1>1, <2>2 DEF q
  <1>3. w \in Int /\ 1 <= w /\ w <= slot
    <2> DEFINE d == slot - (IF slot >= 3 THEN 1 ELSE 0)
    <2>1. 1 \in Int /\ d \in Int /\ d <= slot
      BY <1>1, <1>2
    <2> HIDE DEF d
    <2>2. Larger(1, d) \in Int /\ 1 <= Larger(1, d) /\ (Larger(1, d) = 1 \/ Larger(1, d) = d)
      BY <2>1, LargerIs
    <2>3. QED
      BY <1>1, <1>2, <2>1, <2>2 DEF d
  <1>4. ASSUME NEW i \in 1 .. n
        PROVE  (i - 1) * slot \in Int /\ 0 <= (i - 1) * slot /\ (i - 1) * slot + slot <= 528
    <2>1. (i - 1) * slot \in Int /\ 0 <= (i - 1) * slot /\ (i - 1) * slot + slot = i * slot
      BY <1>1, <1>2
    <2>2. i * slot <= n * slot
      BY <1>1, <1>2
    <2>3. QED
      BY <1>1, <1>2, <2>1, <2>2
  <1>5. ASSUME NEW i \in 1 .. n, NEW j \in 1 .. n, i < j
        PROVE  (i - 1) * slot + slot <= (j - 1) * slot
    <2>1. i <= j - 1 /\ i * slot <= (j - 1) * slot
      BY <1>1, <1>2, <1>5
    <2>2. QED
      BY <1>1, <1>2, <2>1
  <1>6. QED
    BY <1>1, <1>2, <1>3, <1>4, <1>5 DEF Slots

\* sparkline
LEMMA SparklineLays ==
    ASSUME NEW b \in SparklineBlock, Len(b.series) \in 2 .. 200
    PROVE  Lays(b, Sparkline(b)) /\ Whole(Sparkline(b))
  <1> DEFINE s == b.series
             n == Len(s)
             low == Min(Range(s))
             high == Max(Range(s))
             span == Larger(1, high - low)
             slot == Larger(1, LIVE \div n)
             w == Larger(1, slot - (IF slot >= 3 THEN 1 ELSE 0))
             bar(i) == Larger(1, Scaled(30, s[i] - low, span))
             top == LabelBand(b, 2)
             box(i) == [x |-> (i - 1) * slot, y |-> top + 32 - bar(i), w |-> w, h |-> bar(i)]
             bars == [i \in DOMAIN s |-> box(i)]
             h == top + 32
             q == At(Fit(b.sub, LIVE), 0, 0)
             present == b.sub # None
  <1>1. b.type = "sparkline" /\ b.sub \in Caption /\ s \in Seq(Int)
    BY DEF SparklineBlock
  <1>2. Overhang(b) \in Nat /\ Excess(b) \in Nat
    BY <1>1, NoExcess, SMTT(30)
  <1>3. Sparkline(b) = Canvas(h, Label(b) \o bars)
    BY DEF Sparkline
  <1>4. n \in 2 .. 200 /\ n \in Nat /\ n > 0 /\ DOMAIN s = 1 .. n /\ \A i \in 1 .. n : s[i] \in Int
    <2>1. n \in 2 .. 200
      OBVIOUS
    <2> HIDE DEF s
    <2>2. DOMAIN s = 1 .. n /\ \A i \in 1 .. n : s[i] \in Int
      BY <1>1, ElementsOf
    <2> HIDE DEF n
    <2>3. QED
      BY <2>1, <2>2, SMTT(30)
  <1>5. /\ top \in Nat /\ Label(b) = IF present THEN <<q>> ELSE <<>>
        /\ present => Snug(q, LIVE, top + 32) /\ Fit(b.sub, LIVE).h <= top
    <2>1. 2 \in Nat /\ 32 \in Nat /\ 32 > 0
      OBVIOUS
    <2>2. QED
      BY <1>1, <2>1, LabelIs
  <1> HIDE DEF top, s, n
  <1>6. \A i \in 1 .. n : bar(i) \in Int /\ 1 <= bar(i) /\ bar(i) <= 30
    <2> SUFFICES ASSUME NEW i \in 1 .. n PROVE bar(i) \in Int /\ 1 <= bar(i) /\ bar(i) <= 30
      OBVIOUS
    <2>1. low \in Int /\ high \in Int /\ low <= s[i] /\ s[i] <= high
      BY <1>4, SeriesRange
    <2>2. s[i] \in Int
      BY <1>4
    <2> DEFINE sp == span
    <2>3. sp = Larger(1, high - low)
      OBVIOUS
    <2> HIDE DEF low, high, sp
    <2> DEFINE c == Larger(1, Scaled(30, s[i] - low, sp))
    <2>4. c \in Int /\ 1 <= c /\ c <= 30
      BY <2>1, <2>2, <2>3, BarIs
    <2>5. c = bar(i)
      BY DEF sp
    <2> HIDE DEF c, bar
    <2>6. QED
      BY <2>4, <2>5
  <1> HIDE DEF bar
  <1>7. slot = Larger(1, 528 \div n) /\ w = Larger(1, slot - (IF slot >= 3 THEN 1 ELSE 0))
    BY PaperIs
  <1> HIDE DEF slot, w
  <1>8. /\ w \in Int /\ 1 <= w /\ w <= slot /\ slot \in Int
        /\ \A i \in 1 .. n : (i - 1) * slot \in Int /\ 0 <= (i - 1) * slot /\ (i - 1) * slot + slot <= 528
        /\ \A i, j \in 1 .. n : i < j => (i - 1) * slot + slot <= (j - 1) * slot
    <2>1. n \in 2 .. 200
      BY <1>4
    <2> HIDE DEF n
    <2>2. Slots(n, slot, w)
      BY <1>7, <2>1, SlotIs, SMTT(30)
    <2>3. QED
      BY <2>2, Zenon DEF Slots
  <1> DEFINE at(i) == (i - 1) * slot
  <1>9. \A i \in 1 .. n : /\ bars[i].x = at(i) /\ bars[i].y = top + 32 - bar(i)
                          /\ bars[i].w = w /\ bars[i].h = bar(i)
    BY <1>4
  <1>10. bars \in Seq({box(i) : i \in 1 .. n}) /\ Len(bars) = n /\ DOMAIN bars = 1 .. n
    <2>1. bars = [i \in 1 .. n |-> box(i)] /\ n \in Nat
      BY <1>4
    <2> HIDE DEF bars, box
    <2>2. QED
      BY <2>1, SMTT(30)
  <1>11. /\ \A i \in 1 .. n : at(i) \in Int /\ 0 <= at(i) /\ at(i) + slot <= 528
         /\ \A i, j \in 1 .. n : i < j => at(i) + slot <= at(j)
    BY <1>8
  <1> HIDE DEF at, bars
  <1>12. \A i \in 1 .. n : Snug(bars[i], LIVE, h) /\ top < bars[i].y
    <2> SUFFICES ASSUME NEW i \in 1 .. n PROVE Snug(bars[i], LIVE, h) /\ top < bars[i].y
      OBVIOUS
    <2> DEFINE p == bars[i]  x == at(i)  c == bar(i)
    <2>1. p.x = x /\ p.y = top + 32 - c /\ p.w = w /\ p.h = c
      BY <1>9
    <2>2. x \in Int /\ 0 <= x /\ x + slot <= 528 /\ c \in Int /\ 1 <= c /\ c <= 30
      BY <1>6, <1>11
    <2> HIDE DEF p, x, c
    <2>3. IsBox(p) /\ p.w > 0 /\ p.h > 0
      BY <1>5, <1>8, <2>1, <2>2 DEF IsBox
    <2>4. 0 <= p.x /\ p.x + p.w <= LIVE /\ 0 <= p.y /\ p.y + p.h <= h /\ top < p.y
      BY <1>5, <1>8, <2>1, <2>2, PaperIs
    <2>5. QED
      BY <2>3, <2>4 DEF Snug, p
  <1>13. \A i, j \in 1 .. n : i # j => Disjoint(bars[i], bars[j])
    <2> SUFFICES ASSUME NEW i \in 1 .. n, NEW j \in 1 .. n, i # j PROVE Disjoint(bars[i], bars[j])
      OBVIOUS
    <2> DEFINE p == bars[i]  o == bars[j]
    <2>1. p.x = at(i) /\ p.w = w /\ o.x = at(j) /\ o.w = w /\ at(i) \in Int /\ at(j) \in Int
      BY <1>9, <1>11
    <2>2. i < j \/ j < i
      OBVIOUS
    <2> HIDE DEF p, o
    <2>3. p.x + p.w <= o.x \/ o.x + o.w <= p.x
      <3>1. at(i) + slot <= at(j) \/ at(j) + slot <= at(i)
        BY <1>11, <2>2
      <3>2. QED
        BY <1>8, <2>1, <3>1
    <2>4. Disjoint(p, o)
      BY <2>3, Zenon DEF Disjoint
    <2>5. QED
      BY <2>4 DEF p, o
  <1>14. h \in Nat /\ h > 0
    BY <1>5
  <1> HIDE DEF h
  <1>15. CASE ~present
    <2>1. Label(b) \o bars = bars
      BY <1>5, <1>10, <1>15, SMTT(30)
    <2>2. Lays(b, Canvas(h, bars)) /\ Whole(Canvas(h, bars))
      BY <1>2, <1>10, <1>12, <1>13, <1>14, LaySnug
    <2>3. QED
      BY <1>3, <2>1, <2>2
  <1>16. CASE present
    <2> DEFINE S == {box(i) : i \in 1 .. n} \cup {q}
    <2>1. Label(b) = <<q>>
      BY <1>5, <1>16
    <2>2. bars \in Seq(S) /\ q \in S
      BY <1>10, SMTT(30)
    <2>3. Snug(q, LIVE, h)
      BY <1>5, <1>16 DEF h
    <2>4. \A i \in 1 .. n : Disjoint(q, bars[i])
      <3> SUFFICES ASSUME NEW i \in 1 .. n PROVE Disjoint(q, bars[i])
        OBVIOUS
      <3> DEFINE p == bars[i]
      <3>1. q.y = 0 /\ q.h = Fit(b.sub, LIVE).h /\ q.h <= top /\ q.h \in Int
        BY <1>5, <1>16, <2>3, AtIs, SMTT(30) DEF Snug, IsBox
      <3>2. top < p.y /\ p.y \in Int
        BY <1>12 DEF Snug, IsBox
      <3> HIDE DEF q, p
      <3>3. q.y + q.h <= p.y
        BY <1>5, <3>1, <3>2
      <3>4. QED
        BY <3>3, Below DEF p
    <2> HIDE DEF S, q
    <2>5. Lays(b, Canvas(h, <<q>> \o bars)) /\ Whole(Canvas(h, <<q>> \o bars))
      BY <1>2, <1>4, <1>10, <1>12, <1>13, <1>14, <2>2, <2>3, <2>4, LayFirst
    <2>6. QED
      BY <1>3, <2>1, <2>5
  <1>17. QED
    BY <1>15, <1>16

-----------------------------------------------------------------------------
(* Rich text: where the lines start, and how wide they are.                 *)

StartAt(imgs, g, i) ==
    IF i = 1 THEN 1 ELSE IF Flow(imgs, g[i - 1], i) THEN i ELSE g[i - 1]
Starts(imgs, n, g) == g = [i \in 1 .. n |-> StartAt(imgs, g, i)]

\* There is such a function.
LEMMA StartsExist ==
    ASSUME NEW imgs, NEW n \in Nat
    PROVE  \E g : Starts(imgs, n, g)
  <1> DEFINE Bad == {m \in Nat : ~ \E g : Starts(imgs, m, g)}
  <1> SUFFICES ASSUME Bad # {} PROVE FALSE
    OBVIOUS
  <1>1. PICK m \in Bad : \A k \in Bad : m <= k
    BY LeastIs
  <1>2. CASE m = 0
    <2>1. Starts(imgs, m, [i \in 1 .. m |-> 0])
      <3>1. 1 .. m = {}
        BY <1>2
      <3>2. [i \in 1 .. m |-> 0] = [i \in 1 .. m |-> StartAt(imgs, [i_1 \in 1 .. m |-> 0], i)]
        BY <3>1
      <3>3. QED
        BY <3>2, Zenon DEF Starts
    <2>2. QED
      BY <2>1
  <1>3. CASE m # 0
    <2>1. m \in Nat /\ m - 1 \in Nat /\ ~(m <= m - 1)
      BY <1>3
    <2>2. m - 1 \notin Bad
      BY <1>1, <2>1
    <2>3. PICK g : Starts(imgs, m - 1, g)
      BY <2>1, <2>2
    <2> DEFINE f == [i \in 1 .. m |-> IF i = m THEN StartAt(imgs, g, m) ELSE g[i]]
    <2>4. \A i \in 1 .. m - 1 : g[i] = StartAt(imgs, g, i)
      <3>1. g = [i \in 1 .. m - 1 |-> StartAt(imgs, g, i)]
        BY <2>3, Zenon DEF Starts
      <3> DEFINE V(i) == StartAt(imgs, g, i)
      <3>2. g = [i \in 1 .. m - 1 |-> V(i)]
        BY <3>1
      <3> HIDE DEF V
      <3>3. \A i \in 1 .. m - 1 : g[i] = V(i)
        BY <3>2, Zenon
      <3>4. QED
        BY <3>3 DEF V
    <2>5. ASSUME NEW i \in 1 .. m PROVE f[i] = StartAt(imgs, f, i)
      <3>1. f[i] = StartAt(imgs, g, i)
        <4>1. CASE i = m
          BY <4>1
        <4>2. CASE i # m
          <5>1. i \in 1 .. m - 1
            BY <2>1, <4>2
          <5>2. QED
            BY <2>4, <4>2, <5>1
        <4>3. QED
          BY <4>1, <4>2
      <3>2. i # 1 => f[i - 1] = g[i - 1]
        <4>1. i # 1 => i - 1 \in 1 .. m /\ i - 1 # m
          BY <2>1
        <4>2. QED
          BY <4>1
      <3> HIDE DEF f
      <3>3. StartAt(imgs, f, i) = StartAt(imgs, g, i)
        BY <3>2 DEF StartAt
      <3>4. QED
        BY <3>1, <3>3
    <2>6. Starts(imgs, m, f)
      <3>1. f = [i \in 1 .. m |-> f[i]]
        OBVIOUS
      <3> HIDE DEF f
      <3>2. QED
        BY <3>1, <2>5, Zenon DEF Starts
    <2>7. QED
      BY <2>6
  <1>4. QED
    BY <1>2, <1>3

\* LineStarts is one.
LEMMA LineStartsIs ==
    ASSUME NEW n \in Nat, NEW imgs, DOMAIN imgs = 1 .. n
    PROVE  \A i \in 1 .. n : LineStarts(imgs)[i] = StartAt(imgs, LineStarts(imgs), i)
  <1> DEFINE IsStart(g) == g = [i \in DOMAIN imgs |->
                 IF i = 1 THEN 1 ELSE IF Flow(imgs, g[i - 1], i) THEN i ELSE g[i - 1]]
             start == CHOOSE g : IsStart(g)
  <1>1. PICK g : Starts(imgs, n, g)
    BY StartsExist
  <1>2. IsStart(g)
    <2>1. g = [i \in 1 .. n |-> StartAt(imgs, g, i)]
      BY <1>1, Zenon DEF Starts
    <2>2. QED
      BY <2>1, Zenon DEF StartAt
  <1>3. IsStart(start)
    BY <1>2, Zenon
  <1>4. LineStarts(imgs) = start
    BY Zenon DEF LineStarts
  <1>5. start = [i \in 1 .. n |-> StartAt(imgs, start, i)]
    BY <1>3, Zenon DEF StartAt
  <1> HIDE DEF start
  <1> DEFINE V(i) == StartAt(imgs, start, i)
  <1>6. start = [i \in 1 .. n |-> V(i)]
    BY <1>5
  <1> HIDE DEF V
  <1>7. \A i \in 1 .. n : start[i] = V(i)
    BY <1>6, Zenon
  <1>8. QED
    BY <1>4, <1>7 DEF V

\* A line starts with the fragment it is named for, and goes on while it fits.
LEMMA LinesAre ==
    ASSUME NEW n \in Nat, NEW imgs, NEW start, \A i \in 1 .. n : start[i] = StartAt(imgs, start, i)
    PROVE  \A i \in 1 .. n :
             /\ start[i] \in 1 .. i /\ start[start[i]] = start[i]
             /\ start[i] = i \/ (i > 1 /\ start[i] = start[i - 1] /\ ~Flow(imgs, start[i], i))
  <1>1. \A i \in 1 .. n : IF i = 1 THEN start[i] = 1
                          ELSE start[i] = i \/ (start[i] = start[i - 1] /\ ~Flow(imgs, start[i - 1], i))
    BY DEF StartAt
  <1> DEFINE Good(i) == start[i] \in 1 .. i /\ start[start[i]] = start[i]
             Bad == {i \in Nat : i \in 1 .. n /\ ~Good(i)}
  <1>2. \A i \in 1 .. n : Good(i)
    <2> SUFFICES ASSUME Bad # {} PROVE FALSE
      <3>1. \A i \in 1 .. n : i \in Nat
        OBVIOUS
      <3> HIDE DEF Good
      <3>2. QED
        BY <3>1
    <2>1. PICK m \in Bad : \A k \in Bad : m <= k
      BY LeastIs
    <2>2. m \in 1 .. n /\ ~Good(m)
      BY <2>1
    <2>3. start[m] # m
      BY <2>2
    <2>4. m # 1 /\ start[m] = start[m - 1]
      BY <1>1, <2>2, <2>3
    <2>5. m - 1 \in 1 .. n /\ m - 1 \in Nat /\ ~(m <= m - 1)
      BY <2>2, <2>4
    <2>6. m - 1 \notin Bad
      BY <2>1, <2>5
    <2>7. Good(m - 1)
      <3> HIDE DEF Good
      <3>1. QED
        BY <2>5, <2>6
    <2>8. start[m - 1] \in 1 .. m
      BY <2>5, <2>7
    <2>9. Good(m)
      BY <2>4, <2>7, <2>8
    <2>10. QED
      BY <2>2, <2>9
  <1>3. QED
    BY <1>1, <1>2

\* What is added up from some place on is not more than the whole from there.
LEMMA TotalPart ==
    ASSUME NEW n \in Nat, NEW f, NEW g, NEW s \in 1 .. n,
           \A i \in 1 .. n : f[i] \in Nat /\ g[i] \in Nat /\ f[i] <= g[i],
           \A i \in 1 .. n : i < s => f[i] = 0
    PROVE  /\ Total(f, s - 1) = 0
           /\ \A k \in s - 1 .. n : Total(f, k) <= Total(g, k) - Total(g, s - 1)
  <1>1. \A k \in 0 .. n : Total(f, k) \in Nat /\ Total(g, k) \in Nat
    BY TotalsAre
  <1>2. Total(f, s - 1) = 0
    <2> DEFINE Bad == {i \in Nat : i < s /\ Total(f, i) # 0}
    <2>1. CASE Bad = {}
      <3>1. s - 1 \in Nat /\ s - 1 < s
        OBVIOUS
      <3>2. QED
        BY <2>1, <3>1
    <2>2. CASE Bad # {}
      <3>1. PICK i \in Bad : \A j \in Bad : i <= j
        BY <2>2, LeastIs
      <3>2. i \in Nat /\ i < s /\ i # 0 /\ i > 0
        BY <3>1, TotalStep
      <3>3. i - 1 \in Nat /\ i - 1 < s /\ ~(i <= i - 1) /\ i \in 1 .. n
        BY <3>2
      <3>4. Total(f, i - 1) = 0
        BY <3>1, <3>3
      <3>5. Total(f, i) = Total(f, i - 1) + f[i] /\ f[i] = 0
        BY <3>2, <3>3, TotalFrom
      <3>6. QED
        BY <3>1, <3>4, <3>5
    <2>3. QED
      BY <2>1, <2>2
  <1>3. \A k \in s - 1 .. n : Total(f, k) <= Total(g, k) - Total(g, s - 1)
    <2> DEFINE Bad == {k \in Nat : k \in s - 1 .. n /\ ~(Total(f, k) <= Total(g, k) - Total(g, s - 1))}
    <2>1. CASE Bad = {}
      <3>1. \A k \in s - 1 .. n : k \in Nat
        OBVIOUS
      <3>2. QED
        BY <2>1, <3>1
    <2>2. CASE Bad # {}
      <3>1. PICK k \in Bad : \A j \in Bad : k <= j
        BY <2>2, LeastIs
      <3>2. s - 1 \in 0 .. n
        OBVIOUS
      <3>3. Total(g, s - 1) \in Nat
        BY <1>1, <3>2
      <3>4. k # s - 1
        BY <1>2, <3>1, <3>3
      <3>5. k \in 1 .. n /\ k - 1 \in Nat /\ k - 1 \in s - 1 .. n /\ ~(k <= k - 1) /\ k - 1 \in 0 .. n /\ k \in Nat /\ k > 0
        BY <3>1, <3>4
      <3>6. Total(f, k - 1) <= Total(g, k - 1) - Total(g, s - 1)
        BY <3>1, <3>5
      <3>7. Total(f, k) = Total(f, k - 1) + f[k] /\ Total(g, k) = Total(g, k - 1) + g[k]
        BY <3>5, TotalFrom
      <3>8. f[k] \in Nat /\ g[k] \in Nat /\ f[k] <= g[k] /\ Total(f, k - 1) \in Nat /\ Total(g, k - 1) \in Nat
        BY <1>1, <3>5
      <3>9. Total(f, k) <= Total(g, k) - Total(g, s - 1)
        BY <3>3, <3>6, <3>7, <3>8
      <3>10. QED
        BY <3>1, <3>9
    <2>3. QED
      BY <2>1, <2>2
  <1>4. QED
    BY <1>2, <1>3

\* A fragment of rich text.
LEMMA FragmentIs ==
    ASSUME NEW run \in [img : Bitmaps, italic : BOOLEAN, underline : BOOLEAN]
    PROVE  /\ Fragment(run).w \in Int /\ Fragment(run).w > 0
           /\ Fragment(run).h \in Int /\ Fragment(run).h > 0
           /\ Slant(run.img.h) \in Nat
           /\ Fragment(run).w <= 528 + (IF run.italic THEN Slant(run.img.h) ELSE 0)
  <1> DEFINE img == Fit(run.img, LIVE)
             ital == Italic(img)
             s == IF run.italic THEN ital ELSE img
  <1>1. LIVE \in Int /\ LIVE > 0 /\ LIVE = 528 /\ run.img \in Bitmaps
    BY PaperIs
  <1>2. /\ img.w \in Int /\ img.w > 0 /\ img.w <= LIVE /\ img.h \in Int /\ img.h > 0
    BY <1>1, Fitted
  <1>3. /\ ital.w \in Int /\ ital.w > 0 /\ ital.w <= LIVE + Slant(run.img.h)
        /\ ital.h \in Int /\ ital.h > 0 /\ Slant(run.img.h) \in Nat
    BY <1>1, ItalicIs
  <1>4. Fragment(run) = IF run.underline THEN Underlined(s) ELSE s
    BY Zenon DEF Fragment
  <1>5. DOMAIN img = {"w", "h"} /\ DOMAIN ital = {"w", "h"}
    BY <1>1 DEF Fit, Italic, Bitmaps
  <1> HIDE DEF img, ital
  <1>6. /\ s.w \in Int /\ s.w > 0 /\ s.h \in Int /\ s.h > 0
        /\ s.w <= 528 + (IF run.italic THEN Slant(run.img.h) ELSE 0)
        /\ DOMAIN s = {"w", "h"}
    BY <1>1, <1>2, <1>3, <1>5
  <1> HIDE DEF s
  <1>7. Underlined(s).w = s.w /\ Underlined(s).h = s.h + 2
    BY <1>6 DEF Underlined
  <1>8. QED
    BY <1>3, <1>4, <1>6, <1>7

\* How far italics reach beyond the paper.
LEMMA RichOverhang ==
    ASSUME NEW b \in RichTextBlock
    PROVE  /\ Overhang(b) \in Nat /\ Excess(b) = 0
           /\ \A i \in 1 .. Len(b.runs) : b.runs[i].italic => Slant(b.runs[i].img.h) <= Overhang(b)
  <1> DEFINE n == Len(b.runs)
             f == [i \in 1 .. n |-> Slant(b.runs[i].img.h)]
             K == {i \in 1 .. n : b.runs[i].italic}
  <1>1. /\ b.type = "rich_text"
        /\ b.runs \in Seq([img : Bitmaps, italic : BOOLEAN, underline : BOOLEAN])
    BY DEF RichTextBlock
  <1>2. n \in Nat /\ DOMAIN b.runs = 1 .. n
    BY <1>1
  <1>3. \A i \in 1 .. n : f[i] \in Nat /\ f[i] = Slant(b.runs[i].img.h)
    <2>1. \A i \in 1 .. n : b.runs[i] \in [img : Bitmaps, italic : BOOLEAN, underline : BOOLEAN]
      BY <1>1, <1>2, ElementsOf
    <2>2. \A i \in 1 .. n : Slant(b.runs[i].img.h) \in Nat
      BY <2>1, FragmentIs
    <2>3. QED
      BY <2>2
  <1>4. Overhang(b) = Max({0} \cup {f[i] : i \in K})
    <2>1. {Slant(b.runs[i].img.h) : i \in {i \in DOMAIN b.runs : b.runs[i].italic}} = {f[i] : i \in K}
      BY <1>2, <1>3
    <2>2. Overhang(b) = Max({0} \cup {Slant(b.runs[i].img.h) : i \in {i \in DOMAIN b.runs : b.runs[i].italic}})
      BY <1>1 DEF Overhang
    <2>3. QED
      BY <2>1, <2>2
  <1> HIDE DEF f
  <1>5. K \in SUBSET (1 .. n) /\ \A i \in K : f[i] \in Int
    BY <1>3
  <1>6. \A i \in 1 .. n : b.runs[i].italic => i \in K
    OBVIOUS
  <1> HIDE DEF K
  <1>7. Max({0} \cup {f[i] : i \in K}) \in Nat /\ \A i \in K : f[i] <= Max({0} \cup {f[i_1] : i_1 \in K})
    BY <1>2, <1>5, MaxOrZero
  <1>8. Excess(b) = 0
    BY <1>1, NoExcess
  <1>9. QED
    BY <1>3, <1>4, <1>6, <1>7, <1>8

\* The fragments of a line lie in a row, no wider than the paper and a slant.
LineOf(imgs, start, s) == [i \in DOMAIN imgs |-> IF start[i] = s THEN imgs[i].w ELSE 0]

RowFits(n, imgs, over, start, s) ==
    LET f == LineOf(imgs, start, s) IN
    /\ \A k \in 0 .. n : Total(f, k) \in Nat /\ Total(f, k) <= 528 + over
    /\ \A i \in 1 .. n : start[i] = s => Total(f, i) = Total(f, i - 1) + imgs[i].w
    /\ \A i, k \in 0 .. n : i <= k => Total(f, i) <= Total(f, k)

\* A line that flowed fits on the paper, but for its italics.
LEMMA LineWidth ==
    ASSUME NEW n \in Nat, NEW imgs, DOMAIN imgs = 1 .. n, NEW over \in Nat,
           \A i \in 1 .. n : imgs[i].w \in Nat /\ imgs[i].w <= 528 + over,
           NEW start, \A i \in 1 .. n : start[i] = StartAt(imgs, start, i),
           NEW s \in 1 .. n, start[s] = s
    PROVE  RowFits(n, imgs, over, start, s)
  <1> DEFINE f == LineOf(imgs, start, s)
             g == [i \in DOMAIN imgs |-> imgs[i].w]
  <1>1. \A i \in 1 .. n : /\ f[i] = IF start[i] = s THEN imgs[i].w ELSE 0
                          /\ g[i] = imgs[i].w
    BY DEF LineOf
  <1>2. \A i, m \in 1 .. n : Flow(imgs, m, i) <=> Total(g, i) - Total(g, m - 1) > 528
    BY PaperIs DEF Flow, Widths
  <1> HIDE DEF f, g
  <1>3. \A i \in 1 .. n : f[i] \in Nat /\ g[i] \in Nat /\ f[i] <= g[i]
    BY <1>1
  <1>4. \A i \in 1 .. n : /\ start[i] \in 1 .. i
                          /\ start[i] = i \/ (i > 1 /\ start[i] = start[i - 1] /\ ~Flow(imgs, start[i], i))
    <2>1. \A i \in 1 .. n :
            /\ start[i] \in 1 .. i /\ start[start[i]] = start[i]
            /\ start[i] = i \/ (i > 1 /\ start[i] = start[i - 1] /\ ~Flow(imgs, start[i], i))
      BY LinesAre, Zenon
    <2>2. QED
      BY <2>1
  <1>5. \A i \in 1 .. n : i < s => f[i] = 0
    <2> SUFFICES ASSUME NEW i \in 1 .. n, i < s PROVE f[i] = 0
      OBVIOUS
    <2>1. start[i] \in 1 .. i
      BY <1>4
    <2>2. start[i] # s
      BY <2>1
    <2>3. QED
      BY <1>1, <2>2
  <1>6. /\ \A i \in 1 .. n : Total(f, i) = Total(f, i - 1) + f[i]
        /\ \A k \in 0 .. n : Total(f, k) \in Nat
        /\ \A i, k \in 0 .. n : i <= k => Total(f, i) <= Total(f, k)
        /\ Total(f, 0) = 0
    BY <1>3, TotalsAre, ZenonT(30)
  <1>7. /\ Total(f, s - 1) = 0
        /\ \A k \in s - 1 .. n : Total(f, k) <= Total(g, k) - Total(g, s - 1)
    BY <1>3, <1>5, TotalPart
  <1>8. \A k \in 0 .. n : Total(g, k) \in Nat
    BY <1>3, TotalsAre
  <1> DEFINE Bad == {k \in Nat : k \in 0 .. n /\ ~(Total(f, k) <= 528 + over)}
  <1>9. CASE Bad = {}
    <2>1. \A k \in 0 .. n : k \in Nat
      OBVIOUS
    <2>2. \A k \in 0 .. n : Total(f, k) <= 528 + over
      BY <1>9, <2>1
    <2>3. QED
      BY <1>1, <1>6, <2>2, SMTT(30) DEF f, RowFits
  <1>10. CASE Bad # {}
    <2>1. PICK k \in Bad : \A j \in Bad : k <= j
      BY <1>10, LeastIs
    <2>2. k \in Nat /\ k \in 0 .. n /\ k # 0 /\ ~(Total(f, k) <= 528 + over)
      BY <1>6, <2>1
    <2>3. k \in 1 .. n /\ k - 1 \in 0 .. n /\ k - 1 \in Nat /\ ~(k <= k - 1)
      BY <2>2
    <2>4. Total(f, k - 1) <= 528 + over
      BY <2>1, <2>3
    <2>5. Total(f, k) = Total(f, k - 1) + f[k] /\ Total(f, k - 1) \in Nat /\ Total(f, k) \in Nat
      BY <1>6, <2>3
    <2>6. start[k] = s
      <3>1. f[k] # 0
        BY <2>2, <2>4, <2>5
      <3>2. QED
        BY <1>1, <2>3, <3>1
    <2>7. CASE k = s
      <3>1. Total(f, k) = f[k] /\ f[k] = imgs[k].w
        BY <1>1, <1>7, <2>3, <2>5, <2>6, <2>7
      <3>2. QED
        BY <2>2, <2>3, <3>1
    <2>8. CASE k # s
      <3>1. ~Flow(imgs, s, k) /\ s \in 1 .. k
        BY <1>4, <2>3, <2>6, <2>8
      <3>2. ~(Total(g, k) - Total(g, s - 1) > 528)
        BY <1>2, <2>3, <3>1
      <3>3. k \in s - 1 .. n /\ s - 1 \in 0 .. n
        BY <2>3, <3>1
      <3>4. Total(f, k) <= Total(g, k) - Total(g, s - 1)
        BY <1>7, <3>3
      <3>5. Total(g, k) \in Nat /\ Total(g, s - 1) \in Nat
        BY <1>8, <2>2, <3>3
      <3>6. QED
        BY <2>2, <2>5, <3>2, <3>4, <3>5
    <2>9. QED
      BY <2>7, <2>8
  <1>11. QED
    BY <1>9, <1>10

\* Where a line of a given width is put.
LEMMA LeftIs ==
    ASSUME NEW t \in Nat, NEW over \in Nat, t <= 528 + over, NEW align \in Aligns
    PROVE  LET x == Placed([w |-> t], align, 0, 0)
           IN  x \in Int /\ 0 - over <= x /\ x + t <= 528 + over
  <1> DEFINE x == Placed([w |-> t], align, 0, 0)
  <1>1. CASE align = "left"
    <2>1. x = 0
      BY <1>1 DEF Placed
    <2>2. QED
      BY <2>1
  <1>2. CASE align = "center"
    <2>1. x = (528 - t) \div 2
      BY <1>2, PaperIs DEF Placed, Centered
    <2> HIDE DEF x
    <2>2. x \in Int /\ 0 - over <= x /\ x + t <= 528 + over
      BY <2>1
    <2>3. QED
      BY <2>2 DEF x
  <1>3. CASE align = "right"
    <2>1. x = LIVE - t - 0
      BY <1>3 DEF Placed
    <2>2. QED
      BY <2>1, PaperIs
  <1>4. QED
    BY <1>1, <1>2, <1>3 DEF Aligns

\* The lines are stacked: each starts below those before it.
LEMMA StackedLines ==
    ASSUME NEW n \in Nat, NEW start, \A i \in 1 .. n : start[i] \in 1 .. i /\ start[start[i]] = start[i],
           NEW tall, \A i \in 1 .. n : start[i] = i => tall[i] \in Nat,
           NEW L, \A i \in 1 .. n : L[i] = IF start[i] = i THEN tall[i] + 4 ELSE 0
    PROVE  /\ \A i \in 1 .. n : /\ Total(L, start[i] - 1) \in Nat /\ Total(L, n) \in Nat
                                /\ Total(L, start[i] - 1) + tall[start[i]] <= Total(L, n)
           /\ \A i, j \in 1 .. n : start[i] < start[j] =>
                Total(L, start[i] - 1) + tall[start[i]] <= Total(L, start[j] - 1)
  <1>1. \A i \in 1 .. n : L[i] \in Nat
    OBVIOUS
  <1>2. /\ \A i \in 1 .. n : Total(L, i) = Total(L, i - 1) + L[i]
        /\ \A i \in 0 .. n : Total(L, i) \in Nat
        /\ \A i, k \in 0 .. n : i <= k => Total(L, i) <= Total(L, k)
    BY <1>1, TotalsAre
  <1>3. ASSUME NEW i \in 1 .. n, NEW k \in 0 .. n, start[i] <= k
        PROVE  /\ Total(L, start[i] - 1) \in Nat
               /\ Total(L, start[i] - 1) + tall[start[i]] <= Total(L, k)
    <2> DEFINE s == start[i]
    <2>1. s \in 1 .. n /\ start[s] = s /\ s \in 0 .. n /\ s - 1 \in 0 .. n /\ s <= k
      BY <1>3
    <2> HIDE DEF s
    <2>2. L[s] = tall[s] + 4 /\ tall[s] \in Nat
      BY <2>1
    <2>3. Total(L, s) = Total(L, s - 1) + L[s] /\ Total(L, s - 1) \in Nat
      BY <1>2, <2>1
    <2>4. Total(L, s) <= Total(L, k) /\ Total(L, k) \in Nat
      BY <1>2, <2>1
    <2>5. Total(L, s - 1) + tall[s] <= Total(L, k)
      BY <2>2, <2>3, <2>4
    <2>6. QED
      BY <2>3, <2>5 DEF s
  <1>4. n \in 0 .. n /\ Total(L, n) \in Nat
    BY <1>2
  <1>5. \A i \in 1 .. n : start[i] <= n
    OBVIOUS
  <1>6. \A i, j \in 1 .. n : start[i] < start[j] => start[i] <= start[j] - 1 /\ start[j] - 1 \in 0 .. n
    OBVIOUS
  <1>7. QED
    BY <1>3, <1>4, <1>5, <1>6

\* rich_text
LEMMA RichTextLays ==
    ASSUME NEW b \in RichTextBlock, Listed(b.runs, 64)
    PROVE  Lays(b, RichText(b)) /\ Whole(RichText(b))
  <1> DEFINE n == Len(b.runs)
             img == [i \in DOMAIN b.runs |-> Fragment(b.runs[i])]
             start == LineStarts(img)
             tall(s) == Max({img[i].h : i \in {i \in DOMAIN img : start[i] = s}})
             L == [i \in DOMAIN img |-> IF start[i] = i THEN tall(i) + 4 ELSE 0]
             top(s) == Total(L, s - 1)
             width(s, m) == Total(LineOf(img, start, s), m)
             left(s) == Placed([w |-> width(s, n)], b.align, 0, 0)
             h == Total(L, n + 1 - 1) + 4
             ink == [i \in DOMAIN img |->
                       At(img[i], left(start[i]) + width(start[i], i - 1),
                          top(start[i]) + (tall(start[i]) - img[i].h))]
             over == Overhang(b)
  <1>1. /\ b.type = "rich_text" /\ b.align \in Aligns
        /\ b.runs \in Seq([img : Bitmaps, italic : BOOLEAN, underline : BOOLEAN])
    BY DEF RichTextBlock
  <1>2. n \in Nat /\ n > 0 /\ DOMAIN b.runs = 1 .. n
    BY <1>1 DEF Listed
  <1>3. over \in Nat /\ Excess(b) = 0 /\ \A i \in 1 .. n : b.runs[i].italic => Slant(b.runs[i].img.h) <= over
    BY RichOverhang
  <1>4. RichText(b) = Canvas(h, ink)
    BY DEF RichText, LineOf
  <1> HIDE DEF over
  <1>5. DOMAIN img = 1 .. n /\ \A i \in 1 .. n : img[i] = Fragment(b.runs[i])
    BY <1>2
  <1> HIDE DEF img
  <1>6. \A i \in 1 .. n : /\ img[i].w \in Nat /\ img[i].w > 0 /\ img[i].w <= 528 + over
                          /\ img[i].h \in Nat /\ img[i].h > 0
    <2> SUFFICES ASSUME NEW i \in 1 .. n
                 PROVE  /\ img[i].w \in Nat /\ img[i].w > 0 /\ img[i].w <= 528 + over
                        /\ img[i].h \in Nat /\ img[i].h > 0
      OBVIOUS
    <2> DEFINE run == b.runs[i]  f == Fragment(run)
    <2>1. run \in [img : Bitmaps, italic : BOOLEAN, underline : BOOLEAN]
      BY <1>1, <1>2, ElementsOf
    <2>2. img[i] = f /\ (run.italic => Slant(run.img.h) <= over)
      BY <1>3, <1>5
    <2> HIDE DEF run
    <2>3. /\ f.w \in Int /\ f.w > 0 /\ f.h \in Int /\ f.h > 0 /\ Slant(run.img.h) \in Nat
          /\ f.w <= 528 + (IF run.italic THEN Slant(run.img.h) ELSE 0)
      BY <2>1, FragmentIs
    <2> HIDE DEF f
    <2>4. QED
      BY <1>3, <2>2, <2>3
  <1>7. \A i \in 1 .. n : start[i] = StartAt(img, start, i)
    BY <1>2, <1>5, LineStartsIs
  <1> HIDE DEF start
  <1>8. \A i \in 1 .. n : start[i] \in 1 .. i /\ start[start[i]] = start[i]
    <2>1. \A i \in 1 .. n :
            /\ start[i] \in 1 .. i /\ start[start[i]] = start[i]
            /\ start[i] = i \/ (i > 1 /\ start[i] = start[i - 1] /\ ~Flow(img, start[i], i))
      BY <1>2, <1>7, LinesAre
    <2>2. QED
      BY <2>1
  <1> DEFINE talls == [s \in 1 .. n |-> tall(s)]
  <1>9. \A s \in 1 .. n : start[s] = s =>
          /\ talls[s] \in Nat
          /\ \A i \in 1 .. n : start[i] = s => img[i].h <= talls[s]
    <2> SUFFICES ASSUME NEW s \in 1 .. n, start[s] = s
                 PROVE  /\ talls[s] \in Nat
                        /\ \A i \in 1 .. n : start[i] = s => img[i].h <= talls[s]
      OBVIOUS
    <2> DEFINE K == {i \in 1 .. n : start[i] = s}
               f == [i \in 1 .. n |-> img[i].h]
    <2>1. K \in SUBSET (1 .. n) /\ s \in K
      OBVIOUS
    <2>2. \A i \in 1 .. n : f[i] = img[i].h /\ f[i] \in Nat
      BY <1>6
    <2>3. talls[s] = Max({f[i] : i \in K})
      <3>1. {img[i].h : i \in {i \in DOMAIN img : start[i] = s}} = {f[i] : i \in K}
        BY <1>5
      <3>2. talls[s] = Max({img[i].h : i \in {i \in DOMAIN img : start[i] = s}})
        OBVIOUS
      <3>3. QED
        BY <3>1, <3>2
    <2>4. \A i \in 1 .. n : start[i] = s => i \in K
      OBVIOUS
    <2>7. K # {} /\ \A i \in K : f[i] \in Int
      BY <2>1, <2>2
    <2> HIDE DEF K, f, talls
    <2>5. (\E m \in K : Max({f[i] : i \in K}) = f[m]) /\ \A i \in K : f[i] <= Max({f[i_1] : i_1 \in K})
      BY <1>2, <2>1, <2>7, MaxIs
    <2>6. QED
      BY <2>1, <2>2, <2>3, <2>4, <2>5
  <1>10. \A i \in 1 .. n : L[i] = IF start[i] = i THEN talls[i] + 4 ELSE 0
    BY <1>5
  <1>11. \A s \in 1 .. n : tall(s) = talls[s]
    OBVIOUS
  <1> HIDE DEF talls, L, tall
  <1>12. /\ \A i \in 1 .. n : /\ top(start[i]) \in Nat /\ Total(L, n) \in Nat
                              /\ top(start[i]) + talls[start[i]] <= Total(L, n)
         /\ \A i, j \in 1 .. n : start[i] < start[j] =>
              top(start[i]) + talls[start[i]] <= top(start[j])
    BY <1>2, <1>8, <1>9, <1>10, StackedLines
  <1> HIDE DEF top
  <1>13. \A i \in 1 .. n : LET s == start[i] IN
           /\ width(s, i - 1) \in Nat /\ width(s, n) \in Nat
           /\ width(s, i - 1) + img[i].w <= width(s, n) /\ width(s, n) <= 528 + over
           /\ \A j \in 1 .. n : i < j => width(s, i - 1) + img[i].w <= width(s, j - 1)
    <2> SUFFICES ASSUME NEW i \in 1 .. n
                 PROVE  /\ width(start[i], i - 1) \in Nat /\ width(start[i], n) \in Nat
                        /\ width(start[i], i - 1) + img[i].w <= width(start[i], n) /\ width(start[i], n) <= 528 + over
                        /\ \A j \in 1 .. n : i < j => width(start[i], i - 1) + img[i].w <= width(start[i], j - 1)
      BY Zenon
    <2> DEFINE s == start[i]  W(m) == width(s, m)
    <2>1. s \in 1 .. n /\ start[s] = s
      BY <1>8
    <2>2. s = start[i]
      OBVIOUS
    <2> HIDE DEF s
    <2>3. /\ \A k \in 0 .. n : W(k) \in Nat /\ W(k) <= 528 + over
          /\ \A m \in 1 .. n : start[m] = s => W(m) = W(m - 1) + img[m].w
          /\ \A m, k \in 0 .. n : m <= k => W(m) <= W(k)
      <3>1. \A m \in 1 .. n : img[m].w \in Nat /\ img[m].w <= 528 + over
        BY <1>6
      <3>2. QED
        <4> HIDE DEF W
        <4>1. RowFits(n, img, over, start, s)
          BY <1>2, <1>3, <1>5, <1>7, <2>1, <3>1, LineWidth
        <4>2. \A k : W(k) = Total(LineOf(img, start, s), k)
          BY DEF W
        <4>3. QED
          BY <4>1, <4>2, SMTT(30) DEF RowFits
    <2> HIDE DEF W
    <2>4. i \in 0 .. n /\ i - 1 \in 0 .. n /\ n \in 0 .. n /\ i <= n
      BY <1>2
    <2>5. W(i) = W(i - 1) + img[i].w /\ W(i - 1) \in Nat /\ W(n) \in Nat /\ W(n) <= 528 + over /\ W(i) <= W(n)
      BY <2>2, <2>3, <2>4, SMTT(30)
    <2>6. \A j \in 1 .. n : i < j => W(i) <= W(j - 1)
      <3>1. \A j \in 1 .. n : i < j => j - 1 \in 0 .. n /\ i <= j - 1
        OBVIOUS
      <3>2. QED
        BY <2>3, <2>4, <3>1
    <2>7. /\ W(i - 1) \in Nat /\ W(n) \in Nat
          /\ W(i - 1) + img[i].w <= W(n) /\ W(n) <= 528 + over
          /\ \A j \in 1 .. n : i < j => W(i - 1) + img[i].w <= W(j - 1)
      BY <2>5, <2>6
    <2>8. QED
      BY <2>2, <2>7 DEF W
  <1> HIDE DEF width
  <1>14. \A i \in 1 .. n : /\ left(start[i]) \in Int /\ 0 - over <= left(start[i])
                           /\ left(start[i]) + width(start[i], n) <= 528 + over
    <2> SUFFICES ASSUME NEW i \in 1 .. n
                 PROVE  /\ left(start[i]) \in Int /\ 0 - over <= left(start[i])
                        /\ left(start[i]) + width(start[i], n) <= 528 + over
      OBVIOUS
    <2> DEFINE t == width(start[i], n)
    <2>1. t \in Nat /\ t <= 528 + over
      BY <1>13
    <2> HIDE DEF t
    <2>2. LET x == Placed([w |-> t], b.align, 0, 0)
          IN  x \in Int /\ 0 - over <= x /\ x + t <= 528 + over
      BY <1>1, <1>3, <2>1, LeftIs
    <2>3. QED
      BY <2>2 DEF t
  <1> HIDE DEF left
  <1>15. \A i \in 1 .. n : /\ ink[i].x = left(start[i]) + width(start[i], i - 1)
                           /\ ink[i].y = top(start[i]) + (tall(start[i]) - img[i].h)
                           /\ ink[i].w = img[i].w /\ ink[i].h = img[i].h
    BY <1>5, AtIs
  <1>16. DOMAIN ink = 1 .. n
    BY <1>5
  <1> HIDE DEF ink
  <1>17. h = Total(L, n) + 4
    <2>1. n + 1 - 1 = n
      BY <1>2
    <2>2. QED
      BY <2>1
  <1>18. 1 \in 1 .. n
    BY <1>2
  <1>19. h \in Nat /\ h > 0
    <2>1. Total(L, n) \in Nat
      BY <1>12, <1>18
    <2> HIDE DEF h
    <2>2. QED
      BY <1>17, <2>1
  <1> HIDE DEF h
  <1> DEFINE cv == Canvas(h, ink)
  <1>20. cv.w = 528 /\ cv.h = h
    BY PaperIs DEF Canvas
  <1> HIDE DEF cv
  <1>21. ASSUME NEW i \in 1 .. n
         PROVE  /\ IsBox(ink[i]) /\ OnPaper(ink[i], b, cv) /\ ink[i].w > 0 /\ ink[i].h > 0
                /\ ink[i].y >= top(start[i]) /\ ink[i].y + ink[i].h = top(start[i]) + talls[start[i]]
    <2> DEFINE p == ink[i]  x == left(start[i])  v == width(start[i], i - 1)  t == width(start[i], n)
               y == top(start[i])  a == talls[start[i]]  f == img[i]
    <2>1. start[i] \in 1 .. n /\ start[start[i]] = start[i]
      BY <1>8
    <2>2. p.x = x + v /\ p.y = y + (a - f.h) /\ p.w = f.w /\ p.h = f.h
      BY <1>11, <1>15, <2>1
    <2>3. f.w \in Nat /\ f.w > 0 /\ f.h \in Nat /\ f.h > 0
      BY <1>6
    <2>4. a \in Nat /\ f.h <= a
      BY <1>9, <2>1
    <2>5. y \in Nat /\ y + a <= Total(L, n) /\ Total(L, n) \in Nat
      BY <1>12
    <2>6. v \in Nat /\ t \in Nat /\ v + f.w <= t
      BY <1>13
    <2>7. x \in Int /\ 0 - over <= x /\ x + t <= 528 + over
      BY <1>14
    <2> HIDE DEF p, x, v, t, y, a, f
    <2>8. IsBox(p) /\ p.w > 0 /\ p.h > 0
      BY <2>2, <2>3, <2>4, <2>5, <2>6, <2>7, SMTT(30) DEF IsBox
    <2>9. p.y >= y /\ p.y + p.h = y + a
      BY <2>2, <2>3, <2>4, <2>5
    <2>10. p.y >= 0 - 0 /\ p.y + p.h <= h + 0
      BY <1>17, <2>4, <2>5, <2>9, <2>8 DEF IsBox
    <2>11. p.x >= 0 - over /\ p.x + p.w <= 528 + over
      BY <1>3, <2>2, <2>3, <2>6, <2>7
    <2>12. OnPaper(p, b, cv)
      BY <1>3, <1>20, <2>10, <2>11 DEF OnPaper, over
    <2>13. QED
      BY <2>8, <2>9, <2>12 DEF p, y, a
  <1>22. ASSUME NEW i \in 1 .. n, NEW j \in 1 .. n, start[i] < start[j] \/ (start[i] = start[j] /\ i < j)
         PROVE  Disjoint(ink[i], ink[j])
    <2> DEFINE p == ink[i]  q == ink[j]
    <2>1. CASE start[i] < start[j]
      <3>1. p.y + p.h = top(start[i]) + talls[start[i]] /\ q.y >= top(start[j]) /\ IsBox(p) /\ IsBox(q)
        <4>1. p.y + p.h = top(start[i]) + talls[start[i]] /\ IsBox(p)
          BY <1>21
        <4>2. q.y >= top(start[j]) /\ IsBox(q)
          BY <1>21
        <4>3. QED
          BY <4>1, <4>2
      <3>2. top(start[i]) + talls[start[i]] <= top(start[j]) /\ top(start[j]) \in Nat
        BY <1>12, <2>1
      <3> HIDE DEF p, q
      <3>3. p.y + p.h <= q.y
        BY <3>1, <3>2 DEF IsBox
      <3>4. QED
        BY <3>3, Below DEF p, q
    <2>2. CASE start[i] = start[j] /\ i < j
      <3> DEFINE x == left(start[i])  v == width(start[i], i - 1)  u == width(start[i], j - 1)
      <3>1. p.x = x + v /\ p.w = img[i].w /\ q.x = x + u
        BY <1>15, <2>2
      <3>2. v + img[i].w <= u /\ v \in Nat /\ img[i].w \in Nat
        BY <1>6, <1>13, <2>2
      <3>3. x \in Int
        BY <1>14
      <3>4. u \in Nat
        BY <1>13, <2>2
      <3> HIDE DEF p, q, x, v, u
      <3>5. p.x + p.w <= q.x
        BY <3>1, <3>2, <3>3, <3>4
      <3>6. QED
        BY <3>5, Beside DEF p, q
    <2>3. QED
      BY <1>22, <2>1, <2>2
  <1>23. \A i, j \in DOMAIN ink : i # j => Disjoint(ink[i], ink[j])
    <2> SUFFICES ASSUME NEW i \in 1 .. n, NEW j \in 1 .. n, i # j PROVE Disjoint(ink[i], ink[j])
      BY <1>16
    <2>1. \/ start[i] < start[j] \/ (start[i] = start[j] /\ i < j)
          \/ start[j] < start[i] \/ (start[j] = start[i] /\ j < i)
      <3>1. start[i] \in Int /\ start[j] \in Int
        BY <1>8
      <3>2. QED
        BY <3>1
    <2>2. CASE start[i] < start[j] \/ (start[i] = start[j] /\ i < j)
      BY <1>22, <2>2
    <2>3. CASE start[j] < start[i] \/ (start[j] = start[i] /\ j < i)
      <3>1. Disjoint(ink[j], ink[i])
        BY <1>22, <2>3
      <3>2. QED
        BY <3>1, Zenon DEF Disjoint
    <2>4. QED
      BY <2>1, <2>2, <2>3
  <1>24. Lays(b, Canvas(h, ink)) /\ Whole(Canvas(h, ink))
    BY <1>16, <1>19, <1>21, <1>23, LayInk DEF cv
  <1>25. QED
    BY <1>4, <1>24

-----------------------------------------------------------------------------
(* All blocks.                                                             *)

\* What a block is drawn on: of a few images and columns nothing may be left.
NothingLeft(b) ==
    \/ b.type = "image" /\ Flat(b.img, ImageW(b))
    \/ /\ b.type = "table_compact"
       /\ Columns(b) = 3 \/ \E c \in 1 .. 2 : \A r \in DOMAIN TableRows(b) : TableRows(b)[r][c].w = 1
LaidOut(b, cv) ==
    /\ Lays(b, cv) /\ (~Fails(cv) => cv.h > 0) /\ (Fails(cv) => NothingLeft(b))
    /\ b.type = "cut" => cv.h = 1

\* A canvas that is whole is laid out.
LEMMA WholeIs ==
    ASSUME NEW b, NEW cv, Lays(b, cv), Whole(cv), b.type # "cut"
    PROVE  LaidOut(b, cv)
  BY DEF LaidOut, Whole

\* What each type of block is drawn by.
LEMMA DrawnIs ==
    ASSUME NEW b, NEW ls
    PROVE  /\ b.type = "header" => Drawn(b, ls) = Header(b)
           /\ b.type = "section_title" => Drawn(b, ls) = SectionTitle(b)
           /\ b.type = "paragraph" => Drawn(b, ls) = Paragraph(b, ls)
           /\ b.type = "large_text" => Drawn(b, ls) = LargeText(b)
           /\ b.type = "pull_quote" => Drawn(b, ls) = PullQuote(b)
           /\ b.type = "drop_cap" => Drawn(b, ls) = DropCap(b, ls)
           /\ b.type = "footer" => Drawn(b, ls) = Footer(b, ls)
           /\ b.type = "code" => Drawn(b, ls) = Code(b)
           /\ b.type = "rich_text" => Drawn(b, ls) = RichText(b)
           /\ b.type = "epigraph" => Drawn(b, ls) = Epigraph(b, ls)
           /\ b.type = "signature" => Drawn(b, ls) = Signature(b)
           /\ b.type = "colophon" => Drawn(b, ls) = Colophon(b, ls)
           /\ b.type = "address" => Drawn(b, ls) = Address(b)
           /\ b.type = "checklist" => Drawn(b, ls) = Checklist(b, ls)
           /\ b.type = "bullets" => Drawn(b, ls) = Bullets(b, ls)
           /\ b.type = "numbered" => Drawn(b, ls) = Numbered(b, ls)
           /\ b.type = "kv" => Drawn(b, ls) = Kv(b, ls)
           /\ b.type = "table_compact" => Drawn(b, ls) = TableCompact(b)
           /\ b.type = "ornament" => Drawn(b, ls) = Ornament(b)
           /\ b.type = "sparkline" => Drawn(b, ls) = Sparkline(b)
           /\ b.type = "qr" => Drawn(b, ls) = Qr(b)
           /\ b.type = "barcode" => Drawn(b, ls) = Barcode(b)
           /\ b.type = "ascii_art" => Drawn(b, ls) = AsciiArt(b)
           /\ b.type = "image" => Drawn(b, ls) = ImageBlock(b)
           /\ b.type \in {"byline", "dateline", "salutation"} => Drawn(b, ls) = OneLine(b)
           /\ b.type = "progress_bar" => Drawn(b, ls) = ProgressBar(b)
           /\ b.type = "tear_here" => Drawn(b, ls) = TearHere(b)
           /\ b.type = "rule" => Drawn(b, ls) = Filled(8)
           /\ b.type = "gradient_band" => Drawn(b, ls) = Filled(128)
  BY ZenonT(30) DEF Drawn

\* Every block, with any bitmaps its schema admits and the fonts give, is laid out:
\* its boxes lie on the paper, its pieces do not meet, and its canvas is whole
\* where something is left of it.
THEOREM EveryBlockIsLaidOut ==
    ASSUME NEW b, AnyBlock(b), FontsGive(b), NEW ls \in Seq(Bitmaps), LowLines(ls, LINE),
           b.type \in Wraps \ {"drop_cap"} => ls # <<>>
    PROVE  LaidOut(b, Drawn(b, ls))
  <1> DEFINE cv == Drawn(b, ls)
  <1>1. ASSUME b \in HeaderBlock PROVE LaidOut(b, cv)
    <2>1. b.type = "header"
      BY <1>1 DEF HeaderBlock
    <2>2. cv = Header(b)
      BY <2>1, DrawnIs
    <2> HIDE DEF cv
    <2>3. QED
      BY <1>1, <2>1, <2>2, HeaderLays, WholeIs
  <1>2. ASSUME b \in SectionTitleBlock PROVE LaidOut(b, cv)
    <2>1. b.type = "section_title"
      BY <1>2 DEF SectionTitleBlock
    <2>2. cv = SectionTitle(b)
      BY <2>1, DrawnIs
    <2> HIDE DEF cv
    <2>3. QED
      BY <1>2, <2>1, <2>2, SectionTitleLays, WholeIs
  <1>3. ASSUME b \in ParagraphBlock PROVE LaidOut(b, cv)
    <2>1. b.type = "paragraph"
      BY <1>3 DEF ParagraphBlock
    <2>2. cv = Paragraph(b, ls)
      BY <2>1, DrawnIs
    <2> HIDE DEF cv
    <2>3. QED
      BY <1>3, <2>1, <2>2, ParagraphLays, WholeIs
  <1>4. ASSUME b \in LargeTextBlock PROVE LaidOut(b, cv)
    <2>1. b.type = "large_text"
      BY <1>4 DEF LargeTextBlock
    <2>2. cv = LargeText(b)
      BY <2>1, DrawnIs
    <2> HIDE DEF cv
    <2>3. QED
      BY <1>4, <2>1, <2>2, LargeTextLays, WholeIs
  <1>5. ASSUME b \in PullQuoteBlock PROVE LaidOut(b, cv)
    <2>1. b.type = "pull_quote"
      BY <1>5 DEF PullQuoteBlock
    <2>2. cv = PullQuote(b)
      BY <2>1, DrawnIs
    <2> HIDE DEF cv
    <2>3. QED
      BY <1>5, <2>1, <2>2, PullQuoteLays, WholeIs
  <1>6. ASSUME b \in DropCapBlock PROVE LaidOut(b, cv)
    <2>1. b.type = "drop_cap"
      BY <1>6 DEF DropCapBlock
    <2>2. cv = DropCap(b, ls)
      BY <2>1, DrawnIs
    <2> HIDE DEF cv
    <2>3. QED
      BY <1>6, <2>1, <2>2, DropCapLays, WholeIs
  <1>7. ASSUME b \in FooterBlock PROVE LaidOut(b, cv)
    <2>1. b.type = "footer"
      BY <1>7 DEF FooterBlock
    <2>2. cv = Footer(b, ls)
      BY <2>1, DrawnIs
    <2> HIDE DEF cv
    <2>3. ls # <<>>
      BY <2>1 DEF Wraps
    <2>4. QED
      BY <1>7, <2>1, <2>2, <2>3, FooterLays, WholeIs
  <1>8. ASSUME b \in CodeBlock, b.imgs # <<>> PROVE LaidOut(b, cv)
    <2>1. b.type = "code"
      BY <1>8 DEF CodeBlock
    <2>2. cv = Code(b)
      BY <2>1, DrawnIs
    <2> HIDE DEF cv
    <2>3. QED
      BY <1>8, <2>1, <2>2, CodeLays, WholeIs
  <1>9. ASSUME b \in RichTextBlock, Listed(b.runs, 64) PROVE LaidOut(b, cv)
    <2>1. b.type = "rich_text"
      BY <1>9 DEF RichTextBlock
    <2>2. cv = RichText(b)
      BY <2>1, DrawnIs
    <2> HIDE DEF cv
    <2>3. QED
      BY <1>9, <2>1, <2>2, RichTextLays, WholeIs
  <1>10. ASSUME b \in EpigraphBlock PROVE LaidOut(b, cv)
    <2>1. b.type = "epigraph"
      BY <1>10 DEF EpigraphBlock
    <2>2. cv = Epigraph(b, ls)
      BY <2>1, DrawnIs
    <2> HIDE DEF cv
    <2>3. ls # <<>>
      BY <2>1 DEF Wraps
    <2>4. QED
      BY <1>10, <2>1, <2>2, <2>3, EpigraphLays, WholeIs
  <1>11. ASSUME b \in OneLineBlock PROVE LaidOut(b, cv)
    <2>1. b.type \in {"byline", "dateline", "salutation"}
      BY <1>11 DEF OneLineBlock
    <2>2. cv = OneLine(b)
      BY <2>1, DrawnIs
    <2> HIDE DEF cv
    <2>3. QED
      BY <1>11, <2>1, <2>2, OneLineLays, WholeIs
  <1>12. ASSUME b \in SignatureBlock PROVE LaidOut(b, cv)
    <2>1. b.type = "signature"
      BY <1>12 DEF SignatureBlock
    <2>2. cv = Signature(b)
      BY <2>1, DrawnIs
    <2> HIDE DEF cv
    <2>3. QED
      BY <1>12, <2>1, <2>2, SignatureLays, WholeIs
  <1>13. ASSUME b \in ColophonBlock PROVE LaidOut(b, cv)
    <2>1. b.type = "colophon"
      BY <1>13 DEF ColophonBlock
    <2>2. cv = Colophon(b, ls)
      BY <2>1, DrawnIs
    <2> HIDE DEF cv
    <2>3. ls # <<>>
      BY <2>1 DEF Wraps
    <2>4. QED
      BY <1>13, <2>1, <2>2, <2>3, ColophonLays, WholeIs
  <1>14. ASSUME b \in AddressBlock, Listed(b.imgs, 8) PROVE LaidOut(b, cv)
    <2>1. b.type = "address"
      BY <1>14 DEF AddressBlock
    <2>2. cv = Address(b)
      BY <2>1, DrawnIs
    <2> HIDE DEF cv
    <2>3. b.imgs # <<>>
      <3>1. Len(b.imgs) # 0
        <4>1. b.imgs \in Seq(Bitmaps) /\ Listed(b.imgs, 8)
          BY <1>14 DEF AddressBlock
        <4>2. Len(b.imgs) \in 1 .. 8
          BY <4>1 DEF Listed
        <4>3. \A n \in 1 .. 8 : n # 0
          OBVIOUS
        <4>4. QED
          BY <4>2, <4>3
      <3>2. Len(<<>>) = 0
        OBVIOUS
      <3>3. QED
        BY <3>1, <3>2
    <2>4. QED
      BY <1>14, <2>1, <2>2, <2>3, AddressLays, WholeIs
  <1>15. ASSUME b \in ChecklistBlock PROVE LaidOut(b, cv)
    <2>1. b.type = "checklist"
      BY <1>15 DEF ChecklistBlock
    <2>2. cv = Checklist(b, ls)
      BY <2>1, DrawnIs
    <2> HIDE DEF cv
    <2>3. ls # <<>>
      BY <2>1 DEF Wraps
    <2>4. QED
      BY <1>15, <2>1, <2>2, <2>3, ChecklistLays, WholeIs
  <1>16. ASSUME b \in BulletsBlock PROVE LaidOut(b, cv)
    <2>1. b.type = "bullets"
      BY <1>16 DEF BulletsBlock
    <2>2. cv = Bullets(b, ls)
      BY <2>1, DrawnIs
    <2> HIDE DEF cv
    <2>3. ls # <<>>
      BY <2>1 DEF Wraps
    <2>4. QED
      BY <1>16, <2>1, <2>2, <2>3, BulletsLays, WholeIs
  <1>17. ASSUME b \in NumberedBlock, Len(b.imgs) = Len(b.rest) + 1 PROVE LaidOut(b, cv)
    <2>1. b.type = "numbered"
      BY <1>17 DEF NumberedBlock
    <2>2. cv = Numbered(b, ls)
      BY <2>1, DrawnIs
    <2> HIDE DEF cv
    <2>3. ls # <<>>
      BY <2>1 DEF Wraps
    <2>4. QED
      BY <1>17, <2>1, <2>2, <2>3, NumberedLays, WholeIs
  <1>18. ASSUME b \in KvBlock, Len(b.pairs) = Len(b.rest) + 1 PROVE LaidOut(b, cv)
    <2>1. b.type = "kv"
      BY <1>18 DEF KvBlock
    <2>2. cv = Kv(b, ls)
      BY <2>1, DrawnIs
    <2> HIDE DEF cv
    <2>3. ls # <<>>
      BY <2>1 DEF Wraps
    <2>4. QED
      BY <1>18, <2>1, <2>2, <2>3, KvLays, WholeIs
  <1>19. ASSUME b \in TableCompactBlock, Listed(b.rows, 64), ColumnCount(b) PROVE LaidOut(b, cv)
    <2>1. b.type = "table_compact"
      BY <1>19 DEF TableCompactBlock
    <2>2. cv = TableCompact(b)
      BY <2>1, DrawnIs
    <2> HIDE DEF cv
    <2>3. Lays(b, cv) /\ cv.h > 0 /\ (Whole(cv) \/ NothingLeft(b))
      BY <1>19, <2>1, <2>2, TableLays DEF NothingLeft
    <2>4. QED
      BY <2>1, <2>3 DEF LaidOut, Whole
  <1>20. ASSUME b \in RuleBlock PROVE LaidOut(b, cv)
    <2>1. b.type \in {"rule", "gradient_band"} /\ b.type # "cut"
      BY <1>20 DEF RuleBlock
    <2>2. cv = Filled(8) \/ cv = Filled(128)
      BY <2>1, DrawnIs
    <2>3. 8 \in Nat /\ 128 \in Nat /\ 8 > 0 /\ 128 > 0
      OBVIOUS
    <2>4. /\ Lays(b, Filled(8)) /\ Whole(Filled(8))
          /\ Lays(b, Filled(128)) /\ Whole(Filled(128))
      BY <2>1, <2>3, FilledLays
    <2> HIDE DEF cv
    <2>5. QED
      BY <2>1, <2>2, <2>4, WholeIs
  <1>21. ASSUME b \in OrnamentBlock PROVE LaidOut(b, cv)
    <2>1. b.type = "ornament"
      BY <1>21 DEF OrnamentBlock
    <2>2. cv = Ornament(b)
      BY <2>1, DrawnIs
    <2> HIDE DEF cv
    <2>3. QED
      BY <1>21, <2>1, <2>2, OrnamentLays, WholeIs
  <1>22. ASSUME b \in LabelledBlock PROVE LaidOut(b, cv)
    <2>1. b.type \in {"progress_bar", "tear_here"} /\ b.type # "cut"
      BY <1>22 DEF LabelledBlock
    <2>2. cv = ProgressBar(b) \/ cv = TearHere(b)
      BY <2>1, DrawnIs
    <2> HIDE DEF cv
    <2>3. QED
      BY <1>22, <2>1, <2>2, LabelledLays, WholeIs
  <1>23. ASSUME b \in SparklineBlock, Len(b.series) \in 2 .. 200 PROVE LaidOut(b, cv)
    <2>1. b.type = "sparkline"
      BY <1>23 DEF SparklineBlock
    <2>2. cv = Sparkline(b)
      BY <2>1, DrawnIs
    <2> HIDE DEF cv
    <2>3. QED
      BY <1>23, <2>1, <2>2, SparklineLays, WholeIs
  <1>24. ASSUME b \in QrBlock PROVE LaidOut(b, cv)
    <2>1. b.type = "qr"
      BY <1>24 DEF QrBlock
    <2>2. cv = Qr(b)
      BY <2>1, DrawnIs
    <2> HIDE DEF cv
    <2>3. QED
      BY <1>24, <2>1, <2>2, QrLays, WholeIs
  <1>25. ASSUME b \in BarcodeBlock PROVE LaidOut(b, cv)
    <2>1. b.type = "barcode"
      BY <1>25 DEF BarcodeBlock
    <2>2. cv = Barcode(b)
      BY <2>1, DrawnIs
    <2> HIDE DEF cv
    <2>3. QED
      BY <1>25, <2>1, <2>2, BarcodeLays, WholeIs
  <1>26. ASSUME b \in AsciiArtBlock, b.imgs # <<>> PROVE LaidOut(b, cv)
    <2>1. b.type = "ascii_art"
      BY <1>26 DEF AsciiArtBlock
    <2>2. cv = AsciiArt(b)
      BY <2>1, DrawnIs
    <2> HIDE DEF cv
    <2>3. QED
      BY <1>26, <2>1, <2>2, AsciiArtLays, WholeIs
  <1>27. ASSUME b \in PictureBlock, BleedNoAlign(b) PROVE LaidOut(b, cv)
    <2>1. b.type = "image"
      BY <1>27 DEF PictureBlock
    <2>2. cv = ImageBlock(b)
      BY <2>1, DrawnIs
    <2> HIDE DEF cv
    <2>3. Lays(b, cv) /\ (~Fails(cv) => cv.h > 0) /\ (Whole(cv) \/ NothingLeft(b))
      BY <1>27, <2>1, <2>2, ImageLays DEF NothingLeft
    <2>4. QED
      BY <2>1, <2>3 DEF LaidOut, Whole
  <1>28. ASSUME b \in SpacerBlock PROVE LaidOut(b, cv)
    <2>1. b.type = "spacer"
      BY <1>28 DEF SpacerBlock
    <2>2. Lays(b, cv) /\ Whole(cv)
      BY <1>28, FlowLays
    <2>3. QED
      BY <2>1, <2>2, WholeIs
  <1>29. ASSUME b \in FeedBlock PROVE LaidOut(b, cv)
    <2>1. b.type = "feed"
      BY <1>29 DEF FeedBlock
    <2>2. Lays(b, cv) /\ Whole(cv)
      BY <1>29, FlowLays
    <2>3. QED
      BY <2>1, <2>2, WholeIs
  <1>30. ASSUME b \in CutBlock PROVE LaidOut(b, cv)
    <2>1. Lays(b, cv) /\ Whole(cv) /\ cv.h = 1
      BY <1>30, FlowLays
    <2>2. QED
      BY <2>1 DEF LaidOut, Whole
  <1>31. CASE IsText(b)
    BY <1>31, <1>1, <1>2, <1>3, <1>4, <1>5, <1>6, <1>7, <1>8, <1>9 DEF IsText
  <1>32. CASE IsLiterary(b)
    BY <1>32, <1>10, <1>11, <1>12, <1>13, <1>14 DEF IsLiterary
  <1>33. CASE IsList(b)
    BY <1>33, <1>15, <1>16, <1>17, <1>18, <1>19 DEF IsList
  <1>34. CASE IsVisual(b)
    BY <1>34, <1>20, <1>21, <1>22, <1>23, <1>24, <1>25, <1>26, <1>27 DEF IsVisual
  <1>35. CASE IsFlow(b)
    BY <1>35, <1>28, <1>29, <1>30 DEF IsFlow
  <1>36. QED
    BY <1>31, <1>32, <1>33, <1>34, <1>35 DEF AnyBlock
=============================================================================
