----------------------------- MODULE PagesProofs ----------------------------
(***************************************************************************)
(* Proofs about modules PageAllocator and Pages, for any memory, number of *)
(* nodes, runway and sequence of calls; then about module Vector; and in   *)
(* the last part about module Mmu, whose allocator has two brokers.        *)
(***************************************************************************)
EXTENDS Pages, Mmu, Vector, TLAPS, WellFoundedInduction, SequenceTheorems

\* The least-number principle, for a set.
LEMMA LeastElement ==
  ASSUME NEW S, S \subseteq Nat, S # {}
  PROVE  \E m \in S : \A k \in S : m <= k
<1>1. PICK m \in S : \A k \in S : ~(<<k, m>> \in OpToRel(<, Nat))
  BY NatLessThanWellFounded, WFMin
<1>2. \A k \in S : ~(k < m)
  BY <1>1 DEF OpToRel
<1>3. QED
  BY <1>2
-----------------------------------------------------------------------------
(***************************************************************************)
(* Powers of two.  The function that computes them exists, because the     *)
(* functions that compute the first of them do.                            *)
(***************************************************************************)
FirstPowers(n, g) == g = [d \in 0 .. n |-> IF d = 0 THEN 1 ELSE 2 * g[d - 1]]

LEMMA FirstPowersExist == \A n \in Nat : \E g : FirstPowers(n, g)
<1> DEFINE Bad == {n \in Nat : ~(\E g : FirstPowers(n, g))}
<1>1. ASSUME NEW n \in Bad, \A k \in Bad : n <= k PROVE FALSE
  <2>1. CASE n = 0
    <3>1. [d \in 0 .. 0 |-> 1] = [d \in 0 .. 0 |-> IF d = 0 THEN 1
                                                   ELSE 2 * [e \in 0 .. 0 |-> 1][d - 1]]
      OBVIOUS
    <3>2. QED
      BY <2>1, <3>1 DEF FirstPowers
  <2>2. CASE n # 0
    <3>1. n - 1 \in Nat /\ n - 1 \notin Bad
      BY <1>1, <2>2
    <3>2. PICK g : FirstPowers(n - 1, g)
      BY <3>1
    <3> DEFINE h == [d \in 0 .. n |-> IF d = n THEN 2 * g[n - 1] ELSE g[d]]
    <3>3. \A d \in 0 .. n - 1 : h[d] = g[d]
      BY <3>1
    <3>4. \A d \in 0 .. n - 1 : g[d] = IF d = 0 THEN 1 ELSE 2 * g[d - 1]
      BY <3>2 DEF FirstPowers
    <3>5. \A d \in 0 .. n : h[d] = IF d = 0 THEN 1 ELSE 2 * h[d - 1]
      <4> TAKE d \in 0 .. n
      <4>1. CASE d = n
        BY <2>2, <3>1, <3>3, <4>1
      <4>2. CASE d # n
        <5>1. d \in 0 .. n - 1 /\ (d # 0 => d - 1 \in 0 .. n - 1)
          BY <3>1, <4>2
        <5>2. QED
          BY <3>3, <3>4, <5>1
      <4>3. QED
        BY <4>1, <4>2
    <3>6. h = [d \in 0 .. n |-> h[d]]
      OBVIOUS
    <3> HIDE DEF h
    <3>7. FirstPowers(n, h)
      BY <3>5, <3>6 DEF FirstPowers
    <3>8. QED
      BY <3>7
  <2>3. QED
    BY <2>1, <2>2
<1>2. Bad = {}
  BY <1>1, LeastElement
<1>3. QED
  BY <1>2

\* They agree where both are defined.
LEMMA FirstPowersAgree ==
  ASSUME NEW m \in Nat, NEW n \in Nat, NEW g, NEW h, FirstPowers(m, g), FirstPowers(n, h)
  PROVE  \A d \in 0 .. m : d <= n => g[d] = h[d]
<1> DEFINE Bad == {d \in 0 .. m : d <= n /\ g[d] # h[d]}
<1>0. /\ \A d \in 0 .. m : g[d] = IF d = 0 THEN 1 ELSE 2 * g[d - 1]
      /\ \A d \in 0 .. n : h[d] = IF d = 0 THEN 1 ELSE 2 * h[d - 1]
  BY DEF FirstPowers
<1>1. ASSUME NEW d \in Bad, \A k \in Bad : d <= k PROVE FALSE
  <2>1. CASE d = 0
    BY <1>0, <1>1, <2>1
  <2>2. CASE d # 0
    <3>1. d - 1 \in 0 .. m /\ d - 1 <= n /\ d - 1 \notin Bad
      BY <1>1, <2>2
    <3>2. g[d - 1] = h[d - 1]
      BY <3>1
    <3>3. QED
      BY <1>0, <2>2, <3>2
  <2>3. QED
    BY <2>1, <2>2
<1>2. Bad \subseteq Nat
  OBVIOUS
<1>3. Bad = {}
  BY <1>1, <1>2, LeastElement
<1>4. QED
  BY <1>3

LEMMA PowersDefined ==
  page_length_from_depth =
    [d \in Nat |-> IF d = 0 THEN 1 ELSE 2 * page_length_from_depth[d - 1]]
<1> DEFINE first(n) == CHOOSE g : FirstPowers(n, g)
           f == [d \in Nat |-> first(d)[d]]
<1>1. \A n \in Nat : FirstPowers(n, first(n))
  BY FirstPowersExist
<1> HIDE DEF first
<1>2. \A d \in Nat : f[d] = IF d = 0 THEN 1 ELSE 2 * f[d - 1]
  <2> TAKE d \in Nat
  <2>1. first(d)[d] = IF d = 0 THEN 1 ELSE 2 * first(d)[d - 1]
    <3>1. FirstPowers(d, first(d)) /\ d \in 0 .. d
      BY <1>1
    <3>2. QED
      BY <3>1 DEF FirstPowers
  <2>2. CASE d = 0
    BY <2>1, <2>2
  <2>3. CASE d # 0
    <3>1. d - 1 \in Nat /\ d - 1 \in 0 .. d - 1 /\ d - 1 <= d
      BY <2>3
    <3>2. first(d - 1)[d - 1] = first(d)[d - 1]
      BY <1>1, <3>1, FirstPowersAgree
    <3>3. QED
      BY <2>1, <2>3, <3>1, <3>2
  <2>4. QED
    BY <2>2, <2>3
<1>3. f = [d \in Nat |-> f[d]]
  OBVIOUS
<1> HIDE DEF f
<1>4. f = [d \in Nat |-> IF d = 0 THEN 1 ELSE 2 * f[d - 1]]
  BY <1>2, <1>3
<1>5. QED
  BY <1>4, Zenon DEF page_length_from_depth

\* The pages of a region of list d.
Span(d) == page_length_from_depth[d]

LEMMA SpanStep ==
  Span(0) = 1 /\ \A d \in Nat : Span(d + 1) = 2 * Span(d)
<1>1. Span(0) = 1
  BY PowersDefined DEF Span
<1>2. ASSUME NEW d \in Nat PROVE Span(d + 1) = 2 * Span(d)
  <2>1. d + 1 \in Nat /\ d + 1 # 0 /\ (d + 1) - 1 = d
    OBVIOUS
  <2>2. Span(d + 1) = 2 * page_length_from_depth[(d + 1) - 1]
    BY <2>1, PowersDefined DEF Span
  <2>3. QED
    BY <2>1, <2>2 DEF Span
<1>3. QED
  BY <1>1, <1>2

LEMMA SpanExceeds == \A d \in Nat : Span(d) \in Nat /\ Span(d) > d
<1> DEFINE Bad == {d \in Nat : ~(Span(d) \in Nat /\ Span(d) > d)}
<1>1. ASSUME NEW d \in Bad, \A k \in Bad : d <= k PROVE FALSE
  <2>1. CASE d = 0
    BY <1>1, <2>1, SpanStep
  <2>2. CASE d # 0
    <3>1. PICK e \in Nat : d = e + 1 /\ e \notin Bad
      <4>1. d - 1 \in Nat /\ d - 1 \notin Bad /\ d = (d - 1) + 1
        BY <1>1, <2>2
      <4>2. QED
        BY <4>1
    <3>2. Span(e) \in Nat /\ Span(e) > e
      BY <3>1
    <3>3. Span(d) = 2 * Span(e)
      BY <3>1, SpanStep
    <3>4. QED
      BY <1>1, <3>1, <3>2, <3>3
  <2>3. QED
    BY <2>1, <2>2
<1>2. Bad \subseteq Nat
  OBVIOUS
<1>3. Bad = {}
  BY <1>1, <1>2, LeastElement
<1>4. QED
  BY <1>3

LEMMA SpanGrows == \A d, e \in Nat : d < e => Span(d + 1) <= Span(e) /\ Span(d) < Span(e)
<1> SUFFICES ASSUME NEW d \in Nat
             PROVE  \A e \in Nat : d < e => Span(d + 1) <= Span(e) /\ Span(d) < Span(e)
  OBVIOUS
<1> DEFINE Bad == {e \in Nat : d < e /\ ~(Span(d + 1) <= Span(e))}
<1>1. ASSUME NEW e \in Bad, \A k \in Bad : e <= k PROVE FALSE
  <2>1. e # d + 1
    BY SpanExceeds
  <2>2. PICK k \in Nat : e = k + 1 /\ d < k /\ k \notin Bad
    <3>1. e - 1 \in Nat /\ e = (e - 1) + 1 /\ d < e - 1 /\ e - 1 \notin Bad
      BY <1>1, <2>1
    <3>2. QED
      BY <3>1
  <2>3. Span(d + 1) <= Span(k)
    BY <2>2
  <2>4. Span(e) = 2 * Span(k)
    BY <2>2, SpanStep
  <2>5. Span(d + 1) \in Nat /\ Span(k) \in Nat
    BY SpanExceeds
  <2>6. QED
    BY <1>1, <2>3, <2>4, <2>5
<1>2. Bad \subseteq Nat
  OBVIOUS
<1>3. Bad = {}
  BY <1>1, <1>2, LeastElement
<1>4. \A e \in Nat : d < e => Span(d + 1) <= Span(e)
  BY <1>3
<1>5. Span(d) < Span(d + 1)
  BY SpanStep, SpanExceeds
<1>6. Span(d) \in Nat /\ Span(d + 1) \in Nat /\ \A e \in Nat : Span(e) \in Nat
  BY SpanExceeds
<1>7. QED
  BY <1>4, <1>5, <1>6

\* depth_from_page_length is the list of the largest power that is not larger.
LEMMA DepthIs ==
  ASSUME NEW n \in Nat \ {0}
  PROVE  Depth(n) \in 0 .. n /\ Span(Depth(n)) <= n /\ n < Span(Depth(n) + 1)
<1> DEFINE Larger == {d \in Nat : n < Span(d + 1)}
<1>1. n \in Larger
  <2>1. n + 1 \in Nat /\ Span(n + 1) \in Nat /\ Span(n + 1) > n + 1
    BY SpanExceeds
  <2>2. QED
    BY <2>1
<1>2. PICK d \in Larger : \A k \in Larger : d <= k
  BY <1>1, LeastElement
<1>3. Span(d) <= n
  <2>1. CASE d = 0
    BY <2>1, SpanStep
  <2>2. CASE d # 0
    <3>1. PICK e \in Nat : d = e + 1
      <4>1. d - 1 \in Nat /\ d = (d - 1) + 1
        BY <2>2
      <4>2. QED
        BY <4>1
    <3>2. e \notin Larger
      BY <1>2, <3>1
    <3>3. Span(d) \in Nat
      BY SpanExceeds
    <3>4. QED
      BY <3>1, <3>2, <3>3
  <2>3. QED
    BY <2>1, <2>2
<1>4. d \in 0 .. n /\ n < Span(d + 1)
  <2>1. Span(d) \in Nat /\ Span(d) > d
    BY SpanExceeds
  <2>2. QED
    BY <1>3, <2>1
<1>5. Depth(n) = CHOOSE e \in 0 .. n : Span(e) <= n /\ n < Span(e + 1)
  BY DEF Depth, Span
<1>6. QED
  BY <1>3, <1>4, <1>5

LEMMA DepthOfSpan == \A d \in Nat : Span(d) \in Nat \ {0} /\ Depth(Span(d)) = d
<1> TAKE d \in Nat
<1>1. Span(d) \in Nat \ {0} /\ Span(d + 1) \in Nat
  BY SpanExceeds
<1>2. PICK e \in Nat : e = Depth(Span(d)) /\ Span(e) <= Span(d) /\ Span(d) < Span(e + 1)
  BY <1>1, DepthIs
<1>3. Span(e) \in Nat /\ Span(e + 1) \in Nat
  BY SpanExceeds
<1>4. ~(e < d) /\ ~(d < e)
  <2>1. e < d => Span(e + 1) <= Span(d)
    BY SpanGrows
  <2>2. d < e => Span(d) < Span(e)
    BY SpanGrows
  <2>3. QED
    BY <1>1, <1>2, <1>3, <2>1, <2>2
<1>5. QED
  BY <1>1, <1>2, <1>4

\* The list whose regions are just large enough for n pages.
LEMMA AlignUpToPower ==
  ASSUME NEW n \in Nat \ {0}
  PROVE  \E e \in Nat : /\ align_up_to_power(n) = Span(e) /\ Depth(align_up_to_power(n)) = e
                        /\ n <= Span(e)
                        /\ \A m \in Nat : n <= Span(m) => e <= m /\ Depth(n) <= m
<1>1. PICK d \in Nat : d = Depth(n) /\ Span(d) <= n /\ n < Span(d + 1)
  BY DepthIs
<1>2. Span(d) \in Nat /\ Span(d + 1) \in Nat
  BY SpanExceeds
<1>3. \A m \in Nat : n <= Span(m) => d <= m
  <2> TAKE m \in Nat
  <2>1. m < d => Span(m) < Span(d)
    BY SpanGrows
  <2>2. Span(m) \in Nat
    BY SpanExceeds
  <2>3. QED
    BY <1>1, <1>2, <2>1, <2>2
<1>4. CASE n = Span(d)
  <2>1. align_up_to_power(n) = Span(d)
    BY <1>1, <1>4 DEF align_up_to_power, Span
  <2>2. QED
    BY <1>1, <1>2, <1>3, <1>4, <2>1
<1>5. CASE n # Span(d)
  <2>1. align_up_to_power(n) = Span(d + 1)
    BY <1>1, <1>5 DEF align_up_to_power, Span
  <2>2. Depth(Span(d + 1)) = d + 1 /\ d + 1 \in Nat
    BY DepthOfSpan
  <2>3. \A m \in Nat : n <= Span(m) => d + 1 <= m
    <3> TAKE m \in Nat
    <3>1. m = d => ~(n <= Span(m))
      BY <1>1, <1>2, <1>5
    <3>2. QED
      BY <1>3, <3>1
  <2>4. QED
    BY <1>1, <1>2, <1>3, <2>1, <2>2, <2>3
<1>6. QED
  BY <1>4, <1>5

\* A power of two is a multiple of every smaller one.
LEMMA SpanIsMultiple ==
  ASSUME NEW d \in Nat, NEW e \in Nat, d <= e
  PROVE  \E q \in Nat \ {0} : Span(e) = Span(d) * q
<1> DEFINE Bad == {k \in Nat : ~(\E q \in Nat \ {0} : Span(d + k) = Span(d) * q)}
<1>1. ASSUME NEW k \in Bad, \A i \in Bad : k <= i PROVE FALSE
  <2>1. CASE k = 0
    <3>1. Span(d + k) = Span(d) * 1
      <4>1. d + k = d /\ Span(d) \in Nat
        BY <2>1, SpanExceeds
      <4>2. Span(d) * 1 = Span(d)
        BY <4>1
      <4>3. QED
        BY <4>1, <4>2
    <3>2. QED
      BY <1>1, <3>1
  <2>2. CASE k # 0
    <3>1. PICK p \in Nat : k = p + 1 /\ p \notin Bad
      <4>1. k - 1 \in Nat /\ k = (k - 1) + 1 /\ k - 1 \notin Bad
        BY <1>1, <2>2
      <4>2. QED
        BY <4>1
    <3>2. PICK q \in Nat \ {0} : Span(d + p) = Span(d) * q
      BY <3>1
    <3>3. Span(d + k) = 2 * (Span(d) * q)
      <4>1. d + k = (d + p) + 1 /\ d + p \in Nat
        BY <3>1
      <4>2. Span((d + p) + 1) = 2 * Span(d + p)
        BY <4>1, SpanStep
      <4>3. QED
        BY <3>2, <4>1, <4>2, Zenon
    <3>4. Span(d + k) = Span(d) * (2 * q) /\ 2 * q \in Nat \ {0}
      <4>1. Span(d) \in Nat
        BY SpanExceeds
      <4>2. \A s \in Nat : 2 * (s * q) = s * (2 * q)
        OBVIOUS
      <4>3. Span(d) * (2 * q) = 2 * (Span(d) * q)
        BY <4>1, <4>2
      <4>4. QED
        BY <3>3, <4>3
    <3>5. QED
      BY <1>1, <3>4
  <2>3. QED
    BY <2>1, <2>2
<1>2. Bad \subseteq Nat
  OBVIOUS
<1>3. Bad = {}
  BY <1>1, <1>2, LeastElement
<1>4. PICK k \in Nat : k = e - d
  OBVIOUS
<1>5. e = d + k
  BY <1>4
<1>6. QED
  BY <1>3, <1>4, <1>5

LEMMA Quotient ==
  ASSUME NEW a \in Nat, NEW n \in Nat \ {0}
  PROVE  /\ a = n * (a \div n) + (a % n) /\ a \div n \in Nat /\ a % n \in 0 .. n - 1
BY Z3T(60)

\* Two multiples of n are the same or n apart.
LEMMA MultiplesApart ==
  ASSUME NEW n \in Nat \ {0}, NEW a \in Nat, NEW b \in Nat
  PROVE  n * b + n <= n * a \/ n * a <= n * b
<1>1. CASE b + 1 <= a
  <2>1. PICK k \in Nat : a = (b + 1) + k
    <3>1. a - (b + 1) \in Nat /\ a = (b + 1) + (a - (b + 1))
      BY <1>1
    <3>2. QED
      BY <3>1
  <2>2. n * a = (n * b + n) + n * k /\ n * k \in Nat /\ n * b + n \in Nat
    BY <2>1, Z3T(60)
  <2>3. QED
    BY <2>2
<1>2. CASE a <= b
  <2>1. PICK k \in Nat : b = a + k
    <3>1. b - a \in Nat /\ b = a + (b - a)
      BY <1>2
    <3>2. QED
      BY <3>1
  <2>2. n * b = n * a + n * k /\ n * k \in Nat /\ n * a \in Nat
    BY <2>1, Z3T(60)
  <2>3. QED
    BY <2>2
<1>3. QED
  BY <1>1, <1>2

LEMMA TwiceAMultiple ==
  ASSUME NEW M \in Nat \ {0}, NEW x \in Int, x % (2 * M) = 0
  PROVE  x % M = 0 /\ (x + M) % M = 0
<1>1. 2 * M \in Nat /\ 2 * M > 0 /\ M > 0
  OBVIOUS
<1>2. x = (2 * M) * (x \div (2 * M)) + (x % (2 * M)) /\ x \div (2 * M) \in Int
  BY <1>1, Z3T(60)
<1>3. PICK q \in Int : x = (2 * M) * q
  <2>1. (2 * M) * (x \div (2 * M)) \in Int
    BY <1>2
  <2>2. QED
    BY <1>2, <2>1
<1>4. (2 * M) * q = M * (2 * q) /\ M * (2 * q) + M = M * (2 * q + 1)
  BY Z3T(60)
<1>5. \A m \in Int : (M * m) % M = 0
  BY <1>1, Z3T(60)
<1>6. 2 * q \in Int /\ 2 * q + 1 \in Int
  OBVIOUS
<1>7. (M * (2 * q)) % M = 0 /\ (M * (2 * q + 1)) % M = 0
  BY <1>5, <1>6
<1>8. QED
  BY <1>3, <1>4, <1>7

\* A region of list d starts at a multiple of its length.
FitsList(r, d) == r \in Regions /\ r.length = Span(d) /\ r.offset % Span(d) = 0

\* Both halves of a region of list d + 1 are regions of list d.
LEMMA HalvesFit ==
  ASSUME NEW d \in Nat, NEW r, FitsList(r, d + 1)
  PROVE  /\ Halves(r)[1] = Region(r.offset, Span(d))
         /\ Halves(r)[2] = Region(r.offset + Span(d), Span(d))
         /\ FitsList(Halves(r)[1], d) /\ FitsList(Halves(r)[2], d)
<1>1. Span(d) \in Nat \ {0} /\ Span(d + 1) = 2 * Span(d)
  BY DepthOfSpan, SpanStep
<1>2. \A s \in Nat : (2 * s) \div 2 = s /\ (2 * s) % 2 = 0
  OBVIOUS
<1>3. /\ r.offset \in Nat /\ r.length = 2 * Span(d)
      /\ r.length \div 2 = Span(d) /\ r.length % 2 = 0
  BY <1>1, <1>2 DEF FitsList, Regions
<1>4. /\ Halves(r)[1] = Region(r.offset, Span(d))
      /\ Halves(r)[2] = Region(r.offset + Span(d), Span(d))
  BY <1>1, <1>3 DEF Halves
<1>5. r.offset % Span(d) = 0 /\ (r.offset + Span(d)) % Span(d) = 0
  BY <1>1, <1>3, TwiceAMultiple DEF FitsList
<1>6. QED
  BY <1>1, <1>3, <1>4, <1>5 DEF FitsList, Region, Regions
-----------------------------------------------------------------------------
(***************************************************************************)
(* Nodes and lists of nodes.                                               *)
(***************************************************************************)
\* The bit of a slab is the one it was found by.
LEMMA BitOfSlab ==
  ASSUME NEW i \in Nat
  PROVE  BitOf(SlabOf(i)) = i
<1>1. c_slabs_per_page \in Nat /\ c_slabs_per_page > 0
  BY PageAllocatorAssumption
<1>2. \A c \in Nat : c > 0 => (i \div c) * c + (i % c) = i
  BY Z3T(60)
<1>3. QED
  BY <1>1, <1>2 DEF BitOf, SlabOf

Elements(list) == {list[j] : j \in DOMAIN list}
Distinct(list) == \A j, k \in DOMAIN list : list[j] = list[k] => j = k

\* What a list has when x is put in behind place i of it.
IsPutIn(l, list, n, i, x) ==
  /\ DOMAIN list = 1 .. n /\ DOMAIN l = 1 .. n + 1
  /\ \A j \in 1 .. i : l[j] = list[j]
  /\ l[i + 1] = x
  /\ \A j \in i + 1 .. n : l[j + 1] = list[j]

LEMMA PutIn ==
  ASSUME NEW n \in Nat, NEW i \in 0 .. n, NEW x, NEW list, NEW l,
         IsPutIn(l, list, n, i, x), Distinct(list), x \notin Elements(list)
  PROVE  Distinct(l) /\ Elements(l) = Elements(list) \cup {x}
<1>0. /\ DOMAIN list = 1 .. n /\ DOMAIN l = 1 .. n + 1
      /\ \A j \in 1 .. i : l[j] = list[j]
      /\ l[i + 1] = x
      /\ \A j \in i + 1 .. n : l[j + 1] = list[j]
  BY DEF IsPutIn
<1> DEFINE from(j) == IF j <= i THEN j ELSE j - 1
<1>1. \A j \in 1 .. n + 1 : j # i + 1 => l[j] = list[from(j)] /\ from(j) \in 1 .. n
  <2> TAKE j \in 1 .. n + 1
  <2>1. CASE j <= i
    BY <1>0, <2>1
  <2>2. CASE j > i + 1
    <3>1. j - 1 \in i + 1 .. n /\ (j - 1) + 1 = j
      BY <2>2
    <3>2. l[j] = list[j - 1]
      BY <1>0, <3>1
    <3>3. QED
      BY <2>2, <3>1, <3>2
  <2>3. QED
    BY <2>1, <2>2
<1>2. \A j \in 1 .. n : list[j] # x /\ list[j] \in Elements(list)
  BY <1>0 DEF Elements
<1>3. Distinct(l)
  <2> SUFFICES ASSUME NEW j \in 1 .. n + 1, NEW k \in 1 .. n + 1, l[j] = l[k]
               PROVE  j = k
    BY <1>0 DEF Distinct
  <2>1. CASE j = i + 1 \/ k = i + 1
    BY <1>0, <1>1, <1>2, <2>1
  <2>2. CASE j # i + 1 /\ k # i + 1
    <3>1. PICK p \in 1 .. n, q \in 1 .. n : p = from(j) /\ q = from(k) /\ list[p] = list[q]
      BY <1>1, <2>2
    <3>2. p = q
      BY <1>0, <3>1 DEF Distinct
    <3>3. QED
      BY <2>2, <3>1, <3>2
  <2>3. QED
    BY <2>1, <2>2
<1>4. ASSUME NEW j \in 1 .. n + 1 PROVE l[j] \in Elements(list) \cup {x}
  BY <1>0, <1>1, <1>2
<1>5. ASSUME NEW j \in 1 .. n PROVE list[j] \in Elements(l)
  <2>1. CASE j <= i
    <3>1. j \in DOMAIN l /\ l[j] = list[j]
      BY <1>0, <2>1
    <3>2. QED
      BY <3>1 DEF Elements
  <2>2. CASE j > i
    <3>1. j + 1 \in DOMAIN l /\ l[j + 1] = list[j]
      BY <1>0, <2>2
    <3>2. QED
      BY <3>1 DEF Elements
  <2>3. QED
    BY <2>1, <2>2
<1>6. x \in Elements(l)
  <2>1. i + 1 \in DOMAIN l
    BY <1>0
  <2>2. QED
    BY <1>0, <2>1 DEF Elements
<1>7. QED
  BY <1>0, <1>3, <1>4, <1>5, <1>6 DEF Elements

\* What a list has when place i of it is left out.
IsLeftOut(l, list, n, i) ==
  /\ DOMAIN list = 1 .. n /\ DOMAIN l = 1 .. n - 1
  /\ \A j \in 1 .. i - 1 : l[j] = list[j]
  /\ \A j \in i .. n - 1 : l[j] = list[j + 1]

LEMMA LeftOut ==
  ASSUME NEW n \in Nat, NEW i \in 1 .. n, NEW list, NEW l,
         IsLeftOut(l, list, n, i), Distinct(list)
  PROVE  Distinct(l) /\ Elements(l) = Elements(list) \ {list[i]}
<1>0. /\ DOMAIN list = 1 .. n /\ DOMAIN l = 1 .. n - 1
      /\ \A j \in 1 .. i - 1 : l[j] = list[j]
      /\ \A j \in i .. n - 1 : l[j] = list[j + 1]
  BY DEF IsLeftOut
<1> DEFINE from(j) == IF j < i THEN j ELSE j + 1
<1>1. \A j \in 1 .. n - 1 : l[j] = list[from(j)] /\ from(j) \in 1 .. n /\ from(j) # i
  BY <1>0
<1>2. Distinct(l)
  <2> SUFFICES ASSUME NEW j \in 1 .. n - 1, NEW k \in 1 .. n - 1, l[j] = l[k]
               PROVE  j = k
    BY <1>0 DEF Distinct
  <2>1. PICK p \in 1 .. n, q \in 1 .. n : p = from(j) /\ q = from(k) /\ list[p] = list[q]
    BY <1>1
  <2>2. p = q
    BY <1>0, <2>1 DEF Distinct
  <2>3. QED
    BY <2>1, <2>2
<1>3. ASSUME NEW j \in 1 .. n - 1 PROVE l[j] \in Elements(list) \ {list[i]}
  <2>1. l[j] = list[from(j)] /\ from(j) \in 1 .. n /\ from(j) # i
    BY <1>1
  <2>2. list[from(j)] # list[i]
    BY <1>0, <2>1 DEF Distinct
  <2>3. QED
    BY <1>0, <2>1, <2>2 DEF Elements
<1>4. ASSUME NEW j \in 1 .. n, j # i PROVE list[j] \in Elements(l)
  <2>1. PICK k \in 1 .. n - 1 : from(k) = j
    <3>1. CASE j < i
      <4>1. j \in 1 .. n - 1 /\ from(j) = j
        BY <3>1
      <4>2. QED
        BY <4>1
    <3>2. CASE j > i
      <4>1. j - 1 \in 1 .. n - 1 /\ from(j - 1) = j
        BY <3>2
      <4>2. QED
        BY <4>1
    <3>3. QED
      BY <1>4, <3>1, <3>2
  <2>2. k \in DOMAIN l /\ l[k] = list[j]
    BY <1>0, <1>1, <2>1
  <2>3. QED
    BY <2>2 DEF Elements
<1>5. QED
  BY <1>0, <1>2, <1>3, <1>4 DEF Elements

\* A part of a list, and two parts of a list with one of them behind the other.
LEMMA PartOfList ==
  ASSUME NEW S, NEW list \in Seq(S), NEW n \in Nat, n = Len(list),
         NEW a \in 1 .. n + 1, NEW b \in a - 1 .. n
  PROVE  /\ SubSeq(list, a, b) \in Seq(S)
         /\ Len(SubSeq(list, a, b)) = b - a + 1
         /\ \A j \in 1 .. b - a + 1 : SubSeq(list, a, b)[j] = list[a + j - 1]
<1>1. a \in Int /\ b \in Int /\ \A j \in a .. b : j \in 1 .. n
  OBVIOUS
<1>2. \A j \in 1 .. n : list[j] \in S
  OBVIOUS
<1>3. (IF a <= b THEN b - a + 1 ELSE 0) = b - a + 1
  OBVIOUS
<1>4. \A j \in a .. b : list[j] \in S
  BY <1>1, <1>2
<1>5. QED
  BY <1>1, <1>3, <1>4, SubSeqProperties

\* Numbers, away from the sequences they are about.
LEMMA PutInNumbers ==
  ASSUME NEW n \in Nat, NEW i \in 0 .. n
  PROVE  /\ 1 \in 1 .. n + 1 /\ i \in 1 - 1 .. n /\ i - 1 + 1 = i
         /\ i + 1 \in 1 .. n + 1 /\ n \in i + 1 - 1 .. n /\ n - (i + 1) + 1 = n - i
         /\ i + 1 + (n - i) = n + 1
         /\ i + 1 \in 1 .. n + 1 /\ i + 1 <= i + 1
         /\ \A j \in 1 .. i : /\ j \in 1 .. n + 1 /\ j \in 1 .. i + 1 /\ j <= i + 1
                              /\ j <= i /\ 1 + j - 1 = j
         /\ \A j \in i + 1 .. n : /\ j + 1 \in 1 .. n + 1 /\ ~(j + 1 <= i + 1)
                                  /\ (j + 1) - (i + 1) \in 1 .. n - i
                                  /\ i + 1 + ((j + 1) - (i + 1)) - 1 = j
         /\ i + 1 \in 1 .. i + 1 /\ ~(i + 1 <= i) /\ (i + 1) - i = 1
OBVIOUS

\* A node is put behind the first one of a list.
LEMMA InsertBehind ==
  ASSUME NEW S, NEW list \in Seq(S), Distinct(list), NEW x \in S, x \notin Elements(list)
  PROVE  /\ insert_after(list, 1, x) \in Seq(S)
         /\ Distinct(insert_after(list, 1, x))
         /\ Elements(insert_after(list, 1, x)) = Elements(list) \cup {x}
<1>1. PICK n \in Nat : n = Len(list) /\ DOMAIN list = 1 .. n
  OBVIOUS
<1>2. PICK i \in 0 .. n : i = IF 1 > n THEN n ELSE 1
  BY <1>1
<1>3. PICK front : front = SubSeq(list, 1, i)
  OBVIOUS
<1>4. PICK back : back = SubSeq(list, i + 1, n)
  OBVIOUS
<1>5. PICK one : one = <<x>>
  OBVIOUS
<1>6. PICK m : m = front \o one
  OBVIOUS
<1>7. PICK l : l = m \o back
  OBVIOUS
<1>8. insert_after(list, 1, x) = l
  BY <1>1, <1>2, <1>3, <1>4, <1>5, <1>6, <1>7, Zenon DEF insert_after
<1>9. /\ front \in Seq(S) /\ Len(front) = i
      /\ \A j \in 1 .. i : front[j] = list[1 + j - 1]
  <2>1. 1 \in 1 .. n + 1 /\ i \in 1 - 1 .. n /\ i - 1 + 1 = i
    BY PutInNumbers
  <2>2. /\ SubSeq(list, 1, i) \in Seq(S) /\ Len(SubSeq(list, 1, i)) = i - 1 + 1
        /\ \A j \in 1 .. i - 1 + 1 : SubSeq(list, 1, i)[j] = list[1 + j - 1]
    BY <1>1, <2>1, PartOfList
  <2>3. QED
    BY <1>3, <2>1, <2>2, Zenon
<1>10. /\ back \in Seq(S) /\ Len(back) = n - i
       /\ \A j \in 1 .. n - i : back[j] = list[i + 1 + j - 1]
  <2>1. i + 1 \in 1 .. n + 1 /\ n \in i + 1 - 1 .. n /\ n - (i + 1) + 1 = n - i
    BY PutInNumbers
  <2>2. /\ SubSeq(list, i + 1, n) \in Seq(S) /\ Len(SubSeq(list, i + 1, n)) = n - (i + 1) + 1
        /\ \A j \in 1 .. n - (i + 1) + 1 : SubSeq(list, i + 1, n)[j] = list[i + 1 + j - 1]
    <3> DEFINE P(a) ==
           /\ SubSeq(list, a, n) \in Seq(S) /\ Len(SubSeq(list, a, n)) = n - a + 1
           /\ \A j \in 1 .. n - a + 1 : SubSeq(list, a, n)[j] = list[a + j - 1]
    <3>1. \A a \in 1 .. n + 1 : n \in a - 1 .. n => P(a)
      BY <1>1, PartOfList
    <3> HIDE DEF P
    <3>2. P(i + 1)
      BY <2>1, <3>1
    <3>3. QED
      BY <3>2 DEF P
  <2>3. QED
    BY <1>4, <2>1, <2>2, Zenon
<1>11. one \in Seq(S) /\ Len(one) = 1 /\ one[1] = x
  BY <1>5
<1>12. /\ m \in Seq(S) /\ Len(m) = i + 1
       /\ \A j \in 1 .. i + 1 : m[j] = IF j <= i THEN front[j] ELSE one[j - i]
  <2>1. /\ front \o one \in Seq(S) /\ Len(front \o one) = Len(front) + Len(one)
        /\ \A j \in 1 .. Len(front) + Len(one) :
             (front \o one)[j] = IF j <= Len(front) THEN front[j] ELSE one[j - Len(front)]
    BY <1>9, <1>11, ConcatProperties
  <2>2. Len(front) = i /\ Len(one) = 1
    BY <1>9, <1>11
  <2>3. QED
    BY <1>6, <2>1, <2>2, Zenon
<1>13. /\ l \in Seq(S) /\ Len(l) = n + 1
       /\ \A j \in 1 .. n + 1 : l[j] = IF j <= i + 1 THEN m[j] ELSE back[j - (i + 1)]
  <2>1. /\ l \in Seq(S) /\ Len(l) = i + 1 + (n - i)
        /\ \A j \in 1 .. i + 1 + (n - i) :
             l[j] = IF j <= i + 1 THEN m[j] ELSE back[j - (i + 1)]
    <3>1. /\ m \o back \in Seq(S) /\ Len(m \o back) = Len(m) + Len(back)
          /\ \A j \in 1 .. Len(m) + Len(back) :
               (m \o back)[j] = IF j <= Len(m) THEN m[j] ELSE back[j - Len(m)]
      BY <1>10, <1>12, ConcatProperties
    <3>2. Len(m) = i + 1 /\ Len(back) = n - i
      BY <1>10, <1>12
    <3>3. QED
      BY <1>7, <3>1, <3>2, Zenon
  <2>2. i + 1 + (n - i) = n + 1
    BY PutInNumbers
  <2>3. QED
    BY <2>1, <2>2, Zenon
<1>14. DOMAIN l = 1 .. n + 1
  BY <1>13
<1>15. \A j \in 1 .. i : l[j] = list[j]
  <2> TAKE j \in 1 .. i
  <2>1. /\ j \in 1 .. n + 1 /\ j \in 1 .. i + 1 /\ j <= i + 1
        /\ j <= i /\ 1 + j - 1 = j
    BY PutInNumbers
  <2>2. l[j] = m[j]
    BY <1>13, <2>1
  <2>3. m[j] = front[j]
    BY <1>12, <2>1
  <2>4. front[j] = list[1 + j - 1]
    BY <1>9
  <2>5. QED
    BY <2>1, <2>2, <2>3, <2>4, Zenon
<1>16. l[i + 1] = x
  <2>1. /\ i + 1 \in 1 .. n + 1 /\ i + 1 <= i + 1
        /\ i + 1 \in 1 .. i + 1 /\ ~(i + 1 <= i) /\ (i + 1) - i = 1
    BY PutInNumbers
  <2>2. l[i + 1] = m[i + 1]
    BY <1>13, <2>1
  <2>3. m[i + 1] = one[(i + 1) - i]
    BY <1>12, <2>1
  <2>4. QED
    BY <1>11, <2>1, <2>2, <2>3, Zenon
<1>17. \A j \in i + 1 .. n : l[j + 1] = list[j]
  <2> TAKE j \in i + 1 .. n
  <2>1. /\ j + 1 \in 1 .. n + 1 /\ ~(j + 1 <= i + 1)
        /\ (j + 1) - (i + 1) \in 1 .. n - i
        /\ i + 1 + ((j + 1) - (i + 1)) - 1 = j
    BY PutInNumbers
  <2>2. l[j + 1] = back[(j + 1) - (i + 1)]
    BY <1>13, <2>1
  <2>3. back[(j + 1) - (i + 1)] = list[i + 1 + ((j + 1) - (i + 1)) - 1]
    BY <1>10, <2>1
  <2>4. QED
    BY <2>1, <2>2, <2>3, Zenon
<1>18. Distinct(l) /\ Elements(l) = Elements(list) \cup {x}
  <2>1. IsPutIn(l, list, n, i, x)
    BY <1>1, <1>14, <1>15, <1>16, <1>17, Zenon DEF IsPutIn
  <2>2. QED
    BY <2>1, PutIn
<1>19. QED
  BY <1>8, <1>13, <1>18

LEMMA LeftOutNumbers ==
  ASSUME NEW n \in Nat, NEW i \in 1 .. n
  PROVE  /\ 1 \in 1 .. n + 1 /\ i - 1 \in 1 - 1 .. n /\ (i - 1) - 1 + 1 = i - 1
         /\ i + 1 \in 1 .. n + 1 /\ n \in i + 1 - 1 .. n /\ n - (i + 1) + 1 = n - i
         /\ (i - 1) + (n - i) = n - 1 /\ n - 1 \in Nat
         /\ \A j \in 1 .. i - 1 : j \in 1 .. n - 1 /\ j <= i - 1 /\ 1 + j - 1 = j
         /\ \A j \in i .. n - 1 : /\ j \in 1 .. n - 1 /\ ~(j <= i - 1)
                                  /\ j - (i - 1) \in 1 .. n - i
                                  /\ i + 1 + (j - (i - 1)) - 1 = j + 1
OBVIOUS

\* A node is taken out of a list.
LEMMA WithoutPlace ==
  ASSUME NEW S, NEW list \in Seq(S), Distinct(list), NEW i \in DOMAIN list
  PROVE  /\ Without(list, i) \in Seq(S)
         /\ Distinct(Without(list, i))
         /\ Elements(Without(list, i)) = Elements(list) \ {list[i]}
<1>1. PICK n \in Nat : n = Len(list) /\ DOMAIN list = 1 .. n /\ i \in 1 .. n
  OBVIOUS
<1>2. PICK front : front = SubSeq(list, 1, i - 1)
  OBVIOUS
<1>3. PICK back : back = SubSeq(list, i + 1, n)
  OBVIOUS
<1>4. PICK l : l = front \o back
  OBVIOUS
<1>5. Without(list, i) = l
  BY <1>1, <1>2, <1>3, <1>4, Zenon DEF Without
<1>6. /\ front \in Seq(S) /\ Len(front) = i - 1
      /\ \A j \in 1 .. i - 1 : front[j] = list[1 + j - 1]
  BY <1>1, <1>2, LeftOutNumbers, PartOfList
<1>7. /\ back \in Seq(S) /\ Len(back) = n - i
      /\ \A j \in 1 .. n - i : back[j] = list[i + 1 + j - 1]
  BY <1>1, <1>3, LeftOutNumbers, PartOfList
<1>8. /\ l \in Seq(S) /\ Len(l) = n - 1
      /\ \A j \in 1 .. n - 1 : l[j] = IF j <= i - 1 THEN front[j] ELSE back[j - (i - 1)]
  <2>1. /\ l \in Seq(S) /\ Len(l) = (i - 1) + (n - i)
        /\ \A j \in 1 .. (i - 1) + (n - i) :
             l[j] = IF j <= i - 1 THEN front[j] ELSE back[j - (i - 1)]
    <3>1. /\ front \o back \in Seq(S) /\ Len(front \o back) = Len(front) + Len(back)
          /\ \A j \in 1 .. Len(front) + Len(back) :
               (front \o back)[j] = IF j <= Len(front) THEN front[j]
                                    ELSE back[j - Len(front)]
      BY <1>6, <1>7, ConcatProperties
    <3>2. Len(front) = i - 1 /\ Len(back) = n - i
      BY <1>6, <1>7
    <3>3. QED
      BY <1>4, <3>1, <3>2, Zenon
  <2>2. (i - 1) + (n - i) = n - 1
    BY <1>1, LeftOutNumbers
  <2>3. QED
    BY <2>1, <2>2, Zenon
<1>9. DOMAIN l = 1 .. n - 1
  BY <1>8
<1>10. \A j \in 1 .. i - 1 : l[j] = list[j]
  <2> TAKE j \in 1 .. i - 1
  <2>1. j \in 1 .. n - 1 /\ j <= i - 1 /\ 1 + j - 1 = j
    BY <1>1, LeftOutNumbers
  <2>2. l[j] = front[j]
    BY <1>8, <2>1
  <2>3. front[j] = list[1 + j - 1]
    BY <1>6
  <2>4. QED
    BY <2>1, <2>2, <2>3, Zenon
<1>11. \A j \in i .. n - 1 : l[j] = list[j + 1]
  <2> TAKE j \in i .. n - 1
  <2>1. /\ j \in 1 .. n - 1 /\ ~(j <= i - 1) /\ j - (i - 1) \in 1 .. n - i
        /\ i + 1 + (j - (i - 1)) - 1 = j + 1
    BY <1>1, LeftOutNumbers
  <2>2. l[j] = back[j - (i - 1)]
    BY <1>8, <2>1
  <2>3. back[j - (i - 1)] = list[i + 1 + (j - (i - 1)) - 1]
    BY <1>7, <2>1
  <2>4. QED
    BY <2>1, <2>2, <2>3, Zenon
<1>12. Distinct(l) /\ Elements(l) = Elements(list) \ {list[i]}
  <2>1. IsLeftOut(l, list, n, i)
    BY <1>1, <1>9, <1>10, <1>11, Zenon DEF IsLeftOut
  <2>2. QED
    BY <1>1, <2>1, LeftOut
<1>13. QED
  BY <1>5, <1>8, <1>12
-----------------------------------------------------------------------------
(***************************************************************************)
(* A broker's nodes and lists.                                             *)
(***************************************************************************)
Nodes(b) == {SlabOf(i) : i \in b.bits}
NodesIn(b, d) == Elements(b.lists[d])

\* A node whose bit is set is in one list, once, and has a region of that list.
BrokerInv(b) ==
  /\ b \in Brokers
  /\ b.bits \subseteq 0 .. b.slabs - 1
  /\ \A d \in Depths : Distinct(b.lists[d]) /\ NodesIn(b, d) \subseteq Nodes(b)
  /\ \A d, e \in Depths : d # e => NodesIn(b, d) \cap NodesIn(b, e) = {}
  /\ \A s \in Nodes(b) : \E d \in Depths : s \in NodesIn(b, d)
  /\ \A d \in Depths : \A s \in NodesIn(b, d) : FitsList(b.region[s], d)

LEMMA BitsAndSlabs ==
  ASSUME NEW b \in Brokers
  PROVE  /\ MaxSlabs \in Nat /\ b.slabs \in 0 .. MaxSlabs
         /\ b.bits \subseteq 0 .. MaxSlabs - 1
         /\ Nodes(b) \subseteq SlabSet
         /\ \A i \in 0 .. MaxSlabs - 1 : /\ i \in Nat /\ i < WordBits /\ SlabOf(i) \in SlabSet
                                         /\ bit(b, i) <=> i \in b.bits
                                         /\ SlabOf(i) \in Nodes(b) <=> i \in b.bits
<1>1. MaxSlabs \in Nat /\ WordBits \in Nat /\ MaxSlabs <= WordBits
  BY PageAllocatorAssumption
<1>2. b.bits \subseteq 0 .. MaxSlabs - 1 /\ b.slabs \in 0 .. MaxSlabs
  BY DEF Brokers
<1>3. \A i, j \in 0 .. MaxSlabs - 1 : SlabOf(i) = SlabOf(j) => i = j
  <2> TAKE i, j \in 0 .. MaxSlabs - 1
  <2>1. BitOf(SlabOf(i)) = i /\ BitOf(SlabOf(j)) = j
    BY <1>1, BitOfSlab
  <2>2. QED
    BY <2>1
<1>4. QED
  BY <1>1, <1>2, <1>3 DEF Nodes, SlabSet, bit

LEMMA FirstBitIsFree ==
  ASSUME NEW b \in Brokers, FreeBits(b) # {}
  PROVE  /\ FirstBit(b) \in 0 .. b.slabs - 1
         /\ FirstBit(b) \in 0 .. MaxSlabs - 1
         /\ FirstBit(b) \notin b.bits
<1>1. FreeBits(b) \subseteq Nat
  BY BitsAndSlabs DEF FreeBits
<1>2. \E i \in FreeBits(b) : \A j \in FreeBits(b) : i <= j
  BY <1>1, LeastElement
<1>3. FirstBit(b) \in FreeBits(b)
  BY <1>2 DEF FirstBit
<1>4. FirstBit(b) \in 0 .. b.slabs - 1 /\ ~bit(b, FirstBit(b))
  BY <1>3 DEF FreeBits
<1>5. b.slabs \in 0 .. MaxSlabs /\ MaxSlabs \in Nat
  BY BitsAndSlabs
<1>6. QED
  BY <1>4, <1>5, BitsAndSlabs

\* The broker c has one node more than b: x, with region r, in list d.
HasMore(c, b, d, i, r) ==
  /\ c \in Brokers
  /\ c.bits = b.bits \cup {i} /\ c.slabs = b.slabs /\ c.runway = b.runway
  /\ c.region = [b.region EXCEPT ![SlabOf(i)] = r]
  /\ \A e \in Depths \ {d} : c.lists[e] = b.lists[e]
  /\ Distinct(c.lists[d])
  /\ NodesIn(c, d) = NodesIn(b, d) \cup {SlabOf(i)}

\* The broker c has one node less than b.
HasLess(c, b, d, i) ==
  /\ c \in Brokers
  /\ c.bits = b.bits \ {i} /\ c.slabs = b.slabs /\ c.runway = b.runway
  /\ c.region = b.region
  /\ \A e \in Depths \ {d} : c.lists[e] = b.lists[e]
  /\ Distinct(c.lists[d])
  /\ NodesIn(c, d) = NodesIn(b, d) \ {SlabOf(i)}

LEMMA FirstPlace == \A b, list, r : lower_bound(b, list, r) = 1
<1> TAKE b, list, r
<1>1. distance(list) = 0
  BY DEF distance
<1>2. QED
  BY <1>1 DEF lower_bound

LEMMA CreateAndInsertEffect ==
  ASSUME NEW b, BrokerInv(b), FreeBits(b) # {}, NEW d \in Depths, NEW r \in Regions
  PROVE  /\ FirstBit(b) \in 0 .. b.slabs - 1 /\ FirstBit(b) \in 0 .. MaxSlabs - 1
         /\ FirstBit(b) \notin b.bits
         /\ HasMore(CreateAndInsert(b, d, r), b, d, FirstBit(b), r)
<1>1. b \in Brokers
  BY DEF BrokerInv
<1>2. PICK i \in 0 .. MaxSlabs - 1 : i = FirstBit(b) /\ i \in 0 .. b.slabs - 1 /\ i \notin b.bits
  BY <1>1, FirstBitIsFree
<1>3. SlabOf(i) \in SlabSet /\ i < WordBits /\ SlabOf(i) \notin Nodes(b)
  BY <1>1, <1>2, BitsAndSlabs
<1>4. PICK n : n = create_node(b, r)
  OBVIOUS
<1>5. /\ n \in Brokers /\ n.bits = b.bits \cup {i} /\ n.slabs = b.slabs
      /\ n.runway = b.runway /\ n.lists = b.lists
      /\ n.region = [b.region EXCEPT ![SlabOf(i)] = r]
  <2>1. n = [[b EXCEPT !.bits = @ \cup {i}] EXCEPT !.region[SlabOf(i)] = r]
    BY <1>2, <1>3, <1>4 DEF create_node, NodeAt, set_bit
  <2>2. QED
    BY <1>1, <1>2, <1>3, <2>1 DEF Brokers
<1>6. b.lists \in Lists
  BY <1>1 DEF Brokers
<1>7. PICK list : list = b.lists[d]
  OBVIOUS
<1>8. list \in Seq(SlabSet) /\ Distinct(list) /\ SlabOf(i) \notin Elements(list)
  BY <1>3, <1>6, <1>7 DEF Lists, BrokerInv, NodesIn
<1>9. PICK l : l = insert_after(list, 1, SlabOf(i))
  OBVIOUS
<1>10. l \in Seq(SlabSet) /\ Distinct(l) /\ Elements(l) = Elements(list) \cup {SlabOf(i)}
  BY <1>3, <1>8, <1>9, InsertBehind
<1>11. CreateAndInsert(b, d, r) = [n EXCEPT !.lists = [b.lists EXCEPT ![d] = l]]
  <2>1. CreateAndInsert(b, d, r)
          = [n EXCEPT !.lists[d] = insert_after(n.lists[d], 1, SlabOf(i))]
    BY <1>2, <1>4, FirstPlace DEF CreateAndInsert, insert_node
  <2>2. QED
    BY <1>5, <1>7, <1>9, <2>1
<1>12. PICK lists : lists = [b.lists EXCEPT ![d] = l]
  OBVIOUS
<1>13. lists \in Lists /\ lists[d] = l /\ \A e \in Depths \ {d} : lists[e] = b.lists[e]
  BY <1>6, <1>10, <1>12 DEF Lists
<1>14. PICK c : c = [n EXCEPT !.lists = lists]
  OBVIOUS
<1>15. /\ c \in Brokers /\ c.bits = n.bits /\ c.slabs = n.slabs /\ c.runway = n.runway
       /\ c.region = n.region /\ c.lists = lists
  BY <1>5, <1>13, <1>14 DEF Brokers
<1>16. HasMore(c, b, d, i, r)
  BY <1>5, <1>7, <1>10, <1>13, <1>15 DEF HasMore, NodesIn
<1>17. QED
  BY <1>2, <1>11, <1>12, <1>14, <1>16

\* The slab at a place, and the bit that remove_node clears.
LEMMA SlabAtPlace ==
  ASSUME NEW b, BrokerInv(b), NEW m \in Places(b)
  PROVE  /\ m[1] \in Depths /\ m[2] \in DOMAIN b.lists[m[1]] /\ m = <<m[1], m[2]>>
         /\ SlabAt(b, m) \in NodesIn(b, m[1])
         /\ BitOf(SlabAt(b, m)) \in b.bits
         /\ SlabAt(b, m) = SlabOf(BitOf(SlabAt(b, m)))
<1>1. m[1] \in Depths /\ m[2] \in DOMAIN b.lists[m[1]] /\ m = <<m[1], m[2]>>
  BY DEF Places
<1>2. SlabAt(b, m) \in NodesIn(b, m[1])
  BY <1>1 DEF SlabAt, NodesIn, Elements
<1>3. PICK i \in b.bits : SlabAt(b, m) = SlabOf(i)
  BY <1>1, <1>2 DEF BrokerInv, Nodes
<1>4. i \in Nat
  BY BitsAndSlabs DEF BrokerInv
<1>5. BitOf(SlabAt(b, m)) = i
  BY <1>3, <1>4, BitOfSlab
<1>6. QED
  BY <1>1, <1>2, <1>3, <1>5

LEMMA RemoveNodeEffect ==
  ASSUME NEW b, BrokerInv(b), NEW m \in Places(b)
  PROVE  HasLess(remove_node(b, m), b, m[1], BitOf(SlabAt(b, m)))
<1>1. b \in Brokers
  BY DEF BrokerInv
<1>2. PICK d \in Depths : /\ d = m[1] /\ m[2] \in DOMAIN b.lists[d]
                          /\ SlabAt(b, m) = b.lists[d][m[2]]
  BY SlabAtPlace DEF SlabAt
<1>3. PICK i : i = BitOf(SlabAt(b, m)) /\ SlabAt(b, m) = SlabOf(i)
  BY SlabAtPlace
<1>4. b.lists \in Lists
  BY <1>1 DEF Brokers
<1>5. PICK list : list = b.lists[d]
  OBVIOUS
<1>6. list \in Seq(SlabSet) /\ Distinct(list) /\ m[2] \in DOMAIN list
  BY <1>2, <1>4, <1>5 DEF Lists, BrokerInv
<1>7. PICK l : l = Without(list, m[2])
  OBVIOUS
<1>8. l \in Seq(SlabSet) /\ Distinct(l) /\ Elements(l) = Elements(list) \ {SlabOf(i)}
  <2>1. Elements(l) = Elements(list) \ {list[m[2]]} /\ l \in Seq(SlabSet) /\ Distinct(l)
    BY <1>6, <1>7, WithoutPlace
  <2>2. QED
    BY <1>2, <1>3, <1>5, <2>1
<1>9. PICK lists : lists = [b.lists EXCEPT ![d] = l]
  OBVIOUS
<1>10. lists \in Lists /\ lists[d] = l /\ \A e \in Depths \ {d} : lists[e] = b.lists[e]
  BY <1>4, <1>8, <1>9 DEF Lists
<1>11. PICK n : n = [b EXCEPT !.bits = @ \ {i}]
  OBVIOUS
<1>12. /\ n \in Brokers /\ n.bits = b.bits \ {i} /\ n.slabs = b.slabs
       /\ n.runway = b.runway /\ n.lists = b.lists /\ n.region = b.region
  BY <1>1, <1>11 DEF Brokers
<1>13. remove_node(b, m) = [n EXCEPT !.lists = lists]
  <2>1. remove_node(b, m) = [n EXCEPT !.lists[d] = Without(@, m[2])]
    BY <1>2, <1>3, <1>11 DEF remove_node, clear_bit
  <2>2. QED
    BY <1>5, <1>7, <1>9, <1>12, <2>1
<1>14. PICK c : c = [n EXCEPT !.lists = lists]
  OBVIOUS
<1>15. /\ c \in Brokers /\ c.bits = n.bits /\ c.slabs = n.slabs /\ c.runway = n.runway
       /\ c.region = n.region /\ c.lists = lists
  BY <1>10, <1>12, <1>14 DEF Brokers
<1>16. HasLess(c, b, d, i)
  BY <1>5, <1>8, <1>10, <1>12, <1>15 DEF HasLess, NodesIn
<1>17. QED
  BY <1>2, <1>3, <1>13, <1>14, <1>16
-----------------------------------------------------------------------------
(***************************************************************************)
(* Regions that share no page.                                             *)
(***************************************************************************)
Apart(r, q) == EndOffset(r) <= q.offset \/ EndOffset(q) <= r.offset

\* A region that some list has.
Sized(r) == \E d \in Depths : FitsList(r, d)

LEMMA DepthsAreNumbers == Depths \subseteq Nat /\ \A d \in Nat, e \in Depths : d <= e => d \in Depths
<1>1. max_depth \in Nat
  BY PageAllocatorAssumption
<1>2. QED
  BY <1>1 DEF Depths

LEMMA SizedRegion ==
  ASSUME NEW r, Sized(r)
  PROVE  r \in Regions /\ r.offset \in Nat /\ r.length \in Nat \ {0} /\ r # NoRegion
<1>1. PICK d \in Depths : FitsList(r, d)
  BY DEF Sized
<1>2. Span(d) \in Nat \ {0}
  BY <1>1, DepthsAreNumbers, DepthOfSpan
<1>3. QED
  BY <1>1, <1>2 DEF FitsList, Regions, NoRegion, Region

LEMMA ApartPages ==
  ASSUME NEW r \in Regions, NEW q \in Regions, Apart(r, q)
  PROVE  PagesOf(r) \cap PagesOf(q) = {} /\ Apart(q, r)
BY DEF Regions, Apart, EndOffset, PagesOf

LEMMA ApartIsOther ==
  ASSUME NEW r, Sized(r)
  PROVE  ~Apart(r, r)
<1>1. r.offset \in Nat /\ r.length \in Nat \ {0}
  BY SizedRegion
<1>2. QED
  BY <1>1 DEF Apart, EndOffset

\* The two halves of a region, in either order.
AreHalves(x, y, r) ==
  \/ x = Halves(r)[1] /\ y = Halves(r)[2]
  \/ x = Halves(r)[2] /\ y = Halves(r)[1]

LEMMA HalvesApart ==
  ASSUME NEW d \in Depths, d + 1 \in Depths, NEW r, FitsList(r, d + 1),
         NEW x, NEW y, AreHalves(x, y, r)
  PROVE  /\ FitsList(x, d) /\ FitsList(y, d) /\ Sized(x) /\ Sized(y)
         /\ Halves(r)[1].offset = r.offset
         /\ x # y /\ Apart(x, y) /\ Apart(y, x)
         /\ PagesOf(r) = PagesOf(x) \cup PagesOf(y)
         /\ \A q \in Regions : Apart(r, q) => Apart(x, q) /\ Apart(y, q)
<1>1. PICK s \in Nat \ {0} : s = Span(d) /\ Span(d + 1) = 2 * s
  BY DepthsAreNumbers, DepthOfSpan, SpanStep
<1>2. PICK h : h = Halves(r)
  OBVIOUS
<1>3. /\ h[1] = Region(r.offset, s) /\ h[2] = Region(r.offset + s, s)
      /\ FitsList(h[1], d) /\ FitsList(h[2], d)
  BY <1>1, <1>2, DepthsAreNumbers, HalvesFit
<1>4. PICK o \in Nat : /\ r.offset = o /\ r.length = 2 * s /\ r \in Regions
                       /\ h[1].offset = o /\ h[1].length = s
                       /\ h[2].offset = o + s /\ h[2].length = s
  BY <1>1, <1>3 DEF FitsList, Regions, Region
<1>5. Sized(h[1]) /\ Sized(h[2])
  BY <1>3 DEF Sized
<1>6. h[1] # h[2] /\ Apart(h[1], h[2]) /\ Apart(h[2], h[1])
  BY <1>4 DEF Apart, EndOffset
<1>8. PagesOf(r) = PagesOf(h[1]) \cup PagesOf(h[2])
  BY <1>4 DEF PagesOf, EndOffset
<1>9. ASSUME NEW q \in Regions, Apart(r, q) PROVE Apart(h[1], q) /\ Apart(h[2], q)
  BY <1>4, <1>9 DEF Apart, EndOffset, Regions
<1>10. \/ x = h[1] /\ y = h[2]
       \/ x = h[2] /\ y = h[1]
  BY <1>2 DEF AreHalves
<1>11. QED
  BY <1>2, <1>3, <1>4, <1>5, <1>6, <1>8, <1>9, <1>10
-----------------------------------------------------------------------------
(***************************************************************************)
(* A node more and a node less keep the broker's structure.                *)
(***************************************************************************)
LEMMA MoreNodes ==
  ASSUME NEW b, BrokerInv(b), NEW c, NEW d \in Depths, NEW i \in 0 .. b.slabs - 1,
         i \notin b.bits, NEW r, FitsList(r, d), HasMore(c, b, d, i, r)
  PROVE  /\ BrokerInv(c)
         /\ Nodes(c) = Nodes(b) \cup {SlabOf(i)} /\ SlabOf(i) \notin Nodes(b)
         /\ c.region[SlabOf(i)] = r
         /\ \A s \in Nodes(b) : c.region[s] = b.region[s]
<1>1. b \in Brokers /\ c \in Brokers
  BY DEF BrokerInv, HasMore
<1>2. i \in 0 .. MaxSlabs - 1
  BY <1>1, BitsAndSlabs
<1>3. PICK x : x = SlabOf(i)
  OBVIOUS
<1>4. x \in SlabSet /\ x \notin Nodes(b) /\ Nodes(b) \subseteq SlabSet
  BY <1>1, <1>2, <1>3, BitsAndSlabs
<1>5. Nodes(c) = Nodes(b) \cup {x}
  BY <1>3 DEF Nodes, HasMore
<1>6. c.region[x] = r /\ \A s \in Nodes(b) : c.region[s] = b.region[s]
  <2>1. b.region \in [SlabSet -> Regions] /\ c.region = [b.region EXCEPT ![x] = r]
    BY <1>1, <1>3 DEF HasMore, Brokers
  <2>2. QED
    BY <1>4, <2>1
<1>7. /\ \A e \in Depths \ {d} : c.lists[e] = b.lists[e] /\ NodesIn(c, e) = NodesIn(b, e)
      /\ Distinct(c.lists[d]) /\ NodesIn(c, d) = NodesIn(b, d) \cup {x}
  BY <1>3 DEF HasMore, NodesIn
<1>8. /\ \A e \in Depths : Distinct(b.lists[e]) /\ NodesIn(b, e) \subseteq Nodes(b)
      /\ \A e, f \in Depths : e # f => NodesIn(b, e) \cap NodesIn(b, f) = {}
      /\ \A s \in Nodes(b) : \E e \in Depths : s \in NodesIn(b, e)
      /\ \A e \in Depths : \A s \in NodesIn(b, e) : FitsList(b.region[s], e)
      /\ b.bits \subseteq 0 .. b.slabs - 1
  BY DEF BrokerInv
<1>9. c.bits \subseteq 0 .. c.slabs - 1
  BY <1>8 DEF HasMore
<1>10. \A e \in Depths : Distinct(c.lists[e]) /\ NodesIn(c, e) \subseteq Nodes(c)
  BY <1>5, <1>7, <1>8
<1>11. ASSUME NEW e \in Depths, NEW f \in Depths, e # f
       PROVE  NodesIn(c, e) \cap NodesIn(c, f) = {}
  <2>1. x \notin NodesIn(b, e) /\ x \notin NodesIn(b, f)
    BY <1>4, <1>8
  <2>2. QED
    BY <1>7, <1>8, <1>11, <2>1
<1>12. \A s \in Nodes(c) : \E e \in Depths : s \in NodesIn(c, e)
  BY <1>5, <1>7, <1>8
<1>13. ASSUME NEW e \in Depths, NEW s \in NodesIn(c, e) PROVE FitsList(c.region[s], e)
  <2>1. CASE s = x
    <3>1. e = d
      BY <1>4, <1>7, <1>8, <2>1
    <3>2. QED
      BY <1>6, <2>1, <3>1
  <2>2. CASE s # x
    BY <1>6, <1>7, <1>8, <2>2
  <2>3. QED
    BY <2>1, <2>2
<1>14. BrokerInv(c)
  BY <1>1, <1>9, <1>10, <1>11, <1>12, <1>13 DEF BrokerInv
<1>15. QED
  BY <1>3, <1>4, <1>5, <1>6, <1>14

LEMMA LessNodes ==
  ASSUME NEW b, BrokerInv(b), NEW c, NEW d \in Depths, NEW i \in b.bits,
         SlabOf(i) \in NodesIn(b, d), HasLess(c, b, d, i)
  PROVE  /\ BrokerInv(c)
         /\ Nodes(c) = Nodes(b) \ {SlabOf(i)} /\ c.region = b.region
<1>1. b \in Brokers /\ c \in Brokers
  BY DEF BrokerInv, HasLess
<1>2. i \in 0 .. MaxSlabs - 1 /\ c.bits \subseteq 0 .. MaxSlabs - 1 /\ b.bits \subseteq 0 .. MaxSlabs - 1
  BY <1>1, BitsAndSlabs
<1>3. PICK x : x = SlabOf(i)
  OBVIOUS
<1>4. Nodes(c) = Nodes(b) \ {x}
  <2>1. \A j, k \in 0 .. MaxSlabs - 1 : SlabOf(j) = SlabOf(k) => j = k
    BY <1>1, BitsAndSlabs, BitOfSlab
  <2>2. c.bits = b.bits \ {i}
    BY DEF HasLess
  <2>3. QED
    BY <1>2, <1>3, <2>1, <2>2 DEF Nodes
<1>5. /\ \A e \in Depths \ {d} : c.lists[e] = b.lists[e] /\ NodesIn(c, e) = NodesIn(b, e)
      /\ Distinct(c.lists[d]) /\ NodesIn(c, d) = NodesIn(b, d) \ {x} /\ x \in NodesIn(b, d)
      /\ c.region = b.region
  BY <1>3 DEF HasLess, NodesIn
<1>6. /\ \A e \in Depths : Distinct(b.lists[e]) /\ NodesIn(b, e) \subseteq Nodes(b)
      /\ \A e, f \in Depths : e # f => NodesIn(b, e) \cap NodesIn(b, f) = {}
      /\ \A s \in Nodes(b) : \E e \in Depths : s \in NodesIn(b, e)
      /\ \A e \in Depths : \A s \in NodesIn(b, e) : FitsList(b.region[s], e)
      /\ b.bits \subseteq 0 .. b.slabs - 1
  BY DEF BrokerInv
<1>7. c.bits \subseteq 0 .. c.slabs - 1
  BY <1>6 DEF HasLess
<1>8. ASSUME NEW e \in Depths PROVE Distinct(c.lists[e]) /\ NodesIn(c, e) \subseteq Nodes(c)
  BY <1>4, <1>5, <1>6
<1>9. \A e, f \in Depths : e # f => NodesIn(c, e) \cap NodesIn(c, f) = {}
  BY <1>5, <1>6
<1>10. \A s \in Nodes(c) : \E e \in Depths : s \in NodesIn(c, e)
  BY <1>4, <1>5, <1>6
<1>11. \A e \in Depths : \A s \in NodesIn(c, e) : FitsList(c.region[s], e)
  BY <1>5, <1>6
<1>12. BrokerInv(c)
  BY <1>1, <1>7, <1>8, <1>9, <1>10, <1>11 DEF BrokerInv
<1>13. QED
  BY <1>3, <1>4, <1>5, <1>12
-----------------------------------------------------------------------------
(***************************************************************************)
(* A layout: the regions of the nodes and the regions in hand, H, share no *)
(* page.                                                                   *)
(***************************************************************************)
Layout(b, H) ==
  /\ BrokerInv(b)
  /\ \A r \in H : Sized(r)
  /\ \A s, t \in Nodes(b) : s # t => Apart(b.region[s], b.region[t])
  /\ \A s \in Nodes(b), r \in H : Apart(b.region[s], r)
  /\ \A r, q \in H : r # q => Apart(r, q)

PagesIn(b, H) ==
  UNION ({PagesOf(b.region[s]) : s \in Nodes(b)} \cup {PagesOf(r) : r \in H})

\* A region r that is in hand besides those of H.
InHand(b, H, r) == r \notin H /\ Layout(b, H \cup {r})

LEMMA NodeRegions ==
  ASSUME NEW b, BrokerInv(b), NEW s \in Nodes(b)
  PROVE  Sized(b.region[s]) /\ b.region[s] \in Regions /\ s \in SlabSet
<1>1. Sized(b.region[s])
  BY DEF BrokerInv, Sized
<1>2. s \in SlabSet
  BY BitsAndSlabs DEF BrokerInv
<1>3. QED
  BY <1>1, <1>2, SizedRegion

\* A region in hand becomes a node.
LEMMA CreateKeepsLayout ==
  ASSUME NEW b, NEW H, NEW r, NEW d \in Depths, InHand(b, H, r), FitsList(r, d),
         FreeBits(b) # {}
  PROVE  /\ Layout(CreateAndInsert(b, d, r), H)
         /\ PagesIn(CreateAndInsert(b, d, r), H) = PagesIn(b, H \cup {r})
         /\ CreateAndInsert(b, d, r).slabs = b.slabs
<1>1. BrokerInv(b) /\ r \notin H
  BY DEF InHand, Layout
<1>2. r \in Regions
  BY DEF FitsList
<1>3. PICK c : c = CreateAndInsert(b, d, r)
  OBVIOUS
<1>4. PICK i \in 0 .. b.slabs - 1 : i \notin b.bits /\ HasMore(c, b, d, i, r)
  BY <1>1, <1>2, <1>3, CreateAndInsertEffect
<1>5. PICK x : x = SlabOf(i)
  OBVIOUS
<1>6. /\ BrokerInv(c) /\ Nodes(c) = Nodes(b) \cup {x} /\ x \notin Nodes(b)
      /\ c.region[x] = r /\ \A s \in Nodes(b) : c.region[s] = b.region[s]
  BY <1>1, <1>4, <1>5, MoreNodes
<1>7. /\ \A s \in Nodes(b) : b.region[s] \in Regions
      /\ \A q \in H \cup {r} : Sized(q)
      /\ \A s, t \in Nodes(b) : s # t => Apart(b.region[s], b.region[t])
      /\ \A s \in Nodes(b), q \in H \cup {r} : Apart(b.region[s], q)
      /\ \A p, q \in H \cup {r} : p # q => Apart(p, q)
  BY <1>1, NodeRegions DEF InHand, Layout
<1>8. \A s \in Nodes(b) : Apart(r, b.region[s])
  BY <1>2, <1>7, ApartPages
<1>9. \A q \in H : Apart(r, q)
  BY <1>1, <1>7
<1>11. ASSUME NEW s \in Nodes(c), NEW t \in Nodes(c), s # t
       PROVE  Apart(c.region[s], c.region[t])
  <2>1. CASE s = x
    BY <1>6, <1>8, <1>11, <2>1
  <2>2. CASE t = x
    BY <1>6, <1>7, <1>11, <2>2
  <2>3. CASE s # x /\ t # x
    BY <1>6, <1>7, <1>11, <2>3
  <2>4. QED
    BY <2>1, <2>2, <2>3
<1>12. ASSUME NEW s \in Nodes(c), NEW q \in H PROVE Apart(c.region[s], q)
  BY <1>6, <1>7, <1>9
<1>13. Layout(c, H)
  BY <1>6, <1>7, <1>11, <1>12 DEF Layout
<1>14. PagesIn(c, H) = PagesIn(b, H \cup {r})
  <2>1. {PagesOf(c.region[s]) : s \in Nodes(c)}
          = {PagesOf(b.region[s]) : s \in Nodes(b)} \cup {PagesOf(r)}
    BY <1>6
  <2>2. {PagesOf(q) : q \in H \cup {r}} = {PagesOf(q) : q \in H} \cup {PagesOf(r)}
    OBVIOUS
  <2>3. QED
    BY <2>1, <2>2 DEF PagesIn
<1>15. QED
  BY <1>3, <1>4, <1>13, <1>14 DEF HasMore

\* A node's region comes into a hand.
LEMMA RemoveKeepsLayout ==
  ASSUME NEW b, NEW H, Layout(b, H), NEW m \in Places(b)
  PROVE  LET r == RegionAt(b, m) IN
         /\ InHand(remove_node(b, m), H, r)
         /\ PagesIn(remove_node(b, m), H \cup {r}) = PagesIn(b, H)
         /\ FitsList(r, m[1]) /\ m[1] \in Depths
<1>1. BrokerInv(b)
  BY DEF Layout
<1>2. PICK d \in Depths, i \in b.bits :
        /\ SlabAt(b, m) = SlabOf(i) /\ d = m[1] /\ SlabAt(b, m) \in NodesIn(b, d)
        /\ i = BitOf(SlabAt(b, m))
  BY <1>1, SlabAtPlace
<1> DEFINE x == SlabAt(b, m)
<1>3. PICK c : c = remove_node(b, m)
  OBVIOUS
<1>4. HasLess(c, b, d, i)
  BY <1>1, <1>2, <1>3, RemoveNodeEffect
<1>5. BrokerInv(c) /\ Nodes(c) = Nodes(b) \ {x} /\ c.region = b.region
  BY <1>1, <1>2, <1>4, LessNodes
<1>6. PICK r : r = RegionAt(b, m)
  OBVIOUS
<1>7. r = b.region[x] /\ x \in Nodes(b) /\ FitsList(r, d)
  BY <1>1, <1>2, <1>6 DEF RegionAt, BrokerInv
<1>8. /\ \A q \in H : Sized(q)
      /\ \A s, t \in Nodes(b) : s # t => Apart(b.region[s], b.region[t])
      /\ \A s \in Nodes(b), q \in H : Apart(b.region[s], q)
      /\ \A p, q \in H : p # q => Apart(p, q)
  BY DEF Layout
<1>9. Sized(r) /\ r \in Regions
  BY <1>7, <1>8 DEF Sized, FitsList
<1>10. \A q \in H : Apart(r, q) /\ Apart(q, r)
  <2> TAKE q \in H
  <2>1. Apart(r, q) /\ q \in Regions
    BY <1>7, <1>8, SizedRegion
  <2>2. QED
    BY <1>9, <2>1, ApartPages
<1>11. r \notin H
  BY <1>9, <1>10, ApartIsOther
<1>12. \A s \in Nodes(c) : Apart(c.region[s], r)
  BY <1>5, <1>7, <1>8
<1>13. /\ \A q \in H \cup {r} : Sized(q)
       /\ \A s, t \in Nodes(c) : s # t => Apart(c.region[s], c.region[t])
       /\ \A s \in Nodes(c), q \in H \cup {r} : Apart(c.region[s], q)
       /\ \A p, q \in H \cup {r} : p # q => Apart(p, q)
  BY <1>5, <1>8, <1>9, <1>10, <1>12
<1>14. InHand(c, H, r)
  BY <1>5, <1>11, <1>13 DEF InHand, Layout
<1>15. PagesIn(c, H \cup {r}) = PagesIn(b, H)
  <2>1. {PagesOf(b.region[s]) : s \in Nodes(b)}
          = {PagesOf(c.region[s]) : s \in Nodes(c)} \cup {PagesOf(r)}
    BY <1>5, <1>7
  <2>2. {PagesOf(q) : q \in H \cup {r}} = {PagesOf(q) : q \in H} \cup {PagesOf(r)}
    OBVIOUS
  <2>3. QED
    BY <2>1, <2>2 DEF PagesIn
<1>16. QED
  BY <1>2, <1>3, <1>6, <1>7, <1>14, <1>15

\* A region in hand is replaced by its halves.
LEMMA SplitKeepsLayout ==
  ASSUME NEW b, NEW H, NEW r, NEW d \in Depths, d + 1 \in Depths, InHand(b, H, r),
         FitsList(r, d + 1), NEW x, NEW y, AreHalves(x, y, r)
  PROVE  /\ InHand(b, H \cup {x}, y) /\ x \notin H
         /\ PagesIn(b, (H \cup {x}) \cup {y}) = PagesIn(b, H \cup {r})
<1>1. /\ BrokerInv(b) /\ r \notin H
      /\ \A q \in H \cup {r} : Sized(q)
      /\ \A s, t \in Nodes(b) : s # t => Apart(b.region[s], b.region[t])
      /\ \A s \in Nodes(b), q \in H \cup {r} : Apart(b.region[s], q)
      /\ \A p, q \in H \cup {r} : p # q => Apart(p, q)
  BY DEF InHand, Layout
<1>2. /\ FitsList(x, d) /\ FitsList(y, d) /\ Sized(x) /\ Sized(y)
      /\ x # y /\ Apart(x, y) /\ Apart(y, x)
      /\ PagesOf(r) = PagesOf(x) \cup PagesOf(y)
      /\ \A q \in Regions : Apart(r, q) => Apart(x, q) /\ Apart(y, q)
  BY <1>1, HalvesApart
<1>3. x \in Regions /\ y \in Regions /\ r \in Regions
  BY <1>2 DEF FitsList
<1>4. \A q \in H : Apart(x, q) /\ Apart(y, q) /\ Apart(q, x) /\ Apart(q, y)
  <2> TAKE q \in H
  <2>1. Apart(r, q) /\ q \in Regions
    BY <1>1, SizedRegion
  <2>2. Apart(x, q) /\ Apart(y, q)
    BY <1>2, <2>1
  <2>3. QED
    BY <1>3, <2>1, <2>2, ApartPages
<1>5. \A s \in Nodes(b) : Apart(b.region[s], x) /\ Apart(b.region[s], y)
  <2> TAKE s \in Nodes(b)
  <2>1. Apart(r, b.region[s]) /\ b.region[s] \in Regions
    BY <1>1, <1>3, NodeRegions, ApartPages
  <2>2. Apart(x, b.region[s]) /\ Apart(y, b.region[s])
    BY <1>2, <2>1
  <2>3. QED
    BY <1>3, <2>1, <2>2, ApartPages
<1>6. x \notin H /\ y \notin H
  BY <1>2, <1>4, ApartIsOther
<1>7. PICK G : G = (H \cup {x}) \cup {y}
  OBVIOUS
<1>8. /\ \A q \in G : Sized(q)
      /\ \A s \in Nodes(b), q \in G : Apart(b.region[s], q)
  BY <1>1, <1>2, <1>5, <1>7
<1>9. ASSUME NEW p \in G, NEW q \in G, p # q PROVE Apart(p, q)
  <2>1. CASE p \in H
    BY <1>1, <1>4, <1>7, <1>9, <2>1
  <2>2. CASE p \notin H
    BY <1>2, <1>4, <1>7, <1>9, <2>2
  <2>3. QED
    BY <2>1, <2>2
<1>10. Layout(b, G)
  BY <1>1, <1>8, <1>9 DEF Layout
<1>11. PagesIn(b, G) = PagesIn(b, H \cup {r})
  <2>1. {PagesOf(q) : q \in G} = {PagesOf(q) : q \in H} \cup {PagesOf(x), PagesOf(y)}
    BY <1>7
  <2>2. {PagesOf(q) : q \in H \cup {r}} = {PagesOf(q) : q \in H} \cup {PagesOf(r)}
    OBVIOUS
  <2>3. \A A, B : UNION (A \cup (B \cup {PagesOf(x), PagesOf(y)}))
                  = UNION (A \cup (B \cup {PagesOf(r)}))
    BY <1>2, Zenon
  <2>4. QED
    BY <2>1, <2>2, <2>3, Zenon DEF PagesIn
<1>12. QED
  BY <1>2, <1>6, <1>7, <1>10, <1>11 DEF InHand
-----------------------------------------------------------------------------
(***************************************************************************)
(* Trimming.                                                               *)
(***************************************************************************)
TrimState(b, region, depth, stopped) ==
  [b |-> b, region |-> region, depth |-> depth, stopped |-> stopped]

\* One half of every region of list d and above that is wanted is wanted too.
Divides(wanted, d) ==
  \A e \in Depths, q \in wanted :
    d <= e /\ FitsList(q, e + 1) => Halves(q)[1] \in wanted \/ Halves(q)[2] \in wanted

\* What trimming region r with broker b has come to at list d.
Trimmed(t, d, b, r, H, wanted) ==
  /\ t = TrimState(t.b, t.region, t.depth, t.stopped)
  /\ t.depth \in Nat /\ t.stopped \in BOOLEAN
  /\ InHand(t.b, H, t.region)
  /\ PagesIn(t.b, H \cup {t.region}) = PagesIn(b, H \cup {r})
  /\ \E e \in Depths : d <= e /\ FitsList(t.region, e)
  /\ ~t.stopped => FitsList(t.region, d)
  /\ wanted = Regions => /\ t.region.offset = r.offset
                         /\ t.stopped => FreeBits(t.b) = {}
  /\ r \in wanted => t.region \in wanted
  /\ r \in wanted /\ Divides(wanted, d) /\ t.stopped => FreeBits(t.b) = {}

\* One half becomes a node and the other one is kept.
LEMMA KeepOneHalf ==
  ASSUME NEW b, NEW H, NEW r, NEW d \in Depths, d + 1 \in Depths, InHand(b, H, r),
         FitsList(r, d + 1), FreeBits(b) # {}, NEW x, NEW y, AreHalves(x, y, r),
         NEW c, c = CreateAndInsert(b, d, y)
  PROVE  /\ InHand(c, H, x) /\ FitsList(x, d)
         /\ PagesIn(c, H \cup {x}) = PagesIn(b, H \cup {r})
<1>2. FitsList(x, d) /\ FitsList(y, d)
  BY HalvesApart
<1>3. PICK G : G = H \cup {x}
  OBVIOUS
<1>4. InHand(b, G, y) /\ x \notin H /\ PagesIn(b, G \cup {y}) = PagesIn(b, H \cup {r})
  BY <1>3, SplitKeepsLayout
<1>5. Layout(c, G) /\ PagesIn(c, G) = PagesIn(b, G \cup {y})
  BY <1>2, <1>4, CreateKeepsLayout
<1>6. QED
  BY <1>2, <1>3, <1>4, <1>5 DEF InHand

LEMMA HalveKeeps ==
  ASSUME NEW b, NEW H, NEW r, NEW wanted, wanted \subseteq Regions, NEW t,
         NEW d \in Depths, d + 1 \in Depths, Trimmed(t, d + 1, b, r, H, wanted)
  PROVE  Trimmed(Halve(t, d, wanted), d, b, r, H, wanted)
<1>1. PICK n : n = Halve(t, d, wanted)
  OBVIOUS
<1>2. PICK h : h = Halves(t.region)
  OBVIOUS
<1>3. PICK e \in Depths : d + 1 <= e /\ FitsList(t.region, e)
  BY DEF Trimmed
<1>4. d \in Nat /\ e \in Nat /\ d <= e
  BY <1>3, DepthsAreNumbers
<1>5. t = TrimState(t.b, t.region, t.depth, t.stopped)
  BY DEF Trimmed
<1>6. CASE t.stopped \/ (h[1] \notin wanted /\ h[2] \notin wanted)
  <2>1. n = TrimState(t.b, t.region, t.depth, TRUE)
    <3>1. n = [t EXCEPT !.stopped = TRUE]
      BY <1>1, <1>2, <1>6 DEF Halve
    <3>2. QED
      BY <1>5, <3>1 DEF TrimState
  <2>2. n.b = t.b /\ n.region = t.region /\ n.depth = t.depth /\ n.stopped = TRUE
    BY <2>1 DEF TrimState
  <2>3. ASSUME wanted = Regions PROVE FreeBits(t.b) = {}
    <3>1. CASE t.stopped
      BY <2>3, <3>1 DEF Trimmed
    <3>2. CASE ~t.stopped
      <4>1. FitsList(t.region, d + 1)
        BY <3>2 DEF Trimmed
      <4>2. FitsList(h[1], d)
        BY <1>2, <1>4, <4>1, HalvesFit
      <4>3. QED
        BY <1>6, <2>3, <3>2, <4>2 DEF FitsList
    <3>3. QED
      BY <3>1, <3>2
  <2>4. ASSUME r \in wanted, Divides(wanted, d) PROVE FreeBits(t.b) = {}
    <3>1. t.region \in wanted
      BY <2>4 DEF Trimmed
    <3>2. CASE t.stopped
      <4>1. Divides(wanted, d + 1)
        BY <1>4, <2>4, DepthsAreNumbers DEF Divides
      <4>2. QED
        BY <2>4, <3>2, <4>1 DEF Trimmed
    <3>3. CASE ~t.stopped
      <4>1. FitsList(t.region, d + 1) /\ d <= d
        BY <1>4, <3>3 DEF Trimmed
      <4>2. QED
        BY <1>2, <1>6, <2>4, <3>1, <3>3, <4>1 DEF Divides
    <3>4. QED
      BY <3>2, <3>3
  <2>5. Trimmed(n, d, b, r, H, wanted)
    BY <1>3, <1>4, <2>1, <2>2, <2>3, <2>4 DEF Trimmed
  <2>6. QED
    BY <1>1, <2>5
<1>7. CASE /\ ~(t.stopped \/ (h[1] \notin wanted /\ h[2] \notin wanted))
           /\ FreeBits(t.b) = {}
  <2>1. n = TrimState(t.b, t.region, d, TRUE)
    <3>1. n = [t EXCEPT !.stopped = TRUE, !.depth = d]
      BY <1>1, <1>2, <1>7 DEF Halve
    <3>2. QED
      BY <1>5, <3>1 DEF TrimState
  <2>2. n.b = t.b /\ n.region = t.region /\ n.depth = d /\ n.stopped = TRUE
    BY <2>1 DEF TrimState
  <2>3. Trimmed(n, d, b, r, H, wanted)
    BY <1>3, <1>4, <1>7, <2>1, <2>2 DEF Trimmed
  <2>4. QED
    BY <1>1, <2>3
<1>8. CASE /\ ~(t.stopped \/ (h[1] \notin wanted /\ h[2] \notin wanted))
           /\ FreeBits(t.b) # {}
  <2>1. PICK x, y : /\ AreHalves(x, y, t.region)
                    /\ x \in wanted /\ (h[1] \in wanted => x = h[1])
                    /\ n = TrimState(CreateAndInsert(t.b, d, y), x, d, FALSE)
    <3>1. CASE h[1] \in wanted
      <4>1. n = TrimState(CreateAndInsert(t.b, d, h[2]), h[1], d, FALSE)
        BY <1>1, <1>2, <1>8, <3>1 DEF Halve, TrimState
      <4>2. AreHalves(h[1], h[2], t.region)
        BY <1>2 DEF AreHalves
      <4>3. QED
        BY <3>1, <4>1, <4>2
    <3>2. CASE h[1] \notin wanted
      <4>1. n = TrimState(CreateAndInsert(t.b, d, h[1]), h[2], d, FALSE)
        BY <1>1, <1>2, <1>8, <3>2 DEF Halve, TrimState
      <4>2. AreHalves(h[2], h[1], t.region)
        BY <1>2 DEF AreHalves
      <4>3. QED
        BY <1>8, <3>2, <4>1, <4>2
    <3>3. QED
      BY <3>1, <3>2
  <2>2. PICK c : c = CreateAndInsert(t.b, d, y)
    OBVIOUS
  <2>3. /\ n = TrimState(n.b, n.region, n.depth, n.stopped)
        /\ n.b = c /\ n.region = x /\ n.depth = d /\ n.stopped = FALSE
    BY <2>1, <2>2 DEF TrimState
  <2>4. /\ FitsList(t.region, d + 1) /\ InHand(t.b, H, t.region)
        /\ PagesIn(t.b, H \cup {t.region}) = PagesIn(b, H \cup {r})
        /\ wanted = Regions => t.region.offset = r.offset
    BY <1>8 DEF Trimmed
  <2>5. /\ InHand(c, H, x) /\ FitsList(x, d)
        /\ PagesIn(c, H \cup {x}) = PagesIn(t.b, H \cup {t.region})
    BY <1>8, <2>1, <2>2, <2>4, KeepOneHalf
  <2>6. h[1].offset = t.region.offset /\ h[1] \in Regions
    <3>1. AreHalves(h[1], h[2], t.region)
      BY <1>2, <2>4 DEF InHand, Layout, AreHalves
    <3>2. h[1].offset = t.region.offset /\ FitsList(h[1], d)
      BY <1>2, <2>4, <3>1, HalvesApart
    <3>3. QED
      BY <3>2 DEF FitsList
  <2>7. wanted = Regions => n.region.offset = r.offset
    BY <2>1, <2>3, <2>4, <2>6
  <2>8. /\ \E k \in Depths : d <= k /\ FitsList(n.region, k)
        /\ FitsList(n.region, d) /\ n.depth \in Nat /\ n.stopped \in BOOLEAN
        /\ InHand(n.b, H, n.region) /\ n.region \in wanted
        /\ PagesIn(n.b, H \cup {n.region}) = PagesIn(b, H \cup {r})
    <3>1. d <= d
      BY <1>4
    <3>2. QED
      BY <1>4, <2>1, <2>3, <2>4, <2>5, <3>1
  <2>9. ~n.stopped
    BY <2>3
  <2>10. Trimmed(n, d, b, r, H, wanted)
    BY <2>3, <2>7, <2>8, <2>9, Zenon DEF Trimmed
  <2>11. QED
    BY <1>1, <2>10
<1>9. QED
  BY <1>6, <1>7, <1>8

\* The function that Trim computes exists: from the first list down, it exists as far as
\* any list.
Trimming(f, end, start, t, wanted) ==
  f = [d \in end .. start |-> IF d = start THEN t ELSE Halve(f[d + 1], d, wanted)]

LEMMA TrimmingExists ==
  ASSUME NEW start \in Nat, NEW t, NEW wanted
  PROVE  \A k \in Nat : \E f : Trimming(f, start - k, start, t, wanted)
<1> DEFINE Bad == {k \in Nat : ~(\E f : Trimming(f, start - k, start, t, wanted))}
<1>1. ASSUME NEW k \in Bad, \A i \in Bad : k <= i PROVE FALSE
  <2>1. CASE k = 0
    <3> DEFINE f == [d \in start - 0 .. start |-> t]
    <3>1. f = [d \in start - 0 .. start |-> IF d = start THEN t ELSE Halve(f[d + 1], d, wanted)]
      <4>1. \A d \in start - 0 .. start : d = start
        OBVIOUS
      <4>2. QED
        BY <4>1
    <3>2. Trimming(f, start - 0, start, t, wanted)
      BY <3>1 DEF Trimming
    <3>3. QED
      BY <1>1, <2>1, <3>2
  <2>2. CASE k # 0
    <3>1. PICK p \in Nat : k = p + 1 /\ p \notin Bad
      <4>1. k - 1 \in Nat /\ k = (k - 1) + 1 /\ k - 1 \notin Bad
        BY <1>1, <2>2
      <4>2. QED
        BY <4>1
    <3>2. PICK g : Trimming(g, start - p, start, t, wanted)
      BY <3>1
    <3>3. PICK end \in Int : end = start - k
      OBVIOUS
    <3>4. start - p = end + 1 /\ end < start
      BY <3>1, <3>3
    <3> DEFINE f == [d \in end .. start |-> IF d = end THEN Halve(g[end + 1], end, wanted)
                                            ELSE g[d]]
    <3>5. \A d \in end + 1 .. start : g[d] = IF d = start THEN t ELSE Halve(g[d + 1], d, wanted)
      BY <3>2, <3>4 DEF Trimming
    <3>6. \A d \in end + 1 .. start : f[d] = g[d]
      BY <3>4
    <3>7. f[end] = Halve(g[end + 1], end, wanted)
      BY <3>4
    <3>8. f = [d \in end .. start |-> f[d]]
      OBVIOUS
    <3> HIDE DEF f
    <3>9. \A d \in end .. start : f[d] = IF d = start THEN t ELSE Halve(f[d + 1], d, wanted)
      <4> TAKE d \in end .. start
      <4>1. CASE d = end
        <5>1. end + 1 \in end + 1 .. start
          BY <3>4
        <5>2. QED
          BY <3>4, <3>6, <3>7, <4>1, <5>1
      <4>2. CASE d # end
        <5>1. d \in end + 1 .. start /\ (d # start => d + 1 \in end + 1 .. start)
          BY <4>2
        <5>2. QED
          BY <3>5, <3>6, <5>1
      <4>3. QED
        BY <4>1, <4>2
    <3>10. Trimming(f, end, start, t, wanted)
      BY <3>8, <3>9 DEF Trimming
    <3>11. QED
      BY <1>1, <3>3, <3>10
  <2>3. QED
    BY <2>1, <2>2
<1>2. Bad \subseteq Nat
  OBVIOUS
<1>3. Bad = {}
  BY <1>1, <1>2, LeastElement
<1>4. QED
  BY <1>3

LEMMA TrimKeeps ==
  ASSUME NEW b, NEW H, NEW r, InHand(b, H, r),
         NEW start \in Depths, FitsList(r, start), NEW end \in Nat, end <= start,
         NEW wanted, wanted \subseteq Regions
  PROVE  Trimmed(Trim(b, r, end, wanted), end, b, r, H, wanted)
<1>1. start \in Nat /\ Depth(r.length) = start
  BY DepthsAreNumbers, DepthOfSpan DEF FitsList
<1>2. PICK t : t = TrimState(b, r, start, FALSE)
  OBVIOUS
<1>3. \E f : Trimming(f, end, start, t, wanted)
  <2>1. start - end \in Nat /\ start - (start - end) = end
    BY <1>1
  <2>2. \E f : Trimming(f, start - (start - end), start, t, wanted)
    BY <1>1, <2>1, TrimmingExists
  <2>3. QED
    BY <2>1, <2>2
<1>4. PICK f : Trimming(f, end, start, t, wanted) /\ Trim(b, r, end, wanted) = f[end]
  <2> DEFINE F == CHOOSE f : Trimming(f, end, start, t, wanted)
  <2>1. Trim(b, r, end, wanted) = F[end]
    BY <1>1, <1>2, Zenon DEF Trim, Trimming, TrimState
  <2>2. Trimming(F, end, start, t, wanted)
    BY <1>3
  <2>3. QED
    BY <2>1, <2>2
<1>5. \A d \in end .. start : f[d] = IF d = start THEN t ELSE Halve(f[d + 1], d, wanted)
  BY <1>4 DEF Trimming
<1> DEFINE Bad == {k \in Nat : k <= start - end /\ ~Trimmed(f[start - k], start - k, b, r, H, wanted)}
<1>6. ASSUME NEW k \in Bad, \A i \in Bad : k <= i PROVE FALSE
  <2>1. CASE k = 0
    <3>1. f[start] = t
      BY <1>1, <1>5
    <3>2. t.b = b /\ t.region = r /\ t.depth = start /\ t.stopped = FALSE
      BY <1>2 DEF TrimState
    <3>3. Trimmed(t, start, b, r, H, wanted)
      <4>1. start <= start
        BY <1>1
      <4>2. t = TrimState(t.b, t.region, t.depth, t.stopped)
        BY <1>2, <3>2, Zenon
      <4>3. t.depth \in Nat /\ t.stopped \in BOOLEAN /\ ~t.stopped
        BY <1>1, <3>2
      <4>4. QED
        BY <3>2, <4>1, <4>2, <4>3, Zenon DEF Trimmed
    <3>4. start - 0 = start
      BY <1>1
    <3>5. QED
      BY <1>6, <2>1, <3>1, <3>3, <3>4
  <2>2. CASE k # 0
    <3>1. PICK p \in Nat : k = p + 1 /\ p \notin Bad /\ p <= start - end
      <4>1. k - 1 \in Nat /\ k = (k - 1) + 1 /\ k - 1 \notin Bad /\ k - 1 <= start - end
        BY <1>1, <1>6, <2>2
      <4>2. QED
        BY <4>1
    <3>2. PICK d \in Nat : d = start - k /\ start - p = d + 1 /\ d < start /\ d \in end .. start
      <4>1. start - k \in Nat /\ start - p = (start - k) + 1
        BY <1>1, <1>6, <3>1
      <4>2. start - k < start /\ start - k \in end .. start
        BY <1>1, <1>6, <3>1
      <4>3. QED
        BY <4>1, <4>2
    <3>3. Trimmed(f[d + 1], d + 1, b, r, H, wanted)
      BY <3>1, <3>2
    <3>4. d \in Depths /\ d + 1 \in Depths
      BY <1>1, <3>2, DepthsAreNumbers
    <3>5. f[d] = Halve(f[d + 1], d, wanted)
      BY <1>5, <3>2
    <3>6. Trimmed(f[d], d, b, r, H, wanted)
      BY <3>3, <3>4, <3>5, HalveKeeps
    <3>7. QED
      BY <1>6, <3>2, <3>6
  <2>3. QED
    BY <2>1, <2>2
<1>7. Bad \subseteq Nat
  OBVIOUS
<1>8. Bad = {}
  BY <1>6, <1>7, LeastElement
<1>9. start - end \in Nat /\ start - (start - end) = end
  BY <1>1
<1>10. Trimmed(f[end], end, b, r, H, wanted)
  BY <1>8, <1>9
<1>11. QED
  BY <1>4, <1>10
-----------------------------------------------------------------------------
(***************************************************************************)
(* Searching.                                                              *)
(***************************************************************************)
LEMMA EarliestExists ==
  ASSUME NEW S, S \subseteq Nat \X Nat, S # {}
  PROVE  \E m \in S : m \in Earliest(S)
<1> DEFINE Firsts == {m[1] : m \in S}
<1>1. PICK d \in Firsts : \A k \in Firsts : d <= k
  <2>1. Firsts \subseteq Nat /\ Firsts # {}
    OBVIOUS
  <2>2. QED
    BY <2>1, LeastElement
<1> DEFINE Seconds == {m[2] : m \in {k \in S : k[1] = d}}
<1>2. PICK p \in Seconds : \A k \in Seconds : p <= k
  <2>1. Seconds \subseteq Nat /\ Seconds # {}
    BY <1>1
  <2>2. QED
    BY <2>1, LeastElement
<1>3. PICK m \in S : m[1] = d /\ m[2] = p
  BY <1>2
<1>4. ASSUME NEW k \in S PROVE Precedes(m, k)
  <2>1. m[1] \in Nat /\ k[1] \in Nat /\ m[2] \in Nat /\ k[2] \in Nat
    OBVIOUS
  <2>2. m[1] <= k[1]
    BY <1>1, <1>3
  <2>3. k[1] = m[1] => m[2] <= k[2]
    BY <1>2, <1>3
  <2>4. QED
    BY <2>1, <2>2, <2>3 DEF Precedes
<1>5. m \in Earliest(S)
  BY <1>4 DEF Earliest
<1>6. QED
  BY <1>5

\* The places are those of the nodes, one of each.
LEMMA PlacesAndNodes ==
  ASSUME NEW b, BrokerInv(b)
  PROVE  /\ Places(b) \subseteq Nat \X Nat
         /\ \A m \in Places(b) : SlabAt(b, m) \in Nodes(b)
         /\ \A s \in Nodes(b) : \E m \in Places(b) : SlabAt(b, m) = s
         /\ \A m, k \in Places(b) : SlabAt(b, m) = SlabAt(b, k) => m = k
<1>1. b.lists \in Lists
  BY DEF BrokerInv, Brokers
<1>2. \A d \in Depths : DOMAIN b.lists[d] \subseteq Nat
  <2> TAKE d \in Depths
  <2>1. b.lists[d] \in Seq(SlabSet)
    BY <1>1 DEF Lists
  <2>2. QED
    BY <2>1
<1>3. Places(b) \subseteq Nat \X Nat
  BY <1>2, DepthsAreNumbers DEF Places
<1>4. /\ \A d \in Depths : Distinct(b.lists[d]) /\ NodesIn(b, d) \subseteq Nodes(b)
      /\ \A d, e \in Depths : d # e => NodesIn(b, d) \cap NodesIn(b, e) = {}
      /\ \A s \in Nodes(b) : \E d \in Depths : s \in NodesIn(b, d)
  BY DEF BrokerInv
<1>5. \A m \in Places(b) : /\ m[1] \in Depths /\ m[2] \in DOMAIN b.lists[m[1]]
                           /\ m = <<m[1], m[2]>> /\ SlabAt(b, m) \in NodesIn(b, m[1])
  BY SlabAtPlace
<1>6. \A m \in Places(b) : SlabAt(b, m) \in Nodes(b)
  BY <1>4, <1>5
<1>7. ASSUME NEW s \in Nodes(b) PROVE \E m \in Places(b) : SlabAt(b, m) = s
  <2>1. PICK d \in Depths : s \in NodesIn(b, d)
    BY <1>4
  <2>2. PICK p \in DOMAIN b.lists[d] : b.lists[d][p] = s
    BY <2>1 DEF NodesIn, Elements
  <2>3. <<d, p>> \in Places(b)
    BY <2>2 DEF Places
  <2>4. SlabAt(b, <<d, p>>) = s
    BY <2>2 DEF SlabAt
  <2>5. QED
    BY <2>3, <2>4
<1>8. ASSUME NEW m \in Places(b), NEW k \in Places(b), SlabAt(b, m) = SlabAt(b, k)
      PROVE  m = k
  <2>1. m[1] = k[1]
    BY <1>4, <1>5, <1>8
  <2>2. m[2] = k[2]
    BY <1>4, <1>5, <1>8, <2>1 DEF Distinct, SlabAt
  <2>3. QED
    BY <1>5, <2>1, <2>2
<1>9. QED
  BY <1>3, <1>6, <1>7, <1>8

\* A region that is large enough is in a list that is searched.
LEMMA LargeEnough ==
  ASSUME NEW b, BrokerInv(b), NEW m \in Places(b), NEW n \in Nat \ {0},
         RegionAt(b, m).length >= n
  PROVE  /\ FitsList(RegionAt(b, m), m[1]) /\ m[1] \in Depths /\ m[1] >= Depth(n)
         /\ Depth(n) \in Nat
         /\ \E e \in Nat : /\ align_up_to_power(n) = Span(e) /\ Depth(align_up_to_power(n)) = e
                           /\ n <= Span(e) /\ e <= m[1]
<1>1. m[1] \in Depths /\ SlabAt(b, m) \in NodesIn(b, m[1])
  BY SlabAtPlace
<1>2. FitsList(RegionAt(b, m), m[1])
  BY <1>1 DEF BrokerInv, RegionAt
<1>3. m[1] \in Nat /\ n <= Span(m[1]) /\ Span(m[1]) \in Nat
  BY <1>1, <1>2, DepthsAreNumbers, SpanExceeds DEF FitsList
<1>4. PICK e \in Nat : /\ align_up_to_power(n) = Span(e) /\ Depth(align_up_to_power(n)) = e
                       /\ n <= Span(e)
                       /\ \A k \in Nat : n <= Span(k) => e <= k /\ Depth(n) <= k
  BY AlignUpToPower
<1>5. Depth(n) \in Nat
  BY DepthIs
<1>6. QED
  BY <1>1, <1>2, <1>3, <1>4, <1>5

\* What the backend answers with.
Answered(got, b, H) ==
  /\ got.cost \in Int
  /\ got.region = NoRegion => got.b = b
  /\ got.region # NoRegion =>
       /\ InHand(got.b, H, got.region)
       /\ PagesIn(got.b, H \cup {got.region}) = PagesIn(b, H)

LEMMA NothingIsAnswered == \A b, H : Answered(Nothing(b), b, H) /\ Nothing(b).region = NoRegion
BY DEF Answered, Nothing

\* The backend finds memory if any free region would do.
LEMMA BackendAllocates ==
  ASSUME NEW b, NEW H, Layout(b, H), NEW n \in Nat \ {0}, NEW alignment \in Nat \ {0},
         NEW got, got = backend_allocate(b, n, alignment)
  PROVE  /\ Answered(got, b, H)
         /\ got.region = NoRegion <=>
              \A m \in Places(b) :
                ~(Fits(RegionAt(b, m), n) /\ AlignedTo(RegionAt(b, m), alignment))
         /\ got.region # NoRegion => /\ Fits(got.region, n) /\ AlignedTo(got.region, alignment)
                                     /\ \/ got.region.length = align_up_to_power(n)
                                        \/ FreeBits(got.b) = {}
<1>1. BrokerInv(b)
  BY DEF Layout
<1> DEFINE Matching == {m \in Places(b) : /\ m[1] >= Depth(n)
                                          /\ Fits(RegionAt(b, m), n)
                                          /\ AlignedTo(RegionAt(b, m), alignment)}
<1>2. find_free_pages(b, n, alignment) = Earliest(Matching)
  BY DEF find_free_pages, FirstMatch
<1>3. \A m \in Places(b) : Fits(RegionAt(b, m), n) /\ AlignedTo(RegionAt(b, m), alignment)
                             => m \in Matching
  BY <1>1, LargeEnough DEF Fits
<1>4. Matching \subseteq Nat \X Nat /\ Earliest(Matching) \subseteq Matching
  BY <1>1, PlacesAndNodes DEF Earliest
<1>5. CASE Earliest(Matching) = {}
  <2>1. Matching = {}
    BY <1>4, <1>5, EarliestExists
  <2>2. got = Nothing(b)
    BY <1>2, <1>5 DEF backend_allocate
  <2>3. QED
    BY <1>3, <2>1, <2>2, NothingIsAnswered
<1>6. CASE Earliest(Matching) # {}
  <2>1. PICK m \in Earliest(Matching) : got = remove_and_trim_pages(b, m, n)
    BY <1>2, <1>6 DEF backend_allocate
  <2>2. /\ m \in Places(b) /\ Fits(RegionAt(b, m), n)
        /\ AlignedTo(RegionAt(b, m), alignment)
    BY <1>4, <2>1
  <2>3. PICK r : r = RegionAt(b, m)
    OBVIOUS
  <2>4. PICK start \in Depths : start = m[1] /\ FitsList(r, start)
    BY <1>1, <2>2, <2>3, LargeEnough DEF Fits
  <2>5. PICK end \in Nat : /\ align_up_to_power(n) = Span(end)
                           /\ Depth(align_up_to_power(n)) = end
                           /\ n <= Span(end) /\ end <= start
    BY <1>1, <2>2, <2>3, <2>4, LargeEnough DEF Fits
  <2>6. PICK c : c = remove_node(b, m)
    OBVIOUS
  <2>7. InHand(c, H, r) /\ PagesIn(c, H \cup {r}) = PagesIn(b, H)
    BY <2>2, <2>3, <2>6, RemoveKeepsLayout
  <2>8. PICK t : t = Trim(c, r, end, Regions)
    OBVIOUS
  <2>9. Trimmed(t, end, c, r, H, Regions)
    BY <2>4, <2>5, <2>7, <2>8, TrimKeeps
  <2>10. got = [b |-> t.b, region |-> t.region, cost |-> (Depth(r.length) - t.depth) * SplitCost]
    BY <2>1, <2>3, <2>5, <2>6, <2>8 DEF remove_and_trim_pages
  <2>11. got.b = t.b /\ got.region = t.region /\ got.cost \in Int
    <3>1. Depth(r.length) = start /\ start \in Int /\ t.depth \in Int /\ SplitCost \in Int
      BY <2>4, <2>9, DepthsAreNumbers, DepthOfSpan, PageAllocatorAssumption
        DEF FitsList, Trimmed
    <3>2. (start - t.depth) * SplitCost \in Int
      BY <3>1
    <3>3. QED
      BY <2>10, <3>1, <3>2
  <2>12. PICK e \in Depths : end <= e /\ FitsList(t.region, e)
    BY <2>9 DEF Trimmed
  <2>13. got.region # NoRegion
    BY <2>11, <2>12, SizedRegion DEF Sized
  <2>14. Fits(got.region, n)
    <3>1. e \in Nat /\ (end < e => Span(end) < Span(e)) /\ Span(end) \in Nat /\ Span(e) \in Nat
      BY <2>12, DepthsAreNumbers, SpanGrows, SpanExceeds
    <3>2. t.region.length = Span(e)
      BY <2>12 DEF FitsList
    <3>3. t.region.length >= n
      BY <2>5, <2>12, <3>1, <3>2
    <3>4. QED
      BY <2>11, <3>3 DEF Fits
  <2>15. AlignedTo(got.region, alignment)
    BY <2>2, <2>3, <2>9, <2>11 DEF AlignedTo, Trimmed
  <2>16. got.region.length = align_up_to_power(n) \/ FreeBits(got.b) = {}
    BY <2>5, <2>9, <2>11 DEF Trimmed, FitsList
  <2>17. Answered(got, b, H)
    BY <2>7, <2>9, <2>11, <2>13 DEF Answered, Trimmed
  <2>18. QED
    BY <2>2, <2>13, <2>14, <2>15, <2>16, <2>17
<1>7. QED
  BY <1>5, <1>6

\* A region of list d that a region of a later list contains is in one of its halves.
LEMMA HalfContains ==
  ASSUME NEW d \in Nat, NEW region, FitsList(region, d)
  PROVE  Divides({half \in Regions : Contains(half, region)}, d)
<1>1. SUFFICES ASSUME NEW e \in Depths, NEW q \in Regions, Contains(q, region), d <= e,
                      FitsList(q, e + 1)
               PROVE  \/ Halves(q)[1] \in Regions /\ Contains(Halves(q)[1], region)
                      \/ Halves(q)[2] \in Regions /\ Contains(Halves(q)[2], region)
  BY DEF Divides
<1>2. e \in Nat
  BY DepthsAreNumbers
<1>3. PICK n \in Nat \ {0} : n = Span(d)
  BY DepthOfSpan
<1>4. PICK c \in Nat \ {0} : Span(e) = n * c
  BY <1>1, <1>2, <1>3, SpanIsMultiple
<1>5. PICK s \in Nat \ {0} : s = Span(e) /\ Span(e + 1) = 2 * s
  BY <1>2, SpanStep, DepthOfSpan
<1>6. PICK o \in Nat : o = q.offset
  BY DEF Regions
<1>7. PICK x \in Nat : x = region.offset
  BY DEF FitsList, Regions
<1>8. region.length = n /\ x % n = 0 /\ o % (2 * s) = 0 /\ q.length = 2 * s
  BY <1>1, <1>3, <1>5, <1>6, <1>7 DEF FitsList
<1>9. PICK a \in Nat : o + s = n * a
  <2>1. PICK b \in Nat : o = (2 * s) * b
    <3>1. PICK w \in Nat \ {0} : w = 2 * s
      BY <1>5
    <3>2. o = w * (o \div w) + (o % w) /\ o \div w \in Nat
      BY <1>6, <3>1, Quotient
    <3>3. o % w = 0
      BY <1>8, <3>1, Zenon
    <3>4. PICK b \in Nat : b = o \div w
      BY <3>2
    <3>5. o = w * b
      BY <3>1, <3>2, <3>3, <3>4
    <3>6. QED
      BY <3>1, <3>4, <3>5, Zenon
  <2>2. o + s = n * (2 * c * b + c)
    BY <1>4, <1>5, <2>1, Z3T(60)
  <2>3. 2 * c * b + c \in Nat
    BY <1>4, <2>1
  <2>4. QED
    BY <2>2, <2>3
<1>10. PICK b \in Nat : x = n * b
  <2>1. x = n * (x \div n) + (x % n) /\ x \div n \in Nat
    BY <1>3, Quotient
  <2>2. QED
    BY <1>3, <1>8, <2>1
<1>11. x + n <= o + s \/ o + s <= x
  BY <1>3, <1>9, <1>10, MultiplesApart
<1>12. o <= x /\ x + n <= o + 2 * s
  BY <1>1, <1>6, <1>7, <1>8 DEF Contains, EndOffset
<1>13. /\ Halves(q)[1] = Region(o, s) /\ Halves(q)[2] = Region(o + s, s)
       /\ Halves(q)[1] \in Regions /\ Halves(q)[2] \in Regions
  BY <1>1, <1>2, <1>5, <1>6, HalvesFit DEF FitsList
<1>14. Contains(Region(o, s), region) <=> o <= x /\ x + n <= o + s
  BY <1>3, <1>5, <1>7, <1>8 DEF Contains, EndOffset, Region
<1>15. Contains(Region(o + s, s), region) <=> o + s <= x /\ x + n <= (o + s) + s
  BY <1>3, <1>5, <1>7, <1>8 DEF Contains, EndOffset, Region
<1>16. QED
  BY <1>5, <1>11, <1>12, <1>13, <1>14, <1>15

\* A region that is reserved is in the region that is returned, and is that region itself
\* if a list might have it, unless there is no node for the rest.
LEMMA BackendReserves ==
  ASSUME NEW b, NEW H, Layout(b, H), NEW region \in Regions, region.length > 0,
         NEW got, got = backend_reserve(b, region)
  PROVE  /\ Answered(got, b, H)
         /\ got.region # NoRegion => Contains(got.region, region)
         /\ got.region # NoRegion /\ Sized(region) =>
              got.region = region \/ FreeBits(got.b) = {}
<1>1. BrokerInv(b) /\ region.length \in Nat \ {0}
  BY DEF Layout, Regions
<1> DEFINE Matching == {m \in Places(b) : /\ m[1] >= Depth(region.length)
                                          /\ Contains(RegionAt(b, m), region)}
<1>2. find_free_region(b, region) = Earliest(Matching) /\ Earliest(Matching) \subseteq Matching
  BY DEF find_free_region, FirstMatch, Earliest
<1>3. CASE Earliest(Matching) = {}
  <2>1. got = Nothing(b)
    BY <1>2, <1>3 DEF backend_reserve
  <2>2. QED
    BY <2>1, NothingIsAnswered
<1>4. CASE Earliest(Matching) # {}
  <2>1. PICK m \in Earliest(Matching) : got = remove_and_trim_region(b, m, region)
    BY <1>2, <1>4 DEF backend_reserve
  <2>2. m \in Places(b) /\ Contains(RegionAt(b, m), region)
    BY <1>2, <2>1
  <2>3. PICK r : r = RegionAt(b, m)
    OBVIOUS
  <2>4. m[1] \in Depths /\ FitsList(r, m[1])
    BY <2>2, <2>3, RemoveKeepsLayout
  <2>5. r \in Regions /\ r.length >= region.length
    BY <2>2, <2>3, <2>4 DEF FitsList, Contains, EndOffset, Regions
  <2>6. PICK start \in Depths : start = m[1] /\ Depth(region.length) <= start
    BY <1>1, <2>2, <2>3, <2>5, LargeEnough
  <2>7. PICK end \in Nat : end = Depth(region.length) /\ end <= start
    BY <1>1, <2>6, DepthIs
  <2>8. PICK c : c = remove_node(b, m)
    OBVIOUS
  <2>9. InHand(c, H, r) /\ PagesIn(c, H \cup {r}) = PagesIn(b, H)
    BY <2>2, <2>3, <2>8, RemoveKeepsLayout
  <2>10. PICK wanted : wanted = {half \in Regions : Contains(half, region)}
    OBVIOUS
  <2>11. wanted \subseteq Regions /\ r \in wanted
    BY <2>2, <2>3, <2>5, <2>10
  <2>12. PICK t : t = Trim(c, r, end, wanted)
    OBVIOUS
  <2>13. Trimmed(t, end, c, r, H, wanted)
    BY <2>4, <2>6, <2>7, <2>9, <2>11, <2>12, TrimKeeps
  <2>14. got = [b |-> t.b, region |-> t.region,
                cost |-> ((end - t.depth) * SplitCost) % SizeModulus]
    BY <2>1, <2>3, <2>7, <2>8, <2>10, <2>12 DEF remove_and_trim_region
  <2>15. got.b = t.b /\ got.region = t.region /\ got.cost \in Int
    <3>1. t.depth \in Int /\ SplitCost \in Int /\ SizeModulus \in Nat \ {0}
      BY <2>13, PageAllocatorAssumption DEF Trimmed
    <3>2. (end - t.depth) * SplitCost \in Int
      BY <3>1
    <3>3. ((end - t.depth) * SplitCost) % SizeModulus \in Int
      BY <3>1, <3>2
    <3>4. QED
      BY <2>14, <3>3
  <2>16. PICK e \in Depths : FitsList(t.region, e)
    BY <2>13 DEF Trimmed
  <2>17. got.region # NoRegion
    BY <2>15, <2>16, SizedRegion DEF Sized
  <2>18. Contains(got.region, region)
    BY <2>10, <2>11, <2>13, <2>15 DEF Trimmed
  <2>19. Answered(got, b, H)
    BY <2>9, <2>13, <2>15, <2>17 DEF Answered, Trimmed
  <2>20. ASSUME Sized(region), FreeBits(got.b) # {} PROVE got.region = region
    <3>1. PICK d \in Nat : FitsList(region, d) /\ d = end
      BY <2>7, <2>20, DepthsAreNumbers, DepthOfSpan DEF Sized, FitsList
    <3>2. Divides(wanted, end)
      BY <2>10, <3>1, HalfContains
    <3>3. FitsList(t.region, end)
      BY <2>11, <2>13, <2>15, <2>20, <3>2 DEF Trimmed
    <3>4. t.region.length = region.length /\ Contains(t.region, region)
      BY <2>15, <2>18, <3>1, <3>3 DEF FitsList
    <3>5. t.region \in Regions /\ region \in Regions
      BY <3>3 DEF FitsList
    <3>6. t.region = region
      BY <3>4, <3>5 DEF Regions, Contains, EndOffset
    <3>7. QED
      BY <2>15, <3>6
  <2>21. QED
    BY <2>18, <2>19, <2>20
<1>5. QED
  BY <1>3, <1>4
-----------------------------------------------------------------------------
(***************************************************************************)
(* The broker.                                                             *)
(***************************************************************************)
Gained(r) == IF r = NoRegion THEN {} ELSE {r}

\* Region r has come into a hand, if it is one.
Gains(c, r, b, H) ==
  /\ Layout(c, H \cup Gained(r)) /\ Gained(r) \cap H = {}
  /\ PagesIn(c, H \cup Gained(r)) = PagesIn(b, H)

LEMMA AnswerGains ==
  ASSUME NEW b, NEW H, Layout(b, H), NEW got, Answered(got, b, H)
  PROVE  Gains(got.b, got.region, b, H) /\ got.region.length \in Nat
<1>1. CASE got.region = NoRegion
  <2>1. H \cup Gained(got.region) = H /\ Gained(got.region) \cap H = {} /\ got.b = b
    BY <1>1 DEF Gained, Answered
  <2>2. got.region.length \in Nat
    BY <1>1 DEF NoRegion, Region
  <2>3. QED
    BY <2>1, <2>2 DEF Gains
<1>2. CASE got.region # NoRegion
  <2>1. /\ InHand(got.b, H, got.region)
        /\ PagesIn(got.b, H \cup {got.region}) = PagesIn(b, H)
    BY <1>2 DEF Answered
  <2>2. Gained(got.region) = {got.region} /\ got.region \notin H
        /\ Layout(got.b, H \cup {got.region})
    BY <1>2, <2>1 DEF Gained, InHand
  <2>3. Sized(got.region)
    BY <2>2 DEF Layout
  <2>4. got.region.length \in Nat
    BY <2>3, SizedRegion
  <2>5. Gained(got.region) \cap H = {}
    BY <2>2
  <2>6. QED
    BY <2>1, <2>2, <2>4, <2>5, Zenon DEF Gains
<1>3. QED
  BY <1>1, <1>2

\* Charging changes nothing but the runway.
LEMMA ChargedKeeps ==
  ASSUME NEW b, NEW H, Layout(b, H), NEW amount \in Int, NEW c, c = Charged(b, amount)
  PROVE  Layout(c, H) /\ PagesIn(c, H) = PagesIn(b, H) /\ FreeBits(c) = FreeBits(b)
<1>1. b \in Brokers
  BY DEF Layout, BrokerInv
<1>2. b.runway - amount \in Int /\ SizeModulus \in Nat \ {0}
  BY <1>1, PageAllocatorAssumption DEF Brokers
<1>3. PICK w : w = (b.runway - amount) % SizeModulus
  OBVIOUS
<1>4. w \in 0 .. SizeModulus - 1
  BY <1>2, <1>3
<1>5. c = [b EXCEPT !.runway = w]
  BY <1>3 DEF Charged
<1>6. /\ c \in Brokers /\ c.bits = b.bits /\ c.slabs = b.slabs /\ c.region = b.region
      /\ c.lists = b.lists
  BY <1>1, <1>4, <1>5 DEF Brokers
<1>7. Nodes(c) = Nodes(b) /\ \A d : NodesIn(c, d) = NodesIn(b, d)
  BY <1>6 DEF Nodes, NodesIn
<1>8. BrokerInv(c)
  BY <1>6, <1>7 DEF Layout, BrokerInv
<1>9. Layout(c, H) /\ PagesIn(c, H) = PagesIn(b, H)
  BY <1>6, <1>7, <1>8 DEF Layout, PagesIn
<1>10. FreeBits(c) = FreeBits(b)
  BY <1>6 DEF FreeBits, bit
<1>11. QED
  BY <1>9, <1>10

LEMMA GainsAndCharged ==
  ASSUME NEW b, NEW H, NEW c, NEW r, Gains(c, r, b, H), NEW amount \in Int
  PROVE  Gains(Charged(c, amount), r, b, H)
BY ChargedKeeps DEF Gains

\* What the backend is asked with.
LEMMA ReadyGains ==
  ASSUME NEW b, NEW H, Layout(b, H)
  PROVE  /\ Gains(Ready(b).b, Ready(b).region, b, H)
         /\ ~IsShort(b) => Ready(b).b = b /\ Ready(b).region = NoRegion
<1>1. CASE IsShort(b)
  <2>1. PICK got : got = backend_allocate(b, c_required_runway_in_pages, 1)
    OBVIOUS
  <2>2. Answered(got, b, H)
    BY <2>1, BackendAllocates, PageAllocatorAssumption
  <2>3. Gains(got.b, got.region, b, H) /\ got.region.length \in Nat /\ got.cost \in Int
    BY <2>2, AnswerGains DEF Answered
  <2>4. PICK amount \in Int : amount = got.cost - got.region.length * PageSize
    <3>1. PageSize \in Nat
      BY PageAssumption
    <3>2. got.region.length * PageSize \in Int
      BY <2>3, <3>1
    <3>3. QED
      BY <2>3, <3>2
  <2>5. Ready(b) = [b |-> Charged(got.b, amount), region |-> got.region]
    BY <1>1, <2>1, <2>4 DEF Ready, MoreRunway
  <2>6. QED
    BY <1>1, <2>3, <2>5, GainsAndCharged
<1>2. CASE ~IsShort(b)
  <2>1. Ready(b) = [b |-> b, region |-> NoRegion]
    BY <1>2 DEF Ready
  <2>2. Gains(b, NoRegion, b, H)
    BY DEF Gains, Gained
  <2>3. QED
    BY <2>1, <2>2
<1>3. QED
  BY <1>1, <1>2

\* What allocate and reserve_region return, when the backend answers ans.
Returned(got, ans, b) ==
  got = IF IsShort(b) /\ Ready(b).region = NoRegion
        THEN [b |-> b, region |-> NoRegion, runway |-> NoRegion]
        ELSE [b |-> Charged(ans.b, ans.cost), region |-> ans.region,
              runway |-> Ready(b).region]

\* The runway and the region for the caller have come into hands.
BothGained(got, b, H) ==
  /\ Gained(got.runway) \cap H = {}
  /\ Gained(got.region) \cap (H \cup Gained(got.runway)) = {}
  /\ Layout(got.b, (H \cup Gained(got.runway)) \cup Gained(got.region))
  /\ PagesIn(got.b, (H \cup Gained(got.runway)) \cup Gained(got.region)) = PagesIn(b, H)

LEMMA ReturnedGains ==
  ASSUME NEW b, NEW H, Layout(b, H), NEW ans, NEW got, Returned(got, ans, b),
         NEW G, G = H \cup Gained(Ready(b).region), Answered(ans, Ready(b).b, G)
  PROVE  BothGained(got, b, H)
<1>1. CASE IsShort(b) /\ Ready(b).region = NoRegion
  <2>1. got.b = b /\ got.region = NoRegion /\ got.runway = NoRegion
    BY <1>1 DEF Returned
  <2>2. Gained(NoRegion) = {} /\ H \cup {} = H /\ {} \cap H = {}
    BY DEF Gained
  <2>3. QED
    BY <2>1, <2>2 DEF BothGained
<1>2. CASE ~(IsShort(b) /\ Ready(b).region = NoRegion)
  <2>1. /\ got.b = Charged(ans.b, ans.cost) /\ got.region = ans.region
        /\ got.runway = Ready(b).region
    BY <1>2 DEF Returned
  <2>2. Gains(Ready(b).b, Ready(b).region, b, H)
    BY ReadyGains
  <2>3. Gained(got.runway) \cap H = {} /\ Layout(Ready(b).b, G)
        /\ PagesIn(Ready(b).b, G) = PagesIn(b, H)
    BY <2>1, <2>2 DEF Gains
  <2>4. Gains(ans.b, ans.region, Ready(b).b, G) /\ ans.cost \in Int
    BY <2>3, AnswerGains DEF Answered
  <2>5. Gains(got.b, got.region, Ready(b).b, G)
    BY <2>1, <2>4, GainsAndCharged
  <2>6. PagesIn(got.b, G \cup Gained(got.region)) = PagesIn(b, H)
    BY <2>3, <2>5, Zenon DEF Gains
  <2>7. Gained(got.region) \cap G = {} /\ Layout(got.b, G \cup Gained(got.region))
    BY <2>5 DEF Gains
  <2>8. QED
    BY <2>1, <2>3, <2>6, <2>7, Zenon DEF BothGained
<1>3. QED
  BY <1>1, <1>2

LEMMA AllocateReturns ==
  ASSUME NEW b, NEW n, NEW alignment
  PROVE  Returned(allocate(b, n, alignment), backend_allocate(Ready(b).b, n, alignment), b)
BY DEF allocate, Brokered, Returned

LEMMA ReserveReturns ==
  ASSUME NEW b, NEW region
  PROVE  Returned(reserve_region(b, region), backend_reserve(Ready(b).b, region), b)
BY DEF reserve_region, Brokered, Returned
-----------------------------------------------------------------------------
(***************************************************************************)
(* The calls.                                                              *)
(***************************************************************************)
LEMMA LayoutOfFewer ==
  ASSUME NEW b, NEW H, NEW G, Layout(b, H), G \subseteq H
  PROVE  Layout(b, G) /\ PagesIn(b, G) \subseteq PagesIn(b, H)
<1>1. Layout(b, G)
  BY DEF Layout
<1>2. {PagesOf(r) : r \in G} \subseteq {PagesOf(r) : r \in H}
  OBVIOUS
<1>3. PagesIn(b, G) \subseteq PagesIn(b, H)
  BY <1>2, Zenon DEF PagesIn
<1>4. QED
  BY <1>1, <1>3

\* A new broker has the whole memory, if it has a node for it.
LEMMA NewBrokerLayout ==
  ASSUME NEW r, Sized(r), NEW scratch \in Nat
  PROVE  /\ Layout(NewBroker(r, scratch), {})
         /\ PagesIn(NewBroker(r, scratch), {}) \subseteq PagesOf(r)
<1>1. /\ r \in Regions /\ r.length > 0 /\ MaxSlabs \in Nat
      /\ c_slabs_per_page \in Nat /\ SizeModulus \in Nat \ {0}
      /\ PageSize \in Nat /\ NodeCost \in Nat
  BY SizedRegion, PageAllocatorAssumption, PageAssumption
<1>2. PICK k \in Nat : k = c_slabs_per_page * SlabPagesAdded(scratch, TRUE)
  <2>1. SlabPagesAdded(scratch, TRUE) \in Nat
    BY <1>1 DEF SlabPagesAdded
  <2>2. \A x, y \in Nat : x * y \in Nat
    OBVIOUS
  <2>3. c_slabs_per_page * SlabPagesAdded(scratch, TRUE) \in Nat
    BY <1>1, <2>1, <2>2
  <2>4. QED
    BY <2>3
<1>3. PICK slabs \in 0 .. MaxSlabs : slabs = IF k > MaxSlabs THEN MaxSlabs ELSE k
  BY <1>1
<1>4. PICK w \in 0 .. SizeModulus - 1 : w = (scratch * PageSize - NodeCost) % SizeModulus
  <2>1. scratch * PageSize - NodeCost \in Int
    BY <1>1
  <2>2. QED
    BY <1>1, <2>1
<1>5. PICK b : b = [bits |-> {}, slabs |-> slabs, region |-> [slab \in SlabSet |-> NoRegion],
                    lists |-> [d \in Depths |-> <<>>], runway |-> w]
  OBVIOUS
<1>6. NewBroker(r, scratch) = free_region(b, r)
  BY <1>2, <1>3, <1>4, <1>5 DEF NewBroker, SlabSet
<1>7. /\ b.bits = {} /\ b.slabs = slabs /\ b.region = [slab \in SlabSet |-> NoRegion]
      /\ b.lists = [d \in Depths |-> <<>>] /\ b.runway = w
  BY <1>5
<1>8. b \in Brokers
  <2>1. NoRegion \in Regions
    BY DEF NoRegion, Region, Regions
  <2>2. [d \in Depths |-> <<>>] \in Lists
    BY DEF Lists
  <2>3. QED
    BY <1>5, <2>1, <2>2 DEF Brokers
<1>9. /\ Nodes(b) = {} /\ b.bits \subseteq 0 .. b.slabs - 1
      /\ \A d \in Depths : Distinct(b.lists[d]) /\ NodesIn(b, d) = {}
  BY <1>7 DEF Nodes, NodesIn, Elements, Distinct
<1>10. BrokerInv(b)
  BY <1>8, <1>9 DEF BrokerInv
<1>11. PICK d \in Depths : FitsList(r, d)
  BY DEF Sized
<1>12. Depth(r.length) = d
  BY <1>11, DepthsAreNumbers, DepthOfSpan DEF FitsList
<1>13. InHand(b, {}, r)
  <2>1. Layout(b, {r})
    BY <1>9, <1>10 DEF Layout
  <2>2. {} \cup {r} = {r}
    OBVIOUS
  <2>3. QED
    BY <2>1, <2>2 DEF InHand
<1>17. PagesIn(b, {} \cup {r}) = PagesOf(r) /\ PagesIn(b, {}) = {}
  BY <1>9 DEF PagesIn
<1>14. CASE FreeBits(b) = {}
  <2>1. free_region(b, r) = b
    BY <1>14 DEF free_region
  <2>2. Layout(b, {})
    BY <1>13, LayoutOfFewer DEF InHand
  <2>3. QED
    BY <1>6, <1>17, <2>1, <2>2
<1>15. CASE FreeBits(b) # {}
  <2>1. free_region(b, r) = CreateAndInsert(b, d, r)
    BY <1>1, <1>12, <1>15 DEF free_region
  <2>2. PICK H : H = {}
    OBVIOUS
  <2>3. /\ Layout(CreateAndInsert(b, d, r), H)
        /\ PagesIn(CreateAndInsert(b, d, r), H) = PagesIn(b, H \cup {r})
    <3>1. InHand(b, H, r)
      BY <1>13, <2>2
    <3>2. QED
      BY <1>11, <1>15, <3>1, CreateKeepsLayout
  <2>4. QED
    BY <1>6, <1>17, <2>1, <2>2, <2>3
<1>16. QED
  BY <1>14, <1>15

\* A region that is given back is lost only without a node.
LEMMA FreeKeepsLayout ==
  ASSUME NEW b, NEW H, NEW r, InHand(b, H, r), NEW c, c = free_region(b, r)
  PROVE  /\ Layout(c, H) /\ PagesIn(c, H) \subseteq PagesIn(b, H \cup {r})
         /\ FreeBits(b) # {} => PagesIn(c, H) = PagesIn(b, H \cup {r})
<1>1. PICK d \in Depths : FitsList(r, d)
  BY DEF InHand, Layout, Sized
<1>2. Sized(r) /\ Depth(r.length) = d
  BY <1>1, DepthsAreNumbers, DepthOfSpan DEF FitsList, Sized
<1>3. r.length # 0
  BY <1>2, SizedRegion
<1>4. CASE FreeBits(b) = {}
  <2>1. c = b
    BY <1>4 DEF free_region
  <2>2. Layout(b, H) /\ PagesIn(b, H) \subseteq PagesIn(b, H \cup {r})
    BY LayoutOfFewer DEF InHand
  <2>3. QED
    BY <1>4, <2>1, <2>2
<1>5. CASE FreeBits(b) # {}
  <2>1. c = CreateAndInsert(b, d, r)
    BY <1>2, <1>3, <1>5 DEF free_region
  <2>2. QED
    BY <1>1, <1>5, <2>1, CreateKeepsLayout
<1>6. QED
  BY <1>4, <1>5

\* The inductive invariant: the regions of nodes, callers and the runway.
PagesIInv ==
  /\ Layout(broker, Taken) /\ out \cap runway = {}
  /\ PagesIn(broker, Taken) \subseteq PagesOf(Memory)

LEMMA ReturnKeeps ==
  ASSUME PagesIInv, NEW ans, NEW got, Returned(got, ans, broker), Return(got),
         Answered(ans, Ready(broker).b, Taken \cup Gained(Ready(broker).region))
  PROVE  PagesIInv' /\ PagesIn(broker, Taken)' = PagesIn(broker, Taken)
<1>1. /\ Gained(got.runway) \cap Taken = {}
      /\ Gained(got.region) \cap (Taken \cup Gained(got.runway)) = {}
      /\ Layout(got.b, (Taken \cup Gained(got.runway)) \cup Gained(got.region))
      /\ PagesIn(got.b, (Taken \cup Gained(got.runway)) \cup Gained(got.region))
           = PagesIn(broker, Taken)
  <2>1. PICK H, G : H = Taken /\ G = H \cup Gained(Ready(broker).region)
    OBVIOUS
  <2>2. Layout(broker, H) /\ Answered(ans, Ready(broker).b, G)
    BY <2>1 DEF PagesIInv
  <2>3. G = H \cup Gained(Ready(broker).region)
    BY <2>1
  <2>4. BothGained(got, broker, H)
    BY <2>2, <2>3, ReturnedGains
  <2>5. QED
    BY <2>1, <2>4, Zenon DEF BothGained
<1>2. broker' = got.b /\ out' = out \cup Gained(got.region) /\ runway' = runway \cup Gained(got.runway)
  BY DEF Return, Gained
<1>3. Taken' = (Taken \cup Gained(got.runway)) \cup Gained(got.region)
  BY <1>2 DEF Taken
<1>4. out' \cap runway' = {}
  BY <1>1, <1>2 DEF PagesIInv, Taken
<1>5. QED
  BY <1>1, <1>2, <1>3, <1>4 DEF PagesIInv

LEMMA ReadyLayout ==
  ASSUME NEW b, NEW H, Layout(b, H)
  PROVE  Layout(Ready(b).b, H \cup Gained(Ready(b).region))
BY ReadyGains DEF Gains

LEMMA AllocateKeeps ==
  ASSUME PagesIInv, NEW n \in Sizes, NEW a \in Alignments, Allocate(n, a)
  PROVE  PagesIInv' /\ PagesIn(broker, Taken)' = PagesIn(broker, Taken)
<1>1. n \in Nat \ {0} /\ a \in Nat \ {0}
  BY PagesAssumption
<1>2. PICK G : G = Taken \cup Gained(Ready(broker).region)
  OBVIOUS
<1>3. Layout(Ready(broker).b, G)
  BY <1>2, ReadyLayout DEF PagesIInv
<1>4. PICK ans : ans = backend_allocate(Ready(broker).b, n, a)
  OBVIOUS
<1>5. Answered(ans, Ready(broker).b, G)
  BY <1>1, <1>3, <1>4, BackendAllocates
<1>6. Returned(allocate(broker, n, a), ans, broker) /\ Return(allocate(broker, n, a))
  BY <1>4, AllocateReturns DEF Allocate
<1>7. QED
  BY <1>2, <1>5, <1>6, ReturnKeeps

LEMMA ReserveKeeps ==
  ASSUME PagesIInv, NEW r \in Reservations, Reserve(r)
  PROVE  PagesIInv' /\ PagesIn(broker, Taken)' = PagesIn(broker, Taken)
<1>1. r \in Regions /\ r.length > 0
  BY PagesAssumption
<1>2. PICK G : G = Taken \cup Gained(Ready(broker).region)
  OBVIOUS
<1>3. Layout(Ready(broker).b, G)
  BY <1>2, ReadyLayout DEF PagesIInv
<1>4. PICK ans : ans = backend_reserve(Ready(broker).b, r)
  OBVIOUS
<1>5. Answered(ans, Ready(broker).b, G)
  BY <1>1, <1>3, <1>4, BackendReserves
<1>6. Returned(reserve_region(broker, r), ans, broker) /\ Return(reserve_region(broker, r))
  BY <1>4, ReserveReturns DEF Reserve
<1>7. QED
  BY <1>2, <1>5, <1>6, ReturnKeeps

LEMMA FreeKeeps ==
  ASSUME PagesIInv, NEW r \in out, Free(r)
  PROVE  /\ PagesIInv'
         /\ FreeBits(broker) # {} => PagesIn(broker, Taken)' = PagesIn(broker, Taken)
<1>1. PICK H : H = (out \ {r}) \cup runway
  OBVIOUS
<1>2. Taken = H \cup {r} /\ r \notin H
  BY <1>1 DEF Taken, PagesIInv
<1>3. InHand(broker, H, r)
  BY <1>2 DEF PagesIInv, InHand
<1>4. broker' = free_region(broker, r) /\ out' = out \ {r} /\ runway' = runway
  BY DEF Free
<1>5. Taken' = H
  BY <1>1, <1>4 DEF Taken
<1>6. /\ Layout(broker', H) /\ PagesIn(broker', H) \subseteq PagesIn(broker, H \cup {r})
      /\ FreeBits(broker) # {} => PagesIn(broker', H) = PagesIn(broker, H \cup {r})
  <2>1. PICK c : c = free_region(broker, r)
    OBVIOUS
  <2>2. /\ Layout(c, H) /\ PagesIn(c, H) \subseteq PagesIn(broker, H \cup {r})
        /\ FreeBits(broker) # {} => PagesIn(c, H) = PagesIn(broker, H \cup {r})
    <3>1. InHand(broker, H, r) => \A x : x = free_region(broker, r) =>
            /\ Layout(x, H) /\ PagesIn(x, H) \subseteq PagesIn(broker, H \cup {r})
            /\ FreeBits(broker) # {} => PagesIn(x, H) = PagesIn(broker, H \cup {r})
      BY FreeKeepsLayout
    <3>2. QED
      BY <1>3, <2>1, <3>1
  <2>3. QED
    BY <1>4, <2>1, <2>2
<1>7. QED
  BY <1>2, <1>4, <1>5, <1>6 DEF PagesIInv
-----------------------------------------------------------------------------
LEMMA PagesInitially == Init => PagesIInv
<1> SUFFICES ASSUME Init PROVE PagesIInv
  OBVIOUS
<1>1. broker = NewBroker(Memory, ScratchPages) /\ Taken = {} /\ out \cap runway = {}
  BY DEF Init, Taken
<1>2. Sized(Memory) /\ ScratchPages \in Nat
  BY PagesAssumption DEF Sized, FitsList, Span
<1>3. QED
  BY <1>1, <1>2, NewBrokerLayout DEF PagesIInv

LEMMA PagesStep ==
  ASSUME PagesIInv, [Next]_vars
  PROVE  /\ PagesIInv'
         /\ FreeBits(broker) # {} => PagesIn(broker, Taken)' = PagesIn(broker, Taken)
<1>1. CASE \E n \in Sizes, a \in Alignments : Allocate(n, a)
  BY <1>1, AllocateKeeps
<1>2. CASE \E r \in Reservations : Reserve(r)
  BY <1>2, ReserveKeeps
<1>3. CASE \E r \in out : Free(r)
  BY <1>3, FreeKeeps
<1>4. CASE UNCHANGED vars
  <2>1. broker' = broker /\ out' = out /\ runway' = runway /\ Taken' = Taken
    BY <1>4 DEF vars, Taken
  <2>2. QED
    BY <2>1 DEF PagesIInv
<1>5. QED
  BY <1>1, <1>2, <1>3, <1>4 DEF Next

LEMMA PagesInductive == Spec => []PagesIInv
<1>1. PagesIInv /\ [Next]_vars => PagesIInv'
  BY PagesStep
<1>2. QED
  BY PagesInitially, <1>1, PTL DEF Spec

LEMMA FreeRegionsAreNodes ==
  ASSUME PagesIInv
  PROVE  FreeRegions = {broker.region[s] : s \in Nodes(broker)}
<1>1. BrokerInv(broker)
  BY DEF PagesIInv, Layout
<1>2. ASSUME NEW m \in Places(broker)
      PROVE  RegionAt(broker, m) \in {broker.region[s] : s \in Nodes(broker)}
  BY <1>1, PlacesAndNodes DEF RegionAt
<1>3. ASSUME NEW s \in Nodes(broker) PROVE broker.region[s] \in FreeRegions
  <2>1. PICK m \in Places(broker) : SlabAt(broker, m) = s
    BY <1>1, PlacesAndNodes
  <2>2. QED
    BY <2>1 DEF FreeRegions, RegionAt
<1>4. QED
  BY <1>2, <1>3 DEF FreeRegions

LEMMA AllPages ==
  ASSUME PagesIInv
  PROVE  FreePages \cup TakenPages = PagesIn(broker, Taken)
<1>1. {PagesOf(r) : r \in FreeRegions} = {PagesOf(broker.region[s]) : s \in Nodes(broker)}
  BY FreeRegionsAreNodes
<1>2. \A A, B : (UNION A) \cup (UNION B) = UNION (A \cup B)
  BY Zenon
<1>3. QED
  BY <1>1, <1>2, Zenon DEF FreePages, TakenPages, PagesIn

LEMMA LayoutIsStructure ==
  ASSUME NEW b, NEW H, Layout(b, H)
  PROVE  b \in Brokers /\ NodesAreInLists(b) /\ ListsFitRegions(b)
<1>1. BrokerInv(b) /\ b \in Brokers
  BY DEF Layout, BrokerInv
<1>2. NodesAreInLists(b)
  BY <1>1, PlacesAndNodes DEF NodesAreInLists, Nodes
<1>3. ASSUME NEW m \in Places(b)
      PROVE  /\ RegionAt(b, m).length = page_length_from_depth[m[1]]
             /\ RegionAt(b, m).offset % RegionAt(b, m).length = 0
  BY RemoveKeepsLayout DEF FitsList, Span
<1>4. QED
  BY <1>1, <1>2, <1>3 DEF ListsFitRegions

LEMMA InvariantImpliesPagesInv == PagesIInv => PagesInv
<1> SUFFICES ASSUME PagesIInv PROVE PagesInv
  OBVIOUS
<1>1. /\ BrokerInv(broker) /\ broker \in Brokers
      /\ \A s \in Nodes(broker) : broker.region[s] \in Regions
      /\ \A r \in Taken : Sized(r) /\ r \in Regions
      /\ \A s, t \in Nodes(broker) : s # t => Apart(broker.region[s], broker.region[t])
      /\ \A s \in Nodes(broker), r \in Taken : Apart(broker.region[s], r)
      /\ \A r, q \in Taken : r # q => Apart(r, q)
  BY NodeRegions, SizedRegion DEF PagesIInv, Layout, BrokerInv
<1>2. TypeOK
  <2>1. MaxSlabs \in Nat /\ WordBits \in Nat /\ MaxSlabs <= WordBits
    BY PageAllocatorAssumption
  <2>2. DOMAIN broker.lists = Depths
    BY <1>1 DEF Brokers, Lists
  <2>3. QED
    BY <1>1, <2>1, <2>2 DEF TypeOK, Brokers
<1>3. NodesAreInLists(broker) /\ ListsFitRegions(broker)
  BY LayoutIsStructure DEF PagesIInv
<1>4. PagesApart
  <2>1. ASSUME NEW m \in Places(broker), NEW k \in Places(broker), m # k
        PROVE  PagesOf(RegionAt(broker, m)) \cap PagesOf(RegionAt(broker, k)) = {}
    <3>1. PICK s \in Nodes(broker), t \in Nodes(broker) :
            SlabAt(broker, m) = s /\ SlabAt(broker, k) = t /\ s # t
      BY <1>1, <2>1, PlacesAndNodes
    <3>2. QED
      BY <1>1, <3>1, ApartPages DEF RegionAt
  <2>2. \A r, q \in Taken : r # q => PagesOf(r) \cap PagesOf(q) = {}
    BY <1>1, ApartPages
  <2>3. FreePages \cap TakenPages = {}
    <3>1. ASSUME NEW r \in FreeRegions, NEW q \in Taken PROVE PagesOf(r) \cap PagesOf(q) = {}
      <4>1. PICK s \in Nodes(broker) : r = broker.region[s]
        BY FreeRegionsAreNodes
      <4>2. QED
        BY <1>1, <4>1, ApartPages
    <3>2. QED
      BY <3>1 DEF FreePages, TakenPages
  <2>4. FreePages \cup TakenPages \subseteq PagesOf(Memory)
    BY AllPages DEF PagesIInv
  <2>6. QED
    BY <2>1, <2>2, <2>3, <2>4 DEF PagesApart
<1>5. QED
  BY <1>2, <1>3, <1>4 DEF PagesInv

\* Whatever was allocated, reserved and given back, no page is in two hands, the lists and
\* the node allocator know the same nodes, and each list has aligned regions of its length.
THEOREM PagesInvariant == Spec => []PagesInv
BY PagesInductive, InvariantImpliesPagesInv, PTL

\* Splitting, the runway and calls that fail part of the way lose no page: pages can only
\* be lost when a region is given back while the node allocator has no slab.
THEOREM PagesAreKept == Spec => PagesStay
<1> DEFINE AllPagesIn == FreePages \cup TakenPages = PagesIn(broker, Taken)
<1>1. PagesIInv => AllPagesIn
  BY AllPages
<1>2. ASSUME PagesIInv, AllPagesIn, AllPagesIn', [Next]_vars
      PROVE  FreeBits(broker) # {} =>
               FreePages \cup TakenPages \subseteq FreePages' \cup TakenPages'
  <2>1. FreePages' \cup TakenPages' = PagesIn(broker, Taken)'
    BY <1>2
  <2>2. QED
    BY <1>2, <2>1, PagesStep
<1> HIDE DEF AllPagesIn
<1>3. PagesIInv /\ AllPagesIn /\ AllPagesIn' /\ [Next]_vars =>
        [FreeBits(broker) # {} =>
           FreePages \cup TakenPages \subseteq FreePages' \cup TakenPages']_vars
  BY <1>2
<1>4. QED
  BY PagesInductive, <1>1, <1>3, PTL DEF Spec, PagesStay

LEMMA AsksAreAnswered ==
  ASSUME PagesIInv
  PROVE  ReturnsWhatIsAsked
<1>1. Layout(broker, Taken)
  BY DEF PagesIInv
<1>2. ASSUME ~IsShort(broker), NEW n \in Sizes, NEW a \in Alignments,
             NEW c, c = allocate(broker, n, a), NEW r, r = c.region
      PROVE  /\ r = NoRegion <=> \A f \in FreeRegions : ~(Fits(f, n) /\ AlignedTo(f, a))
             /\ r # NoRegion => /\ Fits(r, n) /\ AlignedTo(r, a)
                                /\ r.length = align_up_to_power(n) \/ FreeBits(c.b) = {}
  <2>1. n \in Nat \ {0} /\ a \in Nat \ {0}
    BY PagesAssumption
  <2>2. PICK got : got = backend_allocate(broker, n, a)
    OBVIOUS
  <2>3. /\ Answered(got, broker, Taken)
        /\ got.region = NoRegion <=>
             \A m \in Places(broker) :
               ~(Fits(RegionAt(broker, m), n) /\ AlignedTo(RegionAt(broker, m), a))
        /\ got.region # NoRegion => /\ Fits(got.region, n) /\ AlignedTo(got.region, a)
                                    /\ \/ got.region.length = align_up_to_power(n)
                                       \/ FreeBits(got.b) = {}
    BY <1>1, <2>1, <2>2, BackendAllocates
  <2>4. Ready(broker).b = broker
    BY <1>1, <1>2, ReadyGains
  <2>5. Returned(c, got, broker)
    BY <1>2, <2>2, <2>4, AllocateReturns
  <2>6. r = got.region /\ c.b = Charged(got.b, got.cost)
    BY <1>2, <2>5 DEF Returned
  <2>7. FreeBits(c.b) = FreeBits(got.b)
    <3>1. got.cost \in Int /\ Layout(got.b, Taken \cup Gained(got.region))
      BY <1>1, <2>3, AnswerGains DEF Answered, Gains
    <3>2. QED
      BY <2>6, <3>1, ChargedKeeps
  <2>8. (\A f \in FreeRegions : ~(Fits(f, n) /\ AlignedTo(f, a)))
          <=> \A m \in Places(broker) :
                ~(Fits(RegionAt(broker, m), n) /\ AlignedTo(RegionAt(broker, m), a))
    BY DEF FreeRegions
  <2>9. QED
    BY <2>3, <2>6, <2>7, <2>8
<1>3. ASSUME NEW region \in Reservations, NEW r, r = reserve_region(broker, region).region,
             r # NoRegion
      PROVE  PagesOf(region) \subseteq PagesOf(r)
  <2>1. region \in Regions /\ region.length > 0
    BY PagesAssumption
  <2>2. PICK G : G = Taken \cup Gained(Ready(broker).region)
    OBVIOUS
  <2>3. Layout(Ready(broker).b, G)
    BY <1>1, <2>2, ReadyLayout
  <2>4. PICK got : got = backend_reserve(Ready(broker).b, region)
    OBVIOUS
  <2>5. /\ Answered(got, Ready(broker).b, G)
        /\ got.region # NoRegion => Contains(got.region, region)
    BY <2>1, <2>3, <2>4, BackendReserves
  <2>6. Returned(reserve_region(broker, region), got, broker)
    BY <2>4, ReserveReturns
  <2>7. r = got.region
    BY <1>3, <2>6 DEF Returned
  <2>8. Contains(r, region) /\ InHand(got.b, G, r)
    BY <1>3, <2>5, <2>7 DEF Answered
  <2>9. r \in Regions
    BY <2>8, SizedRegion DEF InHand, Layout
  <2>10. QED
    BY <2>1, <2>8, <2>9 DEF Contains, PagesOf, EndOffset, Regions
<1>4. QED
  BY <1>2, <1>3 DEF ReturnsWhatIsAsked

\* With enough runway memory is found if any free region would do, and it is large enough,
\* aligned, and no more than the next power of two unless there is no slab for the rest;
\* a reservation returns pages that include those asked for.
THEOREM SearchesFind == Spec => []ReturnsWhatIsAsked
<1>1. PagesIInv => ReturnsWhatIsAsked
  BY AsksAreAnswered
<1>2. QED
  BY PagesInductive, <1>1, PTL
-----------------------------------------------------------------------------
(***************************************************************************)
(* Vectors, whose capacity is a power of two as well.  Callers keep no     *)
(* more entries of several bytes than the least capacity (VectorInUse):    *)
(* the capacity that their number is compared with is in bytes, so that    *)
(* from there on entries of several bytes would outgrow their memory.      *)
(***************************************************************************)
VectorInUse == \A s \in EntrySizes : s = 1 \/ MaxEntries[s] <= MinCapacity

\* The inductive invariant: memory of the least size is enough for large entries, and for
\* entries of one byte the capacity is what it is compared with.
VectorIInv ==
  /\ VectorTypeOK
  /\ m_capacity = storage
  /\ m_count <= MaxEntries[entrySize]
  /\ m_count * entrySize <= storage
  /\ storage = 0 \/ MinCapacity * entrySize <= storage

\* align_up_to_power finds a power of two that is no smaller.
LEMMA AlignsUp ==
  ASSUME NEW n \in Nat
  PROVE  align_up_to_power(n) \in Nat /\ n <= align_up_to_power(n)
<1>1. CASE n = 0
  BY <1>1 DEF align_up_to_power
<1>2. CASE n # 0
  <2>1. PICK e \in Nat : align_up_to_power(n) = Span(e) /\ n <= Span(e)
    BY <1>2, AlignUpToPower
  <2>2. QED
    BY <2>1, SpanExceeds
<1>3. QED
  BY <1>1, <1>2

\* Beyond a page, capacities are whole pages.
LEMMA AlignsToPages ==
  ASSUME NEW n \in Nat, NEW p \in Nat \ {0}
  PROVE  ((n + p - 1) \div p) * p \in Nat /\ n <= ((n + p - 1) \div p) * p
<1>1. PICK m \in Nat : m = n + p - 1
  OBVIOUS
<1>2. m = p * (m \div p) + (m % p) /\ m \div p \in Nat /\ m % p \in 0 .. p - 1
  BY <1>1, Z3T(60)
<1>3. PICK q \in Nat, r \in 0 .. p - 1 : q = m \div p /\ m = p * q + r
  BY <1>2
<1>4. q * p \in Nat /\ q * p = p * q
  BY <1>3, Z3T(60)
<1>5. n <= q * p
  BY <1>1, <1>3, <1>4
<1>6. QED
  BY <1>1, <1>3, <1>4, <1>5

\* Room is made for as many entries as are asked for, and for the least number.
LEMMA CapacityIsAligned ==
  ASSUME VectorInUse, NEW n \in Nat
  PROVE  /\ align_capacity(n) \in Nat
         /\ n <= align_capacity(n) /\ MinCapacity <= align_capacity(n)
<1>1. MinCapacity \in Nat \ {0} /\ PageSize \in Nat \ {0} /\ PageSize >= MinCapacity
  BY VectorAssumption, PageAssumption DEF VectorInUse
<1>2. CASE n > PageSize
  <2>1. align_capacity(n) = ((n + PageSize - 1) \div PageSize) * PageSize
    BY <1>2 DEF align_capacity
  <2>2. PICK c : c = ((n + PageSize - 1) \div PageSize) * PageSize
    OBVIOUS
  <2>3. c \in Nat /\ n <= c
    BY <1>1, <2>2, AlignsToPages
  <2>4. QED
    BY <1>1, <1>2, <2>1, <2>2, <2>3
<1>3. CASE ~(n > PageSize)
  <2>1. PICK p \in Nat : p = align_up_to_power(n) /\ n <= p
    BY AlignsUp
  <2>2. align_capacity(n) = Seqs!Max({p, MinCapacity})
    BY <1>3, <2>1 DEF align_capacity
  <2>3. PICK c : c = CHOOSE x \in {p, MinCapacity} : \A y \in {p, MinCapacity} : x >= y
    OBVIOUS
  <2>4. \E x \in {p, MinCapacity} : \A y \in {p, MinCapacity} : x >= y
    BY <1>1, <2>1
  <2>5. c \in {p, MinCapacity} /\ c >= p /\ c >= MinCapacity
    BY <2>3, <2>4
  <2>6. QED
    BY <1>1, <2>1, <2>2, <2>3, <2>5 DEF Seqs!Max
<1>4. QED
  BY <1>2, <1>3

\* Arithmetic of sizes in bytes.
LEMMA BytesOfEntries ==
  ASSUME NEW s \in Nat \ {0}, NEW n \in Nat, NEW m \in Nat, n <= m
  PROVE  n * s \in Nat /\ m * s \in Nat /\ n * s <= m * s /\ n <= n * s
<1>1. PICK k \in Nat : m = n + k
  <2>1. m - n \in Nat /\ m = n + (m - n)
    OBVIOUS
  <2>2. QED
    BY <2>1
<1>2. PICK j \in Nat : s = j + 1
  <2>1. s - 1 \in Nat /\ s = (s - 1) + 1
    OBVIOUS
  <2>2. QED
    BY <2>1
<1>3. \A x, y \in Nat : x * y \in Nat
  OBVIOUS
<1>4. m * s = n * s + k * s
  BY <1>1, Z3T(60)
<1>5. n * s = n * j + n
  BY <1>2, Z3T(60)
<1>6. n * s \in Nat /\ m * s \in Nat /\ k * s \in Nat /\ n * j \in Nat
  BY <1>3
<1>7. QED
  BY <1>4, <1>5, <1>6

\* What is left of the entries when one is taken out and the others are copied.
LEMMA CopiedIsRemoved ==
  ASSUME VectorTypeOK, NEW index \in 1 .. m_count, index < m_count
  PROVE  CopiedWithout(DestroyedAt(index), index) = Seqs!RemoveAt(m_contents, index)
<1>1. PICK S : S = Value \cup {Destroyed}
  OBVIOUS
<1>2. PICK list \in Seq(S), n \in Nat : list = m_contents /\ n = Len(list) /\ index \in 1 .. n
  BY <1>1 DEF VectorTypeOK, m_count
<1>3. PICK front : front = SubSeq(list, 1, index - 1)
  OBVIOUS
<1>4. PICK back : back = SubSeq(list, index + 1, n)
  OBVIOUS
<1>5. PICK l : l = front \o back
  OBVIOUS
<1>6. Seqs!RemoveAt(m_contents, index) = l
  BY <1>2, <1>3, <1>4, <1>5, Zenon DEF Seqs!RemoveAt
<1>7. /\ front \in Seq(S) /\ Len(front) = index - 1
      /\ \A j \in 1 .. index - 1 : front[j] = list[1 + j - 1]
  BY <1>2, <1>3, LeftOutNumbers, PartOfList
<1>8. /\ back \in Seq(S) /\ Len(back) = n - index
      /\ \A j \in 1 .. n - index : back[j] = list[index + 1 + j - 1]
  BY <1>2, <1>4, LeftOutNumbers, PartOfList
<1>9. /\ l \in Seq(S) /\ Len(l) = (index - 1) + (n - index)
      /\ \A j \in 1 .. (index - 1) + (n - index) :
           l[j] = IF j <= index - 1 THEN front[j] ELSE back[j - (index - 1)]
  <2>1. Len(l) = Len(front) + Len(back)
    BY <1>5, <1>7, <1>8, ConcatProperties
  <2>2. QED
    BY <1>5, <1>7, <1>8, <2>1, ConcatProperties
<1>10. (index - 1) + (n - index) = n - 1
  BY <1>2
<1>11. \A j \in 1 .. n - 1 : l[j] = IF j < index THEN list[j] ELSE list[j + 1]
  <2> TAKE j \in 1 .. n - 1
  <2>1. CASE j < index
    <3>1. j \in 1 .. index - 1 /\ 1 + j - 1 = j /\ j <= index - 1
      BY <1>2, <2>1
    <3>2. l[j] = front[j]
      BY <1>9, <1>10, <3>1
    <3>3. QED
      BY <1>7, <2>1, <3>1, <3>2
  <2>2. CASE ~(j < index)
    <3>1. PICK i \in 1 .. n - index : i = j - (index - 1) /\ index + 1 + i - 1 = j + 1
      BY <1>2, <2>2
    <3>2. l[j] = back[i]
      BY <1>2, <1>9, <1>10, <2>2, <3>1
    <3>3. QED
      BY <1>8, <2>2, <3>1, <3>2
  <2>3. QED
    BY <2>1, <2>2
<1>12. l = [j \in 1 .. n - 1 |-> l[j]]
  BY <1>9, <1>10
<1>13. PICK d : d = DestroyedAt(index)
  OBVIOUS
<1>14. \A j \in 1 .. n : j # index => d[j] = list[j]
  BY <1>2, <1>13 DEF DestroyedAt
<1>15. CopiedWithout(d, index) =
         [j \in 1 .. n - 1 |-> IF j < index THEN d[j] ELSE d[j + 1]]
  BY <1>2, Zenon DEF CopiedWithout, m_count
<1>16. \A j \in 1 .. n - 1 : (IF j < index THEN d[j] ELSE d[j + 1]) = l[j]
  <2> TAKE j \in 1 .. n - 1
  <2>1. j \in 1 .. n /\ j + 1 \in 1 .. n
    BY <1>2
  <2>2. CASE j < index
    <3>1. j # index
      BY <1>2, <2>2
    <3>2. QED
      BY <1>11, <1>14, <2>1, <2>2, <3>1
  <2>3. CASE ~(j < index)
    <3>1. j + 1 # index
      BY <1>2, <2>3
    <3>2. QED
      BY <1>11, <1>14, <2>1, <2>3, <3>1
  <2>4. QED
    BY <2>2, <2>3
<1>17. [j \in 1 .. n - 1 |-> IF j < index THEN d[j] ELSE d[j + 1]] = [j \in 1 .. n - 1 |-> l[j]]
  BY <1>16
<1>18. CopiedWithout(d, index) = l
  BY <1>12, <1>15, <1>17, Zenon
<1>19. QED
  BY <1>6, <1>13, <1>18, Zenon

\* The entries after a step: at most one more or exactly one less.
LEMMA EntriesChange ==
  ASSUME VectorTypeOK
  PROVE  /\ m_count \in Nat
         /\ \A v \in Value : /\ Append(m_contents, v) \in Seq(Value \cup {Destroyed})
                             /\ Len(Append(m_contents, v)) = m_count + 1
         /\ m_count > 0 =>
              /\ Seqs!Front(m_contents) \in Seq(Value \cup {Destroyed})
              /\ Len(Seqs!Front(m_contents)) = m_count - 1
         /\ \A i \in 1 .. m_count :
              /\ Seqs!Front(DestroyedAt(i)) \in Seq(Value \cup {Destroyed})
              /\ Len(Seqs!Front(DestroyedAt(i))) = m_count - 1
              /\ Seqs!RemoveAt(m_contents, i) \in Seq(Value \cup {Destroyed})
              /\ Len(Seqs!RemoveAt(m_contents, i)) = m_count - 1
<1>1. PICK S : S = Value \cup {Destroyed}
  OBVIOUS
<1>2. PICK list \in Seq(S), n \in Nat : list = m_contents /\ n = Len(list)
  BY <1>1 DEF VectorTypeOK
<1>3. m_count = n
  BY <1>2 DEF m_count
<1>4. \A v \in Value : Append(list, v) \in Seq(S) /\ Len(Append(list, v)) = n + 1
  BY <1>1, <1>2
<1>5. ASSUME NEW l \in Seq(S), Len(l) = n, n > 0
      PROVE  Seqs!Front(l) \in Seq(S) /\ Len(Seqs!Front(l)) = n - 1
  BY <1>5 DEF Seqs!Front
<1>6. n > 0 => Seqs!Front(list) \in Seq(S) /\ Len(Seqs!Front(list)) = n - 1
  BY <1>2, <1>5
<1>7. ASSUME NEW i \in 1 .. n
      PROVE  /\ Seqs!Front(DestroyedAt(i)) \in Seq(S)
             /\ Len(Seqs!Front(DestroyedAt(i))) = n - 1
  <2>1. [list EXCEPT ![i] = Destroyed] \in Seq(S)
    BY <1>1, <1>2, <1>7
  <2>2. Len([list EXCEPT ![i] = Destroyed]) = n
    BY <1>1, <1>2, <1>7
  <2>3. PICK l \in Seq(S) : l = [list EXCEPT ![i] = Destroyed] /\ Len(l) = n
    BY <2>1, <2>2
  <2>4. DestroyedAt(i) = l
    BY <1>2, <2>3, Zenon DEF DestroyedAt
  <2>5. Seqs!Front(l) \in Seq(S) /\ Len(Seqs!Front(l)) = n - 1
    <3>1. n > 0 /\ Len(l) = n
      BY <1>7, <2>3
    <3>2. QED
      BY <1>5, <3>1, Zenon
  <2>6. QED
    BY <2>4, <2>5, Zenon
<1>8. ASSUME NEW i \in 1 .. n
      PROVE  Seqs!RemoveAt(list, i) \in Seq(S) /\ Len(Seqs!RemoveAt(list, i)) = n - 1
  <2>1. PICK front : front = SubSeq(list, 1, i - 1)
    OBVIOUS
  <2>2. PICK back : back = SubSeq(list, i + 1, n)
    OBVIOUS
  <2>3. front \in Seq(S) /\ Len(front) = i - 1
    BY <1>2, <1>8, <2>1, LeftOutNumbers, PartOfList
  <2>4. back \in Seq(S) /\ Len(back) = n - i
    BY <1>2, <1>8, <2>2, LeftOutNumbers, PartOfList
  <2>5. front \o back \in Seq(S) /\ Len(front \o back) = Len(front) + Len(back)
    BY <2>3, <2>4, ConcatProperties
  <2>6. Seqs!RemoveAt(list, i) = front \o back
    BY <1>2, <2>1, <2>2, Zenon DEF Seqs!RemoveAt
  <2>7. (i - 1) + (n - i) = n - 1
    BY <1>8
  <2>8. QED
    BY <2>3, <2>4, <2>5, <2>6, <2>7
<1>9. QED
  BY <1>1, <1>2, <1>3, <1>4, <1>6, <1>7, <1>8

\* New memory is large enough for the entries it is asked for and for the least number.
LEMMA AllocatedBytes ==
  ASSUME VectorInUse, VectorTypeOK, NEW n \in Nat, NEW bytes,
         bytes \in allocated(align_capacity(n))
  PROVE  /\ bytes \in Nat
         /\ n * entrySize <= bytes /\ MinCapacity * entrySize <= bytes
<1>1. entrySize \in Nat \ {0} /\ MinCapacity \in Nat /\ Slack \subseteq Nat
  BY VectorAssumption, PageAssumption DEF VectorInUse, VectorTypeOK
<1>2. PICK c \in Nat : c = align_capacity(n) /\ n <= c /\ MinCapacity <= c
  BY CapacityIsAligned
<1>3. PICK s \in Nat : bytes = c * entrySize + s
  BY <1>1, <1>2 DEF allocated
<1>4. PICK e \in Nat \ {0} : e = entrySize
  BY <1>1
<1>5. c * e \in Nat /\ n * e \in Nat /\ n * e <= c * e
  BY <1>2, <1>4, BytesOfEntries
<1>6. MinCapacity * e \in Nat /\ MinCapacity * e <= c * e
  BY <1>1, <1>2, <1>4, BytesOfEntries
<1>7. QED
  BY <1>3, <1>4, <1>5, <1>6

\* The memory after a step, of which so many entries are used.
RoomFor(n) ==
  /\ m_capacity' \in Nat /\ storage' \in Nat
  /\ m_capacity' = storage'
  /\ n * entrySize <= storage'
  /\ storage' = 0 \/ MinCapacity * entrySize <= storage'

\* ensure makes room for the entries there are, and for as many as it is asked for as long
\* as those are no more than the callers keep.
LEMMA EnsureMakesRoom ==
  ASSUME VectorInUse, VectorIInv, NEW amount \in 1 .. MaxEntries[entrySize], ensure(amount)
  PROVE  RoomFor(amount) /\ RoomFor(m_count)
<1>1. /\ entrySize \in Nat \ {0} /\ MinCapacity \in Nat
      /\ MaxEntries[entrySize] \in Nat
      /\ entrySize = 1 \/ MaxEntries[entrySize] <= MinCapacity
  BY VectorAssumption, PageAssumption DEF VectorInUse, VectorIInv, VectorTypeOK
<1>2. PICK n \in Nat : n = m_count
  BY EntriesChange DEF VectorIInv
<1>3. PICK e \in Nat \ {0} : e = entrySize
  BY <1>1
<1>4. PICK s \in Nat : s = storage /\ m_capacity = s /\ n * e <= s
                       /\ (s = 0 \/ MinCapacity * e <= s)
  BY <1>2, <1>3 DEF VectorIInv, VectorTypeOK
<1>5. amount \in Nat /\ amount > 0 /\ amount <= MaxEntries[e]
  BY <1>1, <1>3
<1>6. \A x, y \in Nat : x * y \in Nat
  OBVIOUS
<1>7. n * e \in Nat /\ amount * e \in Nat /\ MinCapacity * e \in Nat
  BY <1>1, <1>5, <1>6
<1>8. CASE amount <= s
  <2>1. amount * e <= s
    <3>1. CASE e = 1
      BY <1>5, <1>8, <3>1
    <3>2. CASE e # 1
      <4>1. amount <= MinCapacity
        BY <1>1, <1>3, <1>5, <3>2
      <4>2. amount * e <= MinCapacity * e
        BY <1>1, <1>5, <4>1, BytesOfEntries
      <4>3. MinCapacity * e <= s
        BY <1>4, <1>5, <1>8
      <4>4. QED
        BY <1>7, <4>2, <4>3
    <3>3. QED
      BY <3>1, <3>2
  <2>2. storage' = s /\ m_capacity' = s
    BY <1>4, <1>8 DEF ensure
  <2>3. QED
    BY <1>2, <1>3, <1>4, <2>1, <2>2 DEF RoomFor
<1>9. CASE ~(amount <= s)
  <2>1. PICK bytes \in allocated(align_capacity(amount)) :
          storage' = bytes /\ m_capacity' = bytes
    BY <1>4, <1>9 DEF ensure, resize
  <2>2. bytes \in Nat /\ amount * e <= bytes /\ MinCapacity * e <= bytes
    BY <1>3, <1>5, <2>1, AllocatedBytes DEF VectorIInv
  <2>3. amount <= amount * e
    BY <1>5, BytesOfEntries
  <2>4. n * e <= bytes
    BY <1>4, <1>5, <1>7, <1>9, <2>2, <2>3
  <2>5. QED
    BY <1>2, <1>3, <2>1, <2>2, <2>4 DEF RoomFor
<1>10. QED
  BY <1>8, <1>9

\* A step whose entries are so many and have room keeps the invariant.
LEMMA RoomSuffices ==
  ASSUME VectorInUse, VectorIInv, RoomFor(Len(m_contents')),
         m_contents' \in Seq(Value \cup {Destroyed}), UNCHANGED entrySize,
         Len(m_contents') <= MaxEntries[entrySize]
  PROVE  VectorIInv'
BY DEF VectorIInv, RoomFor, VectorTypeOK, m_count

\* Without new memory there is room for fewer entries.
LEMMA RoomForFewer ==
  ASSUME VectorInUse, VectorIInv, m_count > 0, UNCHANGED <<m_capacity, storage>>
  PROVE  RoomFor(m_count - 1)
<1>1. PICK n \in Nat : n = m_count /\ n - 1 \in Nat
  <2>1. m_count \in Nat /\ m_count - 1 \in Nat
    BY EntriesChange DEF VectorIInv
  <2>2. QED
    BY <2>1
<1>2. PICK e \in Nat \ {0} : e = entrySize
  BY VectorAssumption, PageAssumption DEF VectorInUse, VectorIInv, VectorTypeOK
<1>3. (n - 1) * e \in Nat /\ n * e \in Nat /\ (n - 1) * e <= n * e
  <2>1. PICK m \in Nat : m = n - 1 /\ m <= n
    BY <1>1
  <2>2. QED
    BY <1>1, <2>1, BytesOfEntries
<1>4. storage \in Nat /\ m_capacity = storage /\ n * e <= storage
      /\ (storage = 0 \/ MinCapacity * e <= storage)
  BY <1>1, <1>2 DEF VectorIInv, VectorTypeOK
<1>5. (n - 1) * e <= storage
  BY <1>3, <1>4
<1>6. QED
  BY <1>1, <1>2, <1>4, <1>5 DEF RoomFor
-----------------------------------------------------------------------------
\* Every step keeps the entries in their memory.
LEMMA VectorStep ==
  ASSUME VectorInUse, VectorIInv, [VectorNext]_vectorVars
  PROVE  VectorIInv'
<1> DEFINE Items == Seq(Value \cup {Destroyed})
           n == m_count
<1>1. n \in Nat /\ n <= MaxEntries[entrySize] /\ MaxEntries[entrySize] \in Nat
  BY EntriesChange, VectorAssumption, PageAssumption DEF VectorInUse, VectorIInv, VectorTypeOK
<1>2. ASSUME NEW v \in Value, append(v) PROVE VectorIInv'
  <2>1. m_contents' \in Items /\ Len(m_contents') = n + 1
    BY <1>2, EntriesChange DEF VectorIInv, append
  <2>2. n + 1 \in 1 .. MaxEntries[entrySize] /\ ensure(n + 1) /\ UNCHANGED entrySize
    BY <1>1, <1>2 DEF append
  <2>3. RoomFor(n + 1)
    BY <2>2, EnsureMakesRoom
  <2>4. QED
    BY <2>1, <2>2, <2>3, RoomSuffices
<1>3. ASSUME NEW amount \in 1 .. MaxEntries[entrySize], Ensure(amount) PROVE VectorIInv'
  <2>1. m_contents' = m_contents /\ UNCHANGED entrySize /\ ensure(amount)
    BY <1>3 DEF Ensure
  <2>2. RoomFor(n)
    BY <2>1, EnsureMakesRoom
  <2>3. m_contents' \in Items /\ Len(m_contents') = n
    BY <2>1 DEF VectorIInv, VectorTypeOK, m_count
  <2>4. QED
    BY <1>1, <2>1, <2>2, <2>3, RoomSuffices
<1>4. CASE RemoveTail
  <2>1. /\ n > 0 /\ m_contents' = Seqs!Front(m_contents)
        /\ UNCHANGED <<m_capacity, storage>> /\ UNCHANGED entrySize
    BY <1>4 DEF RemoveTail
  <2>2. m_contents' \in Items /\ Len(m_contents') = n - 1
    BY <2>1, EntriesChange DEF VectorIInv
  <2>3. RoomFor(n - 1)
    BY <2>1, RoomForFewer
  <2>4. QED
    BY <1>1, <2>1, <2>2, <2>3, RoomSuffices
<1>5. ASSUME NEW index \in 1 .. n, RemoveInside(index) PROVE VectorIInv'
  <2>1. /\ index < n /\ UNCHANGED entrySize
        /\ m_contents' = Seqs!RemoveAt(m_contents, index)
    BY <1>5, CopiedIsRemoved DEF VectorIInv, RemoveInside
  <2>2. m_contents' \in Items /\ Len(m_contents') = n - 1
    BY <2>1, EntriesChange DEF VectorIInv
  <2>3. PICK bytes \in allocated(align_capacity(n - 1)) :
          storage' = bytes /\ m_capacity' = bytes
    BY <1>5 DEF RemoveInside
  <2>4. PICK m \in Nat : m = n - 1
    BY <1>1, <2>1
  <2>5. bytes \in Nat /\ m * entrySize <= bytes /\ MinCapacity * entrySize <= bytes
    BY <2>3, <2>4, AllocatedBytes DEF VectorIInv
  <2>6. RoomFor(m)
    BY <2>3, <2>5 DEF RoomFor
  <2>7. QED
    BY <1>1, <2>1, <2>2, <2>4, <2>6, RoomSuffices
<1>6. ASSUME NEW index \in 1 .. n, RemoveFails(index) PROVE VectorIInv'
  <2>1. /\ index < n /\ UNCHANGED entrySize /\ UNCHANGED <<m_capacity, storage>>
        /\ m_contents' = Seqs!Front(DestroyedAt(index))
    BY <1>6 DEF RemoveFails
  <2>2. m_contents' \in Items /\ Len(m_contents') = n - 1
    BY <2>1, EntriesChange DEF VectorIInv
  <2>3. RoomFor(n - 1)
    BY <1>1, <2>1, RoomForFewer
  <2>4. QED
    BY <1>1, <2>1, <2>2, <2>3, RoomSuffices
<1>7. CASE UNCHANGED vectorVars
  BY <1>7 DEF VectorIInv, vectorVars, VectorTypeOK, m_count
<1>8. ASSUME NEW amount \in 1 .. MaxEntries[entrySize], AllocationFails(amount)
      PROVE  VectorIInv'
  BY <1>7, <1>8 DEF AllocationFails
<1>9. QED
  BY <1>2, <1>3, <1>4, <1>5, <1>6, <1>7, <1>8 DEF VectorNext

LEMMA VectorInductive == VectorInUse => (VectorSpec => []VectorIInv)
<1> SUFFICES ASSUME VectorInUse PROVE VectorSpec => []VectorIInv
  OBVIOUS
<1>1. VectorInit => VectorIInv
  <2>1. ASSUME VectorInit PROVE VectorIInv
    <3>1. entrySize \in Nat \ {0} /\ MaxEntries[entrySize] \in Nat
      BY <2>1, VectorAssumption, PageAssumption DEF VectorInUse, VectorInit
    <3>2. 0 * entrySize = 0 /\ Len(<<>>) = 0 /\ <<>> \in Seq(Value \cup {Destroyed})
      BY <3>1
    <3>3. QED
      BY <2>1, <3>1, <3>2 DEF VectorIInv, VectorInit, VectorTypeOK, m_count
  <2>2. QED
    BY <2>1
<1>2. VectorIInv /\ [VectorNext]_vectorVars => VectorIInv'
  BY VectorStep
<1>3. QED
  BY <1>1, <1>2, PTL DEF VectorSpec

\* Entries lie in the memory that was allocated for them, whatever is appended, removed or
\* asked for, and whenever memory is refused: also after a removal, which moves the others
\* to less memory.
THEOREM VectorEntriesInStorage == VectorInUse => (VectorSpec => []EntriesInStorage)
<1>1. VectorIInv => EntriesInStorage
  BY DEF VectorIInv, EntriesInStorage
<1>2. QED
  BY <1>1, VectorInductive, PTL

\* For entries of one byte, capacity() is the capacity for entries, as vector.hpp says, in
\* any number; run vector_capacity shows that it is not for larger ones.
THEOREM BytesHaveCapacity ==
  VectorInUse /\ EntrySizes = {1} => (VectorSpec => []CapacityIsInEntries)
<1> SUFFICES ASSUME VectorInUse, EntrySizes = {1} PROVE VectorSpec => []CapacityIsInEntries
  OBVIOUS
<1>1. VectorIInv => CapacityIsInEntries
  BY DEF VectorIInv, VectorTypeOK, CapacityIsInEntries
<1>2. QED
  BY <1>1, VectorInductive, PTL

\* A step appends an item, takes one out or leaves all alone, wherever they are moved to;
\* a removal that finds no memory has destroyed the item and drops the last one.
THEOREM VectorKeepsItems == VectorInUse => (VectorSpec => ItemsAreKept)
<1> SUFFICES ASSUME VectorInUse PROVE VectorSpec => ItemsAreKept
  OBVIOUS
<1> DEFINE Kept == \/ \E v \in Value : m_contents' = Append(m_contents, v)
                   \/ \E i \in 1 .. m_count : m_contents' = Seqs!RemoveAt(m_contents, i)
                   \/ \E i \in 1 .. m_count : m_contents' = Seqs!Front(DestroyedAt(i))
                   \/ UNCHANGED m_contents
<1>1. VectorIInv /\ [VectorNext]_vectorVars => [Kept]_vectorVars
  <2>1. ASSUME VectorIInv, VectorNext PROVE Kept
    <3>1. ASSUME RemoveTail PROVE \E i \in 1 .. m_count : m_contents' = Seqs!RemoveAt(m_contents, i)
      <4>1. m_count \in 1 .. m_count /\ m_contents' = Seqs!Front(m_contents)
        BY <2>1, <3>1, EntriesChange DEF VectorIInv, RemoveTail
      <4>2. Seqs!Front(m_contents) = Seqs!RemoveAt(m_contents, m_count)
        <5>1. PICK n : n = m_count
          OBVIOUS
        <5>2. PICK list \in Seq(Value \cup {Destroyed}) :
                list = m_contents /\ Len(list) = n /\ n \in Nat /\ n > 0
          BY <2>1, <4>1, <5>1 DEF VectorIInv, VectorTypeOK, m_count
        <5>3. SubSeq(list, n + 1, n) = <<>>
          BY <5>2
        <5>4. SubSeq(list, 1, n - 1) \in Seq(Value \cup {Destroyed})
          BY <5>2
        <5>5. SubSeq(list, 1, n - 1) \o <<>> = SubSeq(list, 1, n - 1)
          BY <5>4
        <5>6. QED
          BY <5>1, <5>2, <5>3, <5>5, Zenon DEF Seqs!Front, Seqs!RemoveAt
      <4>3. QED
        BY <4>1, <4>2
    <3>2. ASSUME NEW index \in 1 .. m_count, RemoveInside(index)
          PROVE  m_contents' = Seqs!RemoveAt(m_contents, index)
      BY <2>1, <3>2, CopiedIsRemoved DEF VectorIInv, RemoveInside
    <3>3. ASSUME NEW v \in Value, append(v) PROVE m_contents' = Append(m_contents, v)
      BY <3>3 DEF append
    <3>4. ASSUME NEW index \in 1 .. m_count, RemoveFails(index)
          PROVE  m_contents' = Seqs!Front(DestroyedAt(index))
      BY <3>4 DEF RemoveFails
    <3>5. ASSUME NEW amount, Ensure(amount) \/ AllocationFails(amount)
          PROVE  UNCHANGED m_contents
      BY <3>5 DEF Ensure, AllocationFails, vectorVars
    <3>6. QED
      BY <2>1, <3>1, <3>2, <3>3, <3>4, <3>5, Zenon DEF VectorNext
  <2>2. QED
    BY <2>1
<1>2. QED
  BY <1>1, VectorInductive, PTL DEF VectorSpec, ItemsAreKept
-----------------------------------------------------------------------------
(***************************************************************************)
(* The page tables of module Mmu. An argument about sizes, indexes and one *)
(* table comes first; then recording a region, the two brokers, a call,    *)
(* and boot; the theorems are at the end. A state in which tables have run *)
(* out is Flagged, and nothing more is said of it.                         *)
(***************************************************************************)
-----------------------------------------------------------------------------
(***************************************************************************)
(* Sections and the indexes into the tables.                               *)
(***************************************************************************)
L1s == 0 .. L1Entries - 1
L2s == 0 .. SectionPages - 1
Reach == L1Entries * SectionPages

LEMMA MmuSizes ==
  /\ SectionPages \in Nat \ {0} /\ L1Entries \in Nat \ {0} /\ TablesPerPage \in Nat \ {0}
  /\ PageScratch \in Nat \ {0} /\ BrokerScratch \in Nat
<1>1. PICK d \in Depths : SectionPages = Span(d)
  BY MmuAssumption DEF Span
<1>2. SectionPages \in Nat \ {0}
  BY <1>1, DepthsAreNumbers, DepthOfSpan
<1>3. \A n \in Nat \ {0} : n - n \div 2 \in Nat \ {0} /\ (n \div 2) \div 2 \in Nat
  OBVIOUS
<1>4. QED
  BY <1>2, <1>3, MmuAssumption DEF PageScratch, BrokerScratch

LEMMA QuotientIs ==
  ASSUME NEW n \in Nat \ {0}, NEW q \in Nat, NEW r \in 0 .. n - 1
  PROVE  (n * q + r) \div n = q /\ (n * q + r) % n = r
BY Z3T(60)

LEMMA Indexes ==
  ASSUME NEW p \in Nat
  PROVE  l1_index(p) \in L1s /\ l2_index(p) \in L2s
<1>1. p \div SectionPages \in Nat /\ p % SectionPages \in 0 .. SectionPages - 1
  BY MmuSizes, Quotient
<1>2. (p \div SectionPages) % L1Entries \in 0 .. L1Entries - 1
  BY <1>1, MmuSizes, Quotient
<1>3. QED
  BY <1>1, <1>2 DEF l1_index, l2_index, L1s, L2s

\* Pages that the L1 table reaches are told apart by their indexes.
LEMMA IndexesOfPage ==
  ASSUME NEW p \in 0 .. Reach - 1, NEW q \in 0 .. Reach - 1,
         l1_index(p) = l1_index(q), l2_index(p) = l2_index(q)
  PROVE  p = q
<1>1. PICK n \in Nat \ {0} : n = SectionPages
  BY MmuSizes
<1>2. PICK l \in Nat \ {0} : l = L1Entries
  BY MmuSizes
<1>3. p \in Nat /\ q \in Nat /\ p < l * n /\ q < l * n
  <2>1. l * n \in Nat
    OBVIOUS
  <2>2. QED
    BY <1>1, <1>2, <2>1 DEF Reach
<1>4. p = n * (p \div n) + (p % n) /\ p \div n \in Nat
  BY <1>3, Quotient
<1>5. q = n * (q \div n) + (q % n) /\ q \div n \in Nat
  BY <1>3, Quotient
<1>6. \A a \in Nat : a < l * n => a \div n < l
  <2>1. ASSUME NEW a \in Nat, a < l * n, a \div n >= l PROVE FALSE
    <3>1. PICK c \in Nat : a \div n = l + c
      <4>1. a \div n \in Nat
        BY Quotient
      <4>2. a \div n - l \in Nat /\ a \div n = l + (a \div n - l)
        BY <2>1, <4>1
      <4>3. QED
        BY <4>2
    <3>2. a = n * (l + c) + (a % n) /\ a % n \in Nat
      <4>1. a = n * (a \div n) + (a % n) /\ a % n \in 0 .. n - 1
        BY Quotient
      <4>2. a = n * (l + c) + (a % n)
        BY <3>1, <4>1, Zenon
      <4>3. QED
        BY <4>1, <4>2
    <3>3. n * (l + c) = l * n + n * c /\ n * c \in Nat /\ l * n \in Nat
      BY Z3T(60)
    <3>4. QED
      BY <2>1, <3>2, <3>3
  <2>2. \A a \in Nat : a \div n \in Nat
    BY Quotient
  <2>3. QED
    BY <2>1, <2>2
<1>7. \A a \in Nat : a < l => a % l = a
  OBVIOUS
<1>8. (p \div n) % l = (q \div n) % l /\ p % n = q % n
  BY <1>1, <1>2 DEF l1_index, l2_index
<1>9. p \div n = q \div n
  BY <1>3, <1>4, <1>5, <1>6, <1>7, <1>8
<1>10. QED
  BY <1>4, <1>5, <1>8, <1>9, Zenon

\* A region that some list has is within a section, or is whole sections.
WithinSection(n, len, offset) ==
  \E q \in Nat \ {0}, a \in Nat : len <= n /\ n = len * q /\ offset = len * a
WholeSections(n, len, offset) ==
  \E q \in Nat \ {0}, a \in Nat : len > n /\ len = n * q /\ offset = (n * q) * a

LEMMA SectionsOfSized ==
  ASSUME NEW r, Sized(r), NEW n, n = SectionPages, NEW len, len = r.length
  PROVE  WithinSection(n, len, r.offset) \/ WholeSections(n, len, r.offset)
<1>1. PICK d \in Depths : FitsList(r, d)
  BY DEF Sized
<1>2. PICK e \in Depths : n = Span(e)
  BY MmuAssumption DEF Span
<1>3. d \in Nat /\ e \in Nat /\ len = Span(d)
  BY <1>1, <1>2, DepthsAreNumbers DEF FitsList
<1>4. len \in Nat \ {0} /\ r.offset \in Nat /\ n \in Nat \ {0}
  BY SizedRegion, MmuSizes
<1>5. PICK a \in Nat : r.offset = len * a
  <2>1. r.offset % len = 0
    BY <1>1, <1>3 DEF FitsList
  <2>2. r.offset = len * (r.offset \div len) + (r.offset % len) /\ r.offset \div len \in Nat
    BY <1>4, Quotient
  <2>3. \A x \in Nat : len * x \in Nat /\ len * x + 0 = len * x
    BY <1>4
  <2>4. r.offset = len * (r.offset \div len)
    BY <2>1, <2>2, <2>3
  <2>5. QED
    BY <2>2, <2>4
<1>6. CASE d <= e
  <2>1. PICK q \in Nat \ {0} : n = len * q
    BY <1>2, <1>3, <1>6, SpanIsMultiple
  <2>2. len * q >= len
    BY <1>4
  <2>3. QED
    BY <1>5, <2>1, <2>2 DEF WithinSection
<1>7. CASE e < d
  <2>1. PICK q \in Nat \ {0} : len = n * q
    BY <1>2, <1>3, <1>7, SpanIsMultiple
  <2>2. len > n
    BY <1>2, <1>3, <1>7, SpanGrows
  <2>3. r.offset = (n * q) * a
    BY <1>5, <2>1
  <2>4. QED
    BY <2>1, <2>2, <2>3 DEF WholeSections
<1>8. QED
  BY <1>3, <1>6, <1>7
-----------------------------------------------------------------------------
(***************************************************************************)
(* Slices: the pages of a region that are in one L2 table.                 *)
(***************************************************************************)
\* The pages of a region that are in the table of an L1 entry are side by side in it.
LEMMA SliceInSection ==
  ASSUME NEW r, Sized(r), NEW k \in Nat, NEW j \in Nat, j < SectionPages,
         k * SectionPages + j < r.length,
         NEW first, first = r.offset + k * SectionPages
  PROVE  first \in Nat /\ (first + j) \div SectionPages = first \div SectionPages
<1>1. PICK n \in Nat \ {0} : n = SectionPages
  BY MmuSizes
<1>2. PICK len \in Nat \ {0} : len = r.length
  BY SizedRegion
<1>3. k * n \in Nat /\ k * n + j < len /\ k * n < len /\ first = r.offset + k * n
  <2>1. k * n \in Nat
    OBVIOUS
  <2>2. k * n + j < len /\ first = r.offset + k * n
    BY <1>1, <1>2
  <2>3. QED
    BY <2>1, <2>2
<1>4. CASE WithinSection(n, len, r.offset)
  <2>1. PICK q \in Nat \ {0}, a \in Nat : len <= n /\ n = len * q /\ r.offset = len * a
    BY <1>4 DEF WithinSection
  <2>2. k = 0
    <3>1. \A x \in Nat \ {0} : x * n >= n
      OBVIOUS
    <3>2. QED
      BY <1>3, <2>1, <3>1
  <2>3. first = len * a /\ j < len
    <3>1. k * n = 0
      BY <2>2
    <3>2. len * a \in Nat
      OBVIOUS
    <3>3. QED
      BY <1>3, <2>1, <3>1, <3>2
  <2>4. PICK u \in Nat, v \in Nat : a = q * u + v /\ v < q
    <3>1. a = q * (a \div q) + (a % q) /\ a \div q \in Nat /\ a % q \in 0 .. q - 1
      BY Quotient
    <3>2. a % q \in Nat /\ a % q < q
      BY <3>1
    <3>3. QED
      BY <3>1, <3>2
  <2>5. first = n * u + len * v
    <3>1. len * (q * u + v) = (len * q) * u + len * v
      BY Z3T(60)
    <3>2. QED
      BY <2>1, <2>3, <2>4, <3>1, Zenon
  <2>6. len * v + j < n /\ len * v \in Nat /\ len * v < n
    <3>1. PICK w \in Nat : q = v + 1 + w
      <4>1. q - v - 1 \in Nat /\ q = v + 1 + (q - v - 1)
        BY <2>4
      <4>2. QED
        BY <4>1
    <3>2. len * (v + 1 + w) = len * v + len + len * w /\ len * w \in Nat /\ len * v \in Nat
      BY Z3T(60)
    <3>3. n = len * v + len + len * w
      BY <2>1, <3>1, <3>2, Zenon
    <3>4. QED
      BY <2>3, <3>2, <3>3
  <2>7. (n * u + (len * v + j)) \div n = u /\ (n * u + len * v) \div n = u
    <3>1. len * v + j \in 0 .. n - 1 /\ len * v \in 0 .. n - 1
      BY <2>6
    <3>2. QED
      BY <3>1, QuotientIs
  <2>8. n * u \in Nat
    OBVIOUS
  <2>9. first + j = n * u + (len * v + j) /\ first \in Nat
    BY <2>5, <2>6, <2>8
  <2>10. first \in Nat /\ (first + j) \div SectionPages = first \div SectionPages
    BY <1>1, <2>5, <2>7, <2>9
  <2>11. QED
    BY <2>10
<1>5. CASE WholeSections(n, len, r.offset)
  <2>1. PICK q \in Nat \ {0}, a \in Nat : r.offset = (n * q) * a
    BY <1>5 DEF WholeSections
  <2>2. PICK u \in Nat : u = q * a + k
    <3>1. q * a \in Nat
      OBVIOUS
    <3>2. q * a + k \in Nat
      BY <3>1
    <3>3. QED
      BY <3>2
  <2>3. first = n * u
    <3>1. (n * q) * a + k * n = n * (q * a + k)
      BY Z3T(60)
    <3>2. QED
      BY <1>3, <2>1, <2>2, <3>1, Zenon
  <2>4. (n * u + j) \div n = u /\ (n * u + 0) \div n = u
    <3>1. j \in 0 .. n - 1 /\ 0 \in 0 .. n - 1
      BY <1>1
    <3>2. QED
      BY <3>1, QuotientIs
  <2>5. n * u \in Nat /\ n * u + 0 = n * u
    OBVIOUS
  <2>6. first \in Nat /\ (first + j) \div SectionPages = first \div SectionPages
    BY <1>1, <2>3, <2>4, <2>5
  <2>7. QED
    BY <2>6
<1>6. WithinSection(n, len, r.offset) \/ WholeSections(n, len, r.offset)
  BY <1>1, <1>2, SectionsOfSized, Zenon
<1>7. QED
  BY <1>4, <1>5, <1>6, Zenon

LEMMA SliceIndexes ==
  ASSUME NEW r, Sized(r), NEW k \in Nat, NEW i \in Nat, NEW j \in Nat,
         i < SectionPages, k * SectionPages + i < r.length,
         j < SectionPages, k * SectionPages + j < r.length,
         NEW first, first = r.offset + k * SectionPages
  PROVE  /\ first \in Nat /\ l1_index(first + j) = l1_index(first)
         /\ l2_index(first + i) = l2_index(first + j) => i = j
<1>1. PICK n \in Nat \ {0} : n = SectionPages
  BY MmuSizes
<1>2. /\ first \in Nat /\ (first + j) \div n = first \div n
      /\ (first + i) \div n = first \div n
  BY <1>1, SliceInSection
<1>3. l1_index(first + j) = l1_index(first)
  BY <1>1, <1>2 DEF l1_index
<1>4. ASSUME l2_index(first + i) = l2_index(first + j) PROVE i = j
  <2>1. PICK c \in Nat : c = first \div n
    BY <1>2, Quotient
  <2>2. PICK a \in Nat : a = first + i
    BY <1>2
  <2>3. PICK b \in Nat : b = first + j
    BY <1>2
  <2>4. a = n * (a \div n) + (a % n) /\ b = n * (b \div n) + (b % n)
    BY Quotient
  <2>5. a \div n = b \div n /\ a % n = b % n
    BY <1>1, <1>2, <1>4, <2>2, <2>3 DEF l2_index
  <2>6. a = b
    BY <2>4, <2>5, Zenon
  <2>7. QED
    BY <1>2, <2>2, <2>3, <2>6
<1>5. QED
  BY <1>2, <1>3, <1>4
-----------------------------------------------------------------------------
(***************************************************************************)
(* The machine: entries, and what the tables translate.                    *)
(***************************************************************************)
\* The entry that L1 entry i has for page e of its section.
At(m, i, e) ==
  IF m.l1[i].type = "Fault" THEN NoPage
  ELSE IF m.l1[i].type = "Section" THEN m.l1[i].base * SectionPages + e
  ELSE m.tables[m.l1[i].table][e]

\* Tables have run out, which is never forgotten.
Flagged(m) == "exhausted" \in DOMAIN m /\ m.exhausted = TRUE

\* Every table that is linked is marked, and linked once.
TablesLinked(m) ==
  /\ m \in Machines /\ m.exhausted = FALSE
  /\ 0 .. m.l2.slabs - 1 \subseteq Tables
  /\ \A i \in L1s : m.l1[i].type = "L2Ptr" => m.l1[i].table \in m.l2.bits \cap Tables
  /\ \A i, j \in L1s : i # j /\ m.l1[i].type = "L2Ptr" /\ m.l1[j].type = "L2Ptr"
                         => m.l1[i].table # m.l1[j].table

SameBrokers(c, m) == c.phys = m.phys /\ c.virt = m.virt

L1Tables == [L1s -> Entries]
L2Tables == [Tables -> [L2s -> Nat \cup {NoPage}]]
Slabs == [bits : SUBSET Nat, slabs : Nat]

LEMMA MachineFields ==
  ASSUME NEW m \in Machines
  PROVE  /\ m.phys \in Brokers /\ m.virt \in Brokers /\ m.l1 \in L1Tables
         /\ m.tables \in L2Tables /\ m.l2 \in Slabs /\ m.spare \in Nat \cup {NoTable}
         /\ m.exhausted \in BOOLEAN /\ m.panicked \in BOOLEAN
BY DEF Machines, L1Tables, L2Tables, Slabs, L1s, L2s

LEMMA MachineWith ==
  ASSUME NEW m \in Machines
  PROVE  /\ \A x \in L1Tables : [m EXCEPT !.l1 = x] \in Machines
         /\ \A x \in L2Tables : [m EXCEPT !.tables = x] \in Machines
         /\ \A x \in Slabs : [m EXCEPT !.l2 = x] \in Machines
         /\ \A x \in BOOLEAN : [m EXCEPT !.exhausted = x] \in Machines
         /\ \A x \in BOOLEAN : [m EXCEPT !.panicked = x] \in Machines
         /\ \A x \in Brokers : [m EXCEPT !.phys = x] \in Machines
         /\ \A x \in Brokers : [m EXCEPT !.virt = x] \in Machines
BY DEF Machines, L1Tables, L2Tables, Slabs, L1s, L2s

LEMMA EntryTypes ==
  ASSUME NEW e \in Entries
  PROVE  /\ e.type \in {"Fault", "Section", "L2Ptr"}
         /\ e.type = "Fault" => e = Fault
         /\ e.type = "Section" => e.base \in Nat
         /\ e.type = "L2Ptr" => e.table \in Nat
BY DEF Entries, Fault

LEMMA AtIsNumber ==
  ASSUME NEW m, TablesLinked(m), NEW i \in L1s, NEW e \in L2s
  PROVE  /\ At(m, i, e) \in Nat \cup {NoPage}
         /\ m.l1[i].type = "Section" => At(m, i, e) \in Nat
<1>1. m.l1[i] \in Entries /\ m.tables \in L2Tables
  BY MachineFields DEF TablesLinked, L1Tables
<1>2. CASE m.l1[i].type = "Fault"
  BY <1>2 DEF At
<1>3. CASE m.l1[i].type = "Section"
  <2>1. m.l1[i].base \in Nat /\ SectionPages \in Nat /\ e \in Nat
    BY <1>1, <1>3, EntryTypes, MmuSizes DEF L2s
  <2>2. m.l1[i].base * SectionPages \in Nat
    BY <2>1
  <2>3. m.l1[i].base * SectionPages + e \in Nat
    BY <2>1, <2>2
  <2>4. At(m, i, e) = m.l1[i].base * SectionPages + e
    BY <1>3 DEF At
  <2>5. QED
    BY <2>3, <2>4
<1>4. CASE m.l1[i].type = "L2Ptr"
  <2>1. m.l1[i].table \in Tables
    BY <1>4 DEF TablesLinked
  <2>2. m.tables[m.l1[i].table][e] \in Nat \cup {NoPage}
    BY <1>1, <2>1 DEF L2Tables
  <2>3. QED
    BY <1>4, <2>2 DEF At
<1>5. QED
  BY <1>1, <1>2, <1>3, <1>4, EntryTypes

LEMMA WalkIsAt ==
  ASSUME NEW m \in Machines, NEW p \in Nat
  PROVE  Walk(m, p) = At(m, l1_index(p), l2_index(p))
<1>1. l1_index(p) \in L1s
  BY Indexes
<1>2. m.l1[l1_index(p)].type \in {"Fault", "Section", "L2Ptr"}
  BY <1>1, MachineFields, EntryTypes DEF L1Tables
<1>3. QED
  BY <1>2 DEF Walk, At
-----------------------------------------------------------------------------
(***************************************************************************)
(* L2 tables that are taken and linked.                                    *)
(***************************************************************************)
LEMMA FlaggedStays ==
  ASSUME NEW m, Flagged(m)
  PROVE  /\ Flagged(Panic(m))
         /\ \A x : Flagged([m EXCEPT !.phys = x])
         /\ \A x : Flagged([m EXCEPT !.virt = x])
         /\ \A x : Flagged([m EXCEPT !.tables = x])
         /\ \A x : Flagged([m EXCEPT !.l1 = x])
BY DEF Flagged, Panic

LEMMA FlaggedTaken ==
  ASSUME NEW m, Flagged(m)
  PROVE  Flagged(TakeTable(m).m)
<1>1. CASE FreeBits(m.l2) = {}
  BY <1>1 DEF TakeTable
<1>2. CASE FreeBits(m.l2) # {}
  <2>1. TakeTable(m).m = [m EXCEPT !.l2 = set_bit(m.l2, FirstBit(m.l2)),
                                   !.exhausted = @ \/ FirstBit(m.l2) >= WordBits]
    BY <1>2 DEF TakeTable
  <2>2. QED
    BY <2>1 DEF Flagged
<1>3. QED
  BY <1>1, <1>2

LEMMA FlaggedReserved ==
  ASSUME NEW more, NEW m, Flagged(m)
  PROVE  Flagged(ReserveTable(more, m).m)
<1>1. CASE FreeBits(m.l2) # {}
  BY <1>1, FlaggedTaken DEF ReserveTable
<1>2. CASE FreeBits(m.l2) = {}
  BY <1>2 DEF ReserveTable, Exhausted, Flagged
<1>3. QED
  BY <1>1, <1>2

LEMMA FlaggedLinked ==
  ASSUME NEW got, Flagged(got.m), NEW index
  PROVE  Flagged(Linked(got, index).m)
<1>1. CASE got.table = NoTable
  BY <1>1 DEF Linked
<1>2. CASE got.table # NoTable
  <2>1. Linked(got, index).m = [got.m EXCEPT !.tables[got.table] = EmptyTable,
                                             !.l1[index] = L2Ptr(got.table)]
    BY <1>2 DEF Linked
  <2>2. QED
    BY <2>1 DEF Flagged
<1>3. QED
  BY <1>1, <1>2

\* Table t is taken and nothing else.
TableTaken(c, m, t) ==
  /\ c \in Machines /\ c.exhausted = FALSE /\ c.panicked = m.panicked /\ SameBrokers(c, m)
  /\ c.l2.bits = m.l2.bits \cup {t} /\ c.l2.slabs = m.l2.slabs
  /\ c.l1 = m.l1 /\ c.tables = m.tables

LEMMA TakeTableTakes ==
  ASSUME NEW m, TablesLinked(m), FreeBits(m.l2) # {}
  PROVE  \/ Flagged(TakeTable(m).m)
         \/ /\ TakeTable(m).table \in Tables /\ TakeTable(m).table \notin m.l2.bits
            /\ TableTaken(TakeTable(m).m, m, TakeTable(m).table)
<1>1. PICK t : t = FirstBit(m.l2)
  OBVIOUS
<1>2. m \in Machines /\ m.l2 \in Slabs /\ m.exhausted = FALSE
  BY MachineFields DEF TablesLinked
<1>3. t \in FreeBits(m.l2)
  <2>1. FreeBits(m.l2) \subseteq Nat
    BY <1>2 DEF FreeBits, Slabs
  <2>2. \E i \in FreeBits(m.l2) : \A j \in FreeBits(m.l2) : i <= j
    BY <2>1, LeastElement
  <2>3. QED
    BY <1>1, <2>2 DEF FirstBit
<1>4. t \in Tables /\ t \in Nat /\ WordBits \in Nat
  BY <1>2, <1>3, PageAllocatorAssumption DEF FreeBits, TablesLinked, Slabs
<1>5. PICK l : l = set_bit(m.l2, t)
  OBVIOUS
<1>6. /\ TakeTable(m).table = t
      /\ TakeTable(m).m = [m EXCEPT !.l2 = l, !.exhausted = @ \/ t >= WordBits]
  BY <1>1, <1>5 DEF TakeTable
<1>7. CASE t >= WordBits
  BY <1>2, <1>6, <1>7 DEF Flagged, Machines
<1>8. CASE ~(t >= WordBits)
  <2>1. t < WordBits /\ t \notin m.l2.bits
    BY <1>3, <1>4, <1>8 DEF FreeBits, bit
  <2>2. l = [m.l2 EXCEPT !.bits = @ \cup {t}]
    BY <1>5, <2>1 DEF set_bit
  <2>3. l \in Slabs /\ l.bits = m.l2.bits \cup {t} /\ l.slabs = m.l2.slabs
    BY <1>2, <1>4, <2>2 DEF Slabs
  <2>4. [m EXCEPT !.l2 = l] \in Machines
    BY <1>2, <2>3, MachineWith
  <2>5. TakeTable(m).m = [m EXCEPT !.l2 = l]
    <3>1. (m.exhausted \/ t >= WordBits) = m.exhausted
      BY <1>2, <1>8
    <3>2. TakeTable(m).m = [m EXCEPT !.l2 = l, !.exhausted = m.exhausted]
      BY <1>6, <3>1
    <3>3. [m EXCEPT !.l2 = l, !.exhausted = m.exhausted] = [m EXCEPT !.l2 = l]
      BY <1>2 DEF Machines
    <3>4. QED
      BY <3>2, <3>3
  <2>6. /\ [m EXCEPT !.l2 = l].l2 = l /\ [m EXCEPT !.l2 = l].l1 = m.l1
        /\ [m EXCEPT !.l2 = l].tables = m.tables /\ [m EXCEPT !.l2 = l].phys = m.phys
        /\ [m EXCEPT !.l2 = l].virt = m.virt /\ [m EXCEPT !.l2 = l].panicked = m.panicked
        /\ [m EXCEPT !.l2 = l].exhausted = m.exhausted
    BY <1>2 DEF Machines
  <2>7. TableTaken(TakeTable(m).m, m, t)
    BY <1>2, <2>3, <2>4, <2>5, <2>6 DEF TableTaken, SameBrokers
  <2>8. QED
    BY <1>4, <1>6, <2>1, <2>7
<1>9. QED
  BY <1>7, <1>8

\* A table has been found, or made, for L1 entry index, and nothing is translated otherwise.
TableFound(c, m, index, table) ==
  /\ TablesLinked(c) /\ SameBrokers(c, m) /\ c.panicked = m.panicked
  /\ table \in Tables /\ c.l1[index].type = "L2Ptr" /\ c.l1[index].table = table
  /\ \A i \in L1s, e \in L2s : At(c, i, e) = At(m, i, e)

LEMMA LinkedTable ==
  ASSUME NEW m, TablesLinked(m), NEW index \in L1s, m.l1[index].type = "Fault",
         NEW got, NEW t \in Tables, got.table = t, t \notin m.l2.bits, TableTaken(got.m, m, t)
  PROVE  TableFound(Linked(got, index).m, m, index, t) /\ Linked(got, index).table = t
<1>1. t \in Nat /\ t # NoTable
  BY MmuSizes DEF Tables, NoTable
<1>2. PICK c : c = [got.m EXCEPT !.tables[t] = EmptyTable, !.l1[index] = L2Ptr(t)]
  OBVIOUS
<1>3. Linked(got, index).m = c /\ Linked(got, index).table = t
  BY <1>1, <1>2 DEF Linked
<1>4. /\ m \in Machines /\ m.l1 \in L1Tables /\ m.tables \in L2Tables /\ m.l2 \in Slabs
      /\ got.m \in Machines /\ got.m.l1 = m.l1 /\ got.m.tables = m.tables
      /\ got.m.exhausted = FALSE /\ got.m.l2 \in Slabs
  BY MachineFields DEF TablesLinked, TableTaken
<1>5. PICK x : x = [m.tables EXCEPT ![t] = EmptyTable]
  OBVIOUS
<1>6. PICK y : y = [m.l1 EXCEPT ![index] = L2Ptr(t)]
  OBVIOUS
<1>7. EmptyTable \in [L2s -> Nat \cup {NoPage}] /\ L2Ptr(t) \in Entries
  BY <1>1 DEF EmptyTable, L2s, L2Ptr, Entries
<1>8. x \in L2Tables /\ y \in L1Tables
  BY <1>4, <1>5, <1>6, <1>7 DEF L2Tables, L1Tables
<1>9. c = [[got.m EXCEPT !.tables = x] EXCEPT !.l1 = y]
  BY <1>2, <1>4, <1>5, <1>6 DEF Machines
<1>10. PICK a : a = [got.m EXCEPT !.tables = x]
  OBVIOUS
<1>11. a \in Machines /\ c = [a EXCEPT !.l1 = y]
  BY <1>4, <1>8, <1>9, <1>10, MachineWith
<1>12. c \in Machines
  BY <1>8, <1>11, MachineWith
<1>13. /\ c.l1 = y /\ c.tables = x /\ c.phys = got.m.phys /\ c.virt = got.m.virt
       /\ c.panicked = got.m.panicked /\ c.exhausted = FALSE /\ c.l2 = got.m.l2
  BY <1>4, <1>10, <1>11 DEF Machines
<1>14. /\ y[index].type = "L2Ptr" /\ y[index].table = t
       /\ \A i \in L1s : i # index => y[i] = m.l1[i]
  BY <1>4, <1>6 DEF L1Tables, L2Ptr
<1>15. /\ \A e \in L2s : x[t][e] = NoPage
       /\ \A u \in Tables : u # t => x[u] = m.tables[u]
  BY <1>4, <1>5 DEF L2Tables, EmptyTable, L2s
<1>16. TablesLinked(c)
  <2>1. 0 .. c.l2.slabs - 1 \subseteq Tables /\ c.l2.bits = m.l2.bits \cup {t}
    BY <1>13 DEF TablesLinked, TableTaken
  <2>2. \A i \in L1s : c.l1[i].type = "L2Ptr" => c.l1[i].table \in c.l2.bits \cap Tables
    BY <1>13, <1>14, <2>1 DEF TablesLinked
  <2>3. \A i, j \in L1s : i # j /\ c.l1[i].type = "L2Ptr" /\ c.l1[j].type = "L2Ptr"
                            => c.l1[i].table # c.l1[j].table
    BY <1>13, <1>14 DEF TablesLinked
  <2>4. QED
    BY <1>12, <1>13, <2>1, <2>2, <2>3 DEF TablesLinked
<1>17. ASSUME NEW i \in L1s, NEW e \in L2s PROVE At(c, i, e) = At(m, i, e)
  <2>1. CASE i = index
    BY <1>13, <1>14, <1>15, <2>1 DEF At
  <2>2. CASE i # index
    <3>1. c.l1[i] = m.l1[i]
      BY <1>13, <1>14, <2>2
    <3>2. m.l1[i].type = "L2Ptr" => m.l1[i].table \in Tables /\ m.l1[i].table # t
      BY DEF TablesLinked
    <3>3. m.l1[i].type \in {"Fault", "Section", "L2Ptr"}
      BY <1>4, EntryTypes DEF L1Tables
    <3>4. QED
      BY <1>13, <1>15, <3>1, <3>2, <3>3 DEF At
  <2>3. QED
    BY <2>1, <2>2
<1>18. SameBrokers(c, m) /\ c.panicked = m.panicked
  BY <1>13 DEF SameBrokers, TableTaken
<1>19. QED
  BY <1>3, <1>13, <1>14, <1>16, <1>17, <1>18 DEF TableFound

LEMMA TableForFinds ==
  ASSUME NEW m, TablesLinked(m), NEW index \in L1s, m.l1[index].type # "Section",
         NEW more, NEW got, got = TableFor(more, m, index, NoTable)
  PROVE  Flagged(got.m) \/ TableFound(got.m, m, index, got.table)
<1>1. m.l1[index].type \in {"Fault", "L2Ptr"}
  BY MachineFields, EntryTypes DEF TablesLinked, L1Tables
<1>2. CASE m.l1[index].type = "L2Ptr"
  <2>1. got.m = m /\ got.table = m.l1[index].table
    BY <1>2 DEF TableFor
  <2>2. got.table \in Tables
    BY <1>2, <2>1 DEF TablesLinked
  <2>3. QED
    BY <1>2, <2>1, <2>2 DEF TableFound, SameBrokers
<1>3. CASE m.l1[index].type = "Fault"
  <2>1. PICK had : had = ReserveTable(more, m)
    OBVIOUS
  <2>2. got = Linked(had, index)
    BY <1>3, <2>1 DEF TableFor
  <2>3. CASE Flagged(had.m)
    BY <2>2, <2>3, FlaggedLinked
  <2>4. CASE ~Flagged(had.m)
    <3>1. FreeBits(m.l2) # {}
      BY <2>1, <2>4 DEF ReserveTable, Exhausted, Flagged
    <3>2. had = TakeTable(m)
      BY <2>1, <3>1 DEF ReserveTable
    <3>3. had.table \in Tables /\ had.table \notin m.l2.bits /\ TableTaken(had.m, m, had.table)
      BY <2>4, <3>1, <3>2, TakeTableTakes
    <3>4. QED
      BY <1>3, <2>2, <3>3, LinkedTable
  <2>5. QED
    BY <2>3, <2>4
<1>4. QED
  BY <1>1, <1>2, <1>3
-----------------------------------------------------------------------------
(***************************************************************************)
(* Filling a table.                                                        *)
(***************************************************************************)
EntriesOf(first, count) == {l2_index(first + i) : i \in 0 .. count - 1}

OneEntryEach(first, count) ==
  \A i, j \in 0 .. count - 1 : l2_index(first + i) = l2_index(first + j) => i = j

\* The entries for count pages from first on are written, unless one is there already.
Filled(c, m, index, phys, first, count) ==
  /\ TablesLinked(c) /\ SameBrokers(c, m)
  /\ \A i \in L1s, e \in L2s : At(m, i, e) # NoPage => At(c, i, e) = At(m, i, e)
  /\ \A i \in L1s, e \in L2s : i # index \/ e \notin EntriesOf(first, count)
                                 => At(c, i, e) = At(m, i, e)
  /\ \/ c.panicked /\ \E e \in EntriesOf(first, count) : At(m, index, e) # NoPage
     \/ /\ c.panicked = m.panicked
        /\ OneEntryEach(first, count) =>
             \A i \in 0 .. count - 1 : At(c, index, l2_index(first + i)) = phys + i

\* A panic changes nothing but that it is remembered.
Panicked(c, m) ==
  /\ TablesLinked(c) /\ SameBrokers(c, m) /\ c.panicked = TRUE
  /\ \A i, e : At(c, i, e) = At(m, i, e)

LEMMA PanicKeeps ==
  ASSUME NEW m, TablesLinked(m)
  PROVE  Panicked(Panic(m), m)
<1>1. m \in Machines
  BY DEF TablesLinked
<1>2. PICK c : c = Panic(m)
  OBVIOUS
<1>3. c \in Machines
  BY <1>1, <1>2, MachineWith DEF Panic
<1>4. /\ c.l1 = m.l1 /\ c.tables = m.tables /\ c.l2 = m.l2 /\ c.phys = m.phys /\ c.virt = m.virt
      /\ c.exhausted = m.exhausted /\ c.panicked = TRUE
  BY <1>1, <1>2 DEF Panic, Machines
<1>5. Panicked(c, m)
  BY <1>3, <1>4 DEF Panicked, TablesLinked, SameBrokers, At
<1>6. QED
  BY <1>2, <1>5

LEMMA FillTableFills ==
  ASSUME NEW m, TablesLinked(m), NEW index \in L1s, m.l1[index].type = "L2Ptr",
         NEW table, table = m.l1[index].table, NEW phys \in Nat, NEW first \in Nat,
         NEW count \in Nat, NEW c, c = FillTable(m, table, phys, first, count)
  PROVE  Filled(c, m, index, phys, first, count)
<1>1. m \in Machines /\ m.tables \in L2Tables /\ table \in Tables
  BY MachineFields DEF TablesLinked
<1>2. PICK E : E = EntriesOf(first, count)
  OBVIOUS
<1>3. E \subseteq L2s
  <2>1. \A i \in 0 .. count - 1 : first + i \in Nat
    OBVIOUS
  <2>2. QED
    BY <1>2, <2>1, Indexes DEF EntriesOf
<1>4. \A e \in L2s : At(m, index, e) = m.tables[table][e]
  BY DEF At
<1>5. CASE \E e \in E : m.tables[table][e] # NoPage
  <2>1. c = Panic(m)
    BY <1>2, <1>5 DEF FillTable, EntriesOf
  <2>2. \E e \in E : At(m, index, e) # NoPage
    BY <1>3, <1>4, <1>5
  <2>3. /\ TablesLinked(c) /\ SameBrokers(c, m) /\ c.panicked = TRUE
        /\ \A i, e : At(c, i, e) = At(m, i, e)
    <3>1. Panicked(Panic(m), m)
      BY PanicKeeps
    <3>2. QED
      BY <2>1, <3>1 DEF Panicked
  <2>4. QED
    BY <1>2, <2>2, <2>3 DEF Filled
<1>6. CASE ~(\E e \in E : m.tables[table][e] # NoPage)
  <2>1. PICK F : F = [e \in L2s |-> IF e \in E
                       THEN phys + CHOOSE i \in 0 .. count - 1 : l2_index(first + i) = e
                       ELSE m.tables[table][e]]
    OBVIOUS
  <2>2. PICK x : x = [m.tables EXCEPT ![table] = F]
    OBVIOUS
  <2>3. DOMAIN m.tables[table] = L2s
    BY <1>1 DEF L2Tables
  <2>4. c = [m EXCEPT !.tables[table] = F]
    <3>1. ~(\E e \in {l2_index(first + i) : i \in 0 .. count - 1} :
               m.tables[table][e] # NoPage)
      BY <1>2, <1>6 DEF EntriesOf
    <3>2. PICK G : G = [e \in DOMAIN m.tables[table] |->
                          IF e \in {l2_index(first + i) : i \in 0 .. count - 1}
                          THEN phys + CHOOSE i \in 0 .. count - 1 : l2_index(first + i) = e
                          ELSE m.tables[table][e]]
      OBVIOUS
    <3>3. c = [m EXCEPT !.tables[table] = G]
      BY <1>1, <3>1, <3>2 DEF FillTable, Machines
    <3>4. G = F
      <4>1. \A e : e \in E <=> e \in {l2_index(first + i) : i \in 0 .. count - 1}
        BY <1>2 DEF EntriesOf
      <4>2. \A e \in L2s : G[e] = F[e]
        BY <2>1, <2>3, <3>2, <4>1
      <4>3. QED
        BY <2>1, <2>3, <3>2, <4>2
    <3>5. QED
      BY <3>3, <3>4
  <2>5. c = [m EXCEPT !.tables = x]
    BY <1>1, <2>2, <2>4 DEF Machines
  <2>6. \A e \in E : F[e] \in Nat
    <3> TAKE e \in E
    <3>1. \E i \in 0 .. count - 1 : l2_index(first + i) = e
      BY <1>2 DEF EntriesOf
    <3>2. PICK i \in 0 .. count - 1 : i = CHOOSE j \in 0 .. count - 1 : l2_index(first + j) = e
      BY <3>1
    <3>3. F[e] = phys + i
      BY <1>3, <2>1, <3>2
    <3>4. QED
      BY <3>2, <3>3
  <2>7. \A e \in L2s : e \notin E => F[e] = m.tables[table][e]
    BY <2>1
  <2>8. F \in [L2s -> Nat \cup {NoPage}]
    <3>1. \A e \in L2s : F[e] \in Nat \cup {NoPage}
      BY <1>1, <2>6, <2>7 DEF L2Tables
    <3>2. F = [e \in L2s |-> F[e]]
      BY <2>1
    <3>3. QED
      BY <3>1, <3>2
  <2>9. x \in L2Tables /\ x[table] = F /\ \A t \in Tables : t # table => x[t] = m.tables[t]
    BY <1>1, <2>2, <2>8 DEF L2Tables
  <2>10. c \in Machines
    BY <1>1, <2>5, <2>9, MachineWith
  <2>11. /\ c.tables = x /\ c.l1 = m.l1 /\ c.l2 = m.l2 /\ c.phys = m.phys /\ c.virt = m.virt
         /\ c.exhausted = m.exhausted /\ c.panicked = m.panicked
    BY <1>1, <2>5 DEF Machines
  <2>12. TablesLinked(c) /\ SameBrokers(c, m)
    BY <2>10, <2>11 DEF TablesLinked, SameBrokers
  <2>13. \A i \in L1s, e \in L2s : i # index => At(c, i, e) = At(m, i, e)
    <3> SUFFICES ASSUME NEW i \in L1s, NEW e \in L2s, i # index
                 PROVE  At(c, i, e) = At(m, i, e)
      OBVIOUS
    <3>1. m.l1[i].type = "L2Ptr" => m.l1[i].table \in Tables /\ m.l1[i].table # table
      BY DEF TablesLinked
    <3>2. m.l1[i].type \in {"Fault", "Section", "L2Ptr"}
      BY <1>1, MachineFields, EntryTypes DEF L1Tables
    <3>3. QED
      BY <2>9, <2>11, <3>1, <3>2 DEF At
  <2>14. \A e \in L2s : At(c, index, e) = F[e]
    BY <2>9, <2>11 DEF At
  <2>15. \A e \in L2s : e \notin E => At(c, index, e) = At(m, index, e)
    BY <1>4, <2>7, <2>14
  <2>16. \A i \in L1s, e \in L2s : At(m, i, e) # NoPage => At(c, i, e) = At(m, i, e)
    <3>1. \A e \in E : At(m, index, e) = NoPage
      BY <1>3, <1>4, <1>6
    <3>2. QED
      BY <2>13, <2>15, <3>1
  <2>17. ASSUME OneEntryEach(first, count), NEW i \in 0 .. count - 1
         PROVE  At(c, index, l2_index(first + i)) = phys + i
    <3>1. PICK e : e = l2_index(first + i)
      OBVIOUS
    <3>2. e \in E /\ e \in L2s
      BY <1>2, <1>3, <3>1 DEF EntriesOf
    <3>3. i = CHOOSE j \in 0 .. count - 1 : l2_index(first + j) = e
      BY <2>17, <3>1 DEF OneEntryEach
    <3>4. F[e] = phys + i
      BY <2>1, <3>2, <3>3
    <3>5. QED
      BY <2>14, <3>1, <3>2, <3>4
  <2>18. QED
    BY <1>2, <2>11, <2>12, <2>13, <2>15, <2>16, <2>17 DEF Filled
<1>7. QED
  BY <1>5, <1>6

LEMMA FlaggedFilled ==
  ASSUME NEW m, Flagged(m), NEW table, NEW phys, NEW first, NEW count
  PROVE  Flagged(FillTable(m, table, phys, first, count))
<1>1. \A F : Flagged([m EXCEPT !.tables[table] = F])
  BY DEF Flagged
<1>2. QED
  BY <1>1, FlaggedStays DEF FillTable
-----------------------------------------------------------------------------
(***************************************************************************)
(* What recording pages writes.                                            *)
(***************************************************************************)
\* No page of region virt is translated.
Untranslated(m, virt) ==
  Sized(virt) /\ \A p \in PagesOf(virt) : p < Reach /\ Walk(m, p) = NoPage

Extends(c, m) == \A i \in L1s, e \in L2s : At(m, i, e) # NoPage => At(c, i, e) = At(m, i, e)

\* Pages virt.offset to virt.offset + count - 1 are translated, and no other page anew.
Translated(c, m, phys, virt, count) ==
  /\ \A j \in 0 .. count - 1 : Walk(c, virt.offset + j) = phys.offset + j
  /\ \A p \in 0 .. Reach - 1 :
       p \notin virt.offset .. virt.offset + count - 1 => Walk(c, p) = Walk(m, p)

\* What recording has done after count pages, if tables did not run out.
Written(s, m, phys, virt, count) ==
  \/ Flagged(s.m)
  \/ /\ TablesLinked(s.m) /\ SameBrokers(s.m, m) /\ Extends(s.m, m)
     /\ s.ok = TRUE \/ s.m.panicked = TRUE
     /\ Untranslated(m, virt) =>
          s.ok = TRUE /\ s.m.panicked = FALSE /\ Translated(s.m, m, phys, virt, count)

LEMMA EntriesToWalk ==
  ASSUME NEW len \in Nat
  PROVE  /\ L1EntriesToWalk(len) \in Nat
         /\ \A k \in Nat : k < L1EntriesToWalk(len) => k * SectionPages < len
         /\ len <= L1EntriesToWalk(len) * SectionPages
<1>1. PICK n \in Nat \ {0} : n = SectionPages
  BY MmuSizes
<1>2. PICK q \in Nat, r \in 0 .. n - 1 : q = L1EntriesToWalk(len) /\ len + n - 1 = n * q + r
  <2>1. len + n - 1 \in Nat
    OBVIOUS
  <2>2. PICK a \in Nat : a = len + n - 1
    BY <2>1
  <2>3. a = n * (a \div n) + (a % n) /\ a \div n \in Nat /\ a % n \in 0 .. n - 1
    BY Quotient
  <2>4. L1EntriesToWalk(len) = a \div n
    BY <1>1, <2>2 DEF L1EntriesToWalk, divide_up
  <2>5. QED
    BY <2>2, <2>3, <2>4
<1>3. n * q = q * n /\ q * n \in Nat
  OBVIOUS
<1>4. len <= q * n
  BY <1>2, <1>3
<1>5. ASSUME NEW k \in Nat, k < q PROVE k * n < len
  <2>1. PICK w \in Nat : q = k + 1 + w
    <3>1. q - k - 1 \in Nat /\ q = k + 1 + (q - k - 1)
      BY <1>5
    <3>2. QED
      BY <3>1
  <2>2. (k + 1 + w) * n = k * n + n + w * n /\ w * n \in Nat /\ k * n \in Nat
    BY Z3T(60)
  <2>3. q * n = k * n + n + w * n
    BY <2>1, <2>2, Zenon
  <2>4. QED
    BY <1>2, <1>3, <2>2, <2>3
<1>6. QED
  BY <1>1, <1>2, <1>4, <1>5

LEMMA FlaggedEntry ==
  ASSUME NEW more, NEW s, Flagged(s.m), NEW k, NEW phys, NEW virt,
         NEW t, t = RecordEntry(more, s, k, phys, virt, NoTable)
  PROVE  Flagged(t.m)
<1>1. PICK index : index = l1_index(virt.offset + k * SectionPages)
  OBVIOUS
<1>2. PICK got : got = TableFor(more, s.m, index, NoTable)
  OBVIOUS
<1>3. Flagged(got.m)
  <2>1. CASE s.m.l1[index].type = "L2Ptr"
    BY <1>2, <2>1 DEF TableFor
  <2>2. CASE s.m.l1[index].type # "L2Ptr"
    <3>1. got = Linked(ReserveTable(more, s.m), index)
      BY <1>2, <2>2 DEF TableFor
    <3>2. QED
      BY <3>1, FlaggedReserved, FlaggedLinked
  <2>3. QED
    BY <2>1, <2>2
<1>4. Flagged(Panic(s.m))
  BY FlaggedStays
<1>5. \A a, b, c, d : Flagged(FillTable(got.m, a, b, c, d))
  BY <1>3, FlaggedFilled
<1>6. QED
  BY <1>1, <1>2, <1>3, <1>4, <1>5 DEF RecordEntry

LEMMA ExtendsFurther ==
  ASSUME NEW a, NEW b, NEW c, Extends(b, a), Extends(c, b)
  PROVE  Extends(c, a)
BY DEF Extends

\* The pages of a region that one L1 entry translates.
SliceOf(virt, base, count, k) ==
  /\ k \in Nat /\ base \in Nat /\ base = k * SectionPages /\ base < virt.length
  /\ count = IF virt.length - base < SectionPages THEN virt.length - base ELSE SectionPages

LEMMA SliceNumbers ==
  ASSUME NEW virt \in Regions, NEW k, NEW base, NEW count, SliceOf(virt, base, count, k),
         NEW first, first = virt.offset + base
  PROVE  /\ first \in Nat /\ count \in Nat \ {0} /\ count <= SectionPages
         /\ base + count <= virt.length
         /\ Sized(virt) => OneEntryEach(first, count) /\
                           \A j \in 0 .. count - 1 : l1_index(first + j) = l1_index(first)
<1>1. PICK n \in Nat \ {0} : n = SectionPages
  BY MmuSizes
<1>2. virt.offset \in Nat /\ virt.length \in Nat
  BY DEF Regions
<1>3. /\ k \in Nat /\ base \in Nat /\ base = k * SectionPages /\ base < virt.length
      /\ count = IF virt.length - base < n THEN virt.length - base ELSE n
  BY <1>1 DEF SliceOf
<1>4. first \in Nat /\ count \in Nat \ {0} /\ count <= n /\ base + count <= virt.length
  BY <1>2, <1>3
<1>5. ASSUME Sized(virt), NEW i \in 0 .. count - 1, NEW j \in 0 .. count - 1
      PROVE  /\ l1_index(first + j) = l1_index(first)
             /\ l2_index(first + i) = l2_index(first + j) => i = j
  <2>1. /\ i \in Nat /\ j \in Nat /\ i < SectionPages /\ j < SectionPages
        /\ base + i < virt.length /\ base + j < virt.length
    BY <1>1, <1>2, <1>3, <1>4
  <2>2. /\ k * SectionPages + i < virt.length /\ k * SectionPages + j < virt.length
        /\ first = virt.offset + k * SectionPages
    BY <1>3, <2>1
  <2>3. QED
    BY <1>3, <1>5, <2>1, <2>2, SliceIndexes
<1>6. QED
  BY <1>1, <1>4, <1>5 DEF OneEntryEach

\* A slice of a region that is not translated is not translated before its turn.
LEMMA SliceIsUnmapped ==
  ASSUME NEW m, NEW c, NEW phys, NEW virt \in Regions, NEW base \in Nat,
         NEW j \in Nat, base + j < virt.length,
         Untranslated(m, virt), Translated(c, m, phys, virt, base)
  PROVE  /\ (virt.offset + base) + j \in 0 .. Reach - 1
         /\ Walk(c, (virt.offset + base) + j) = NoPage
<1>1. virt.offset \in Nat /\ virt.length \in Nat
  BY DEF Regions
<1>2. PICK p \in Nat : p = (virt.offset + base) + j
  BY <1>1
<1>3. p \in PagesOf(virt) /\ p \notin virt.offset .. virt.offset + base - 1
  BY <1>1, <1>2 DEF PagesOf, EndOffset
<1>4. p < Reach /\ Walk(m, p) = NoPage
  BY <1>3 DEF Untranslated
<1>5. p \in 0 .. Reach - 1
  <2>1. Reach \in Int
    BY MmuSizes DEF Reach
  <2>2. QED
    BY <1>4, <2>1
<1>6. Walk(c, p) = NoPage
  BY <1>3, <1>4, <1>5 DEF Translated
<1>7. QED
  BY <1>2, <1>5, <1>6

LEMMA SliceIsWritten ==
  ASSUME NEW m, TablesLinked(m), NEW s, TablesLinked(s), NEW c,
         NEW phys \in Regions, NEW virt \in Regions,
         NEW k, NEW base, NEW count, SliceOf(virt, base, count, k),
         NEW first, first = virt.offset + base, NEW index, index = l1_index(first),
         Untranslated(m, virt), Translated(s, m, phys, virt, base),
         Filled(c, s, index, phys.offset + base, first, count)
  PROVE  c.panicked = s.panicked /\ Translated(c, m, phys, virt, base + count)
<1>1. /\ virt.offset \in Nat /\ virt.length \in Nat /\ phys.offset \in Nat /\ base \in Nat
      /\ Sized(virt) /\ Reach \in Int
  BY MmuSizes DEF Regions, SliceOf, Untranslated, Reach
<1>2. /\ first \in Nat /\ count \in Nat \ {0} /\ base + count <= virt.length
      /\ OneEntryEach(first, count)
      /\ \A j \in 0 .. count - 1 : l1_index(first + j) = index
  BY <1>1, SliceNumbers
<1>3. \A j \in 0 .. count - 1 :
        first + j \in 0 .. Reach - 1 /\ Walk(s, first + j) = NoPage
  <2> TAKE j \in 0 .. count - 1
  <2>1. j \in Nat /\ base + j < virt.length
    BY <1>1, <1>2
  <2>2. QED
    BY <1>1, <2>1, SliceIsUnmapped
<1>4. m \in Machines /\ s \in Machines /\ c \in Machines
  BY DEF TablesLinked, Filled
<1>5. c.panicked = s.panicked
      /\ \A j \in 0 .. count - 1 : At(c, index, l2_index(first + j)) = (phys.offset + base) + j
  <2>1. \A e \in EntriesOf(first, count) : At(s, index, e) = NoPage
    <3> TAKE e \in EntriesOf(first, count)
    <3>1. PICK j \in 0 .. count - 1 : e = l2_index(first + j)
      BY DEF EntriesOf
    <3>2. first + j \in Nat
      BY <1>2
    <3>3. Walk(s, first + j) = At(s, index, e)
      BY <1>2, <1>4, <3>1, <3>2, WalkIsAt
    <3>4. QED
      BY <1>3, <3>3
  <2>2. QED
    BY <1>2, <2>1 DEF Filled
<1>6. ASSUME NEW j \in 0 .. (base + count) - 1
      PROVE  Walk(c, virt.offset + j) = phys.offset + j
  <2>1. PICK p \in Nat : p = virt.offset + j
    BY <1>1
  <2>2. CASE j < base
    <3>1. j \in 0 .. base - 1
      BY <1>1, <2>2
    <3>2. Walk(s, p) = phys.offset + j /\ Walk(s, p) # NoPage
      BY <1>1, <2>1, <3>1 DEF Translated, NoPage
    <3>3. Walk(s, p) = At(s, l1_index(p), l2_index(p))
          /\ Walk(c, p) = At(c, l1_index(p), l2_index(p))
      BY <1>4, WalkIsAt
    <3>4. l1_index(p) \in L1s /\ l2_index(p) \in L2s
      BY Indexes
    <3>5. QED
      BY <2>1, <3>2, <3>3, <3>4 DEF Filled
  <2>3. CASE j >= base
    <3>1. PICK i \in 0 .. count - 1 : j = base + i
      <4>1. j - base \in 0 .. count - 1 /\ j = base + (j - base)
        BY <1>1, <1>2, <2>3
      <4>2. QED
        BY <4>1
    <3>2. p = first + i /\ phys.offset + j = (phys.offset + base) + i
      BY <1>1, <2>1, <3>1
    <3>3. Walk(c, p) = At(c, index, l2_index(first + i))
      BY <1>2, <1>4, <3>1, <3>2, WalkIsAt
    <3>4. QED
      BY <1>5, <2>1, <3>1, <3>2, <3>3
  <2>4. QED
    BY <1>1, <2>2, <2>3
<1>7. ASSUME NEW p \in 0 .. Reach - 1,
             p \notin virt.offset .. virt.offset + (base + count) - 1
      PROVE  Walk(c, p) = Walk(m, p)
  <2>1. p \in Nat /\ l1_index(p) \in L1s /\ l2_index(p) \in L2s
    BY Indexes
  <2>2. p \notin virt.offset .. virt.offset + base - 1
    BY <1>1, <1>2, <1>7
  <2>3. Walk(s, p) = Walk(m, p)
    BY <2>2 DEF Translated
  <2>4. l1_index(p) # index \/ l2_index(p) \notin EntriesOf(first, count)
    <3>1. SUFFICES ASSUME l1_index(p) = index, NEW j \in 0 .. count - 1,
                          l2_index(p) = l2_index(first + j)
                   PROVE  FALSE
      BY DEF EntriesOf
    <3>2. first + j \in 0 .. Reach - 1 /\ l1_index(first + j) = index
      BY <1>2, <1>3
    <3>3. p = first + j
      BY <3>1, <3>2, IndexesOfPage
    <3>4. QED
      BY <1>1, <1>2, <1>7, <3>3
  <2>5. Walk(s, p) = At(s, l1_index(p), l2_index(p))
        /\ Walk(c, p) = At(c, l1_index(p), l2_index(p))
    BY <1>4, <2>1, WalkIsAt
  <2>6. QED
    BY <2>1, <2>3, <2>4, <2>5 DEF Filled
<1>8. QED
  BY <1>5, <1>6, <1>7 DEF Translated

\* Filling a table that was found or made is filling the table before that.
LEMMA FilledAsBefore ==
  ASSUME NEW s, NEW g, NEW c, NEW index \in L1s, NEW table, TableFound(g, s, index, table),
         NEW phys, NEW first \in Nat, NEW count \in Nat, Filled(c, g, index, phys, first, count)
  PROVE  Filled(c, s, index, phys, first, count)
<1>1. /\ SameBrokers(g, s) /\ g.panicked = s.panicked
      /\ \A i \in L1s, e \in L2s : At(g, i, e) = At(s, i, e)
  BY DEF TableFound
<1>2. ASSUME NEW e \in EntriesOf(first, count) PROVE e \in L2s
  <2>1. PICK i \in 0 .. count - 1 : e = l2_index(first + i)
    BY <1>2 DEF EntriesOf
  <2>2. first + i \in Nat
    OBVIOUS
  <2>3. QED
    BY <2>1, <2>2, Indexes
<1>3. SameBrokers(c, s)
  BY <1>1 DEF Filled, SameBrokers
<1>4. \A i \in L1s, e \in L2s : At(s, i, e) # NoPage => At(c, i, e) = At(s, i, e)
  BY <1>1 DEF Filled
<1>5. \A i \in L1s, e \in L2s : i # index \/ e \notin EntriesOf(first, count)
                                 => At(c, i, e) = At(s, i, e)
  BY <1>1 DEF Filled
<1>6. \/ c.panicked /\ \E e \in EntriesOf(first, count) : At(s, index, e) # NoPage
      \/ /\ c.panicked = s.panicked
         /\ OneEntryEach(first, count) =>
              \A i \in 0 .. count - 1 : At(c, index, l2_index(first + i)) = phys + i
  <2>1. CASE c.panicked /\ \E e \in EntriesOf(first, count) : At(g, index, e) # NoPage
    <3>1. PICK e \in EntriesOf(first, count) : At(g, index, e) # NoPage
      BY <2>1
    <3>2. At(s, index, e) = At(g, index, e)
      BY <1>1, <1>2
    <3>3. QED
      BY <2>1, <3>1, <3>2
  <2>2. CASE /\ c.panicked = g.panicked
             /\ OneEntryEach(first, count) =>
                  \A i \in 0 .. count - 1 : At(c, index, l2_index(first + i)) = phys + i
    BY <1>1, <2>2
  <2>3. QED
    BY <2>1, <2>2 DEF Filled
<1>7. QED
  BY <1>3, <1>4, <1>5, <1>6 DEF Filled

LEMMA EntryIsWritten ==
  ASSUME NEW m, TablesLinked(m), m.panicked = FALSE, NEW more,
         NEW phys \in Regions, NEW virt \in Regions,
         NEW k, NEW base, NEW count, SliceOf(virt, base, count, k),
         NEW s, Written(s, m, phys, virt, base),
         NEW t, t = RecordEntry(more, s, k, phys, virt, NoTable)
  PROVE  Written(t, m, phys, virt, base + count)
<1>1. PICK first : first = virt.offset + base
  OBVIOUS
<1>2. PICK index : index = l1_index(first)
  OBVIOUS
<1>3. /\ first \in Nat /\ index \in L1s /\ k \in Nat /\ base \in Nat
      /\ base = k * SectionPages /\ count \in Nat \ {0} /\ base + count <= virt.length
      /\ virt.offset \in Nat /\ virt.length \in Nat /\ phys.offset \in Nat
  BY <1>1, <1>2, SliceNumbers, Indexes DEF SliceOf, Regions
<1>4. CASE Flagged(s.m)
  BY <1>4, FlaggedEntry DEF Written
<1>5. CASE ~Flagged(s.m)
  <2>1. /\ TablesLinked(s.m) /\ SameBrokers(s.m, m) /\ Extends(s.m, m)
        /\ s.ok = TRUE \/ s.m.panicked = TRUE
        /\ Untranslated(m, virt) =>
             s.ok = TRUE /\ s.m.panicked = FALSE /\ Translated(s.m, m, phys, virt, base)
    BY <1>5 DEF Written
  <2>2. CASE s.m.panicked \/ ~s.ok
    <3>1. t = s
      BY <2>2 DEF RecordEntry
    <3>2. ~Untranslated(m, virt)
      BY <2>1, <2>2
    <3>3. QED
      BY <2>1, <3>1, <3>2 DEF Written
  <2>3. CASE ~(s.m.panicked \/ ~s.ok) /\ s.m.l1[index].type = "Section"
    <3>1. t = [m |-> Panic(s.m), ok |-> FALSE]
      BY <1>1, <1>2, <1>3, <2>3 DEF RecordEntry
    <3>2. ~Untranslated(m, virt)
      <4>1. SUFFICES ASSUME Untranslated(m, virt) PROVE FALSE
        OBVIOUS
      <4>2. base + 0 < virt.length /\ (virt.offset + base) + 0 = first
        BY <1>1, <1>3
      <4>3. Walk(s.m, first) = NoPage
        <5>1. Translated(s.m, m, phys, virt, base)
          BY <2>1, <4>1
        <5>2. Walk(s.m, (virt.offset + base) + 0) = NoPage
          <6>1. PICK j \in Nat : j = 0
            OBVIOUS
          <6>2. PICK c : c = s.m
            OBVIOUS
          <6>3. Translated(c, m, phys, virt, base) /\ base + j < virt.length
            BY <4>2, <5>1, <6>1, <6>2
          <6>4. Walk(c, (virt.offset + base) + j) = NoPage
            BY <1>3, <4>1, <6>1, <6>3, SliceIsUnmapped
          <6>5. QED
            BY <6>1, <6>2, <6>4
        <5>3. QED
          BY <4>2, <5>2
      <4>4. Walk(s.m, first) = At(s.m, index, l2_index(first)) /\ l2_index(first) \in L2s
        BY <1>2, <1>3, <2>1, WalkIsAt, Indexes DEF TablesLinked
      <4>5. At(s.m, index, l2_index(first)) \in Nat
        BY <1>3, <2>1, <2>3, <4>4, AtIsNumber
      <4>6. QED
        BY <4>3, <4>4, <4>5 DEF NoPage
    <3>3. PICK c : c = Panic(s.m)
      OBVIOUS
    <3>4. TablesLinked(c) /\ SameBrokers(c, s.m) /\ c.panicked = TRUE
          /\ \A i, e : At(c, i, e) = At(s.m, i, e)
      <4>1. Panicked(Panic(s.m), s.m)
        BY <2>1, PanicKeeps
      <4>2. QED
        BY <3>3, <4>1 DEF Panicked
    <3>5. SameBrokers(c, m) /\ Extends(c, m)
      BY <2>1, <3>4 DEF SameBrokers, Extends
    <3>6. t.m = c
      BY <3>1, <3>3
    <3>7. QED
      BY <3>2, <3>4, <3>5, <3>6 DEF Written
  <2>4. CASE ~(s.m.panicked \/ ~s.ok) /\ s.m.l1[index].type # "Section"
    <3>1. PICK got : got = TableFor(more, s.m, index, NoTable)
      OBVIOUS
    <3>2. PICK c : c = FillTable(got.m, got.table, phys.offset + base, first, count)
      OBVIOUS
    <3>3. t = IF got.table = NoTable THEN [m |-> got.m, ok |-> FALSE]
              ELSE [m |-> c, ok |-> TRUE]
      <4>1. PICK left : left = virt.length - base
        OBVIOUS
      <4>2. count = IF left < SectionPages THEN left ELSE SectionPages
        BY <4>1 DEF SliceOf
      <4>3. base = k * SectionPages
        BY <1>3
      <4>4. QED
        BY <1>1, <1>2, <2>4, <3>1, <3>2, <4>1, <4>2, <4>3, Zenon DEF RecordEntry
    <3>4. CASE Flagged(got.m)
      <4>1. Flagged(c)
        BY <3>2, <3>4, FlaggedFilled
      <4>2. Flagged(t.m)
        BY <3>3, <3>4, <4>1
      <4>3. QED
        BY <4>2 DEF Written
    <3>5. CASE TableFound(got.m, s.m, index, got.table)
      <4>1. /\ TablesLinked(got.m) /\ got.m.l1[index].type = "L2Ptr"
            /\ got.table = got.m.l1[index].table /\ got.table \in Tables
        BY <3>5 DEF TableFound
      <4>2. phys.offset + base \in Nat
        BY <1>3
      <4>3. Filled(c, got.m, index, phys.offset + base, first, count)
        BY <1>3, <3>2, <4>1, <4>2, FillTableFills
      <4>4. Filled(c, s.m, index, phys.offset + base, first, count)
        BY <1>3, <3>5, <4>3, FilledAsBefore
      <4>5. got.table # NoTable
        BY <4>1 DEF NoTable, Tables
      <4>6. t.m = c /\ t.ok = TRUE
        BY <3>3, <4>5
      <4>7. TablesLinked(c) /\ SameBrokers(c, m) /\ Extends(c, m)
        <5>1. Extends(c, s.m) /\ SameBrokers(c, s.m) /\ TablesLinked(c)
          BY <4>4 DEF Filled, Extends
        <5>2. QED
          BY <2>1, <5>1, ExtendsFurther DEF SameBrokers
      <4>8. ASSUME Untranslated(m, virt)
            PROVE  c.panicked = FALSE /\ Translated(c, m, phys, virt, base + count)
        <5>1. s.m.panicked = FALSE /\ Translated(s.m, m, phys, virt, base)
          BY <2>1, <4>8
        <5>2. c.panicked = s.m.panicked /\ Translated(c, m, phys, virt, base + count)
          BY <1>1, <1>2, <2>1, <4>4, <4>8, <5>1, SliceIsWritten
        <5>3. QED
          BY <5>1, <5>2
      <4>9. QED
        BY <4>6, <4>7, <4>8 DEF Written
    <3>6. QED
      BY <1>3, <2>1, <2>4, <3>1, <3>4, <3>5, TableForFinds
  <2>5. QED
    BY <2>2, <2>3, <2>4
<1>6. QED
  BY <1>4, <1>5
-----------------------------------------------------------------------------
(***************************************************************************)
(* All slices of a region: the function that records them exists.          *)
(***************************************************************************)
\* The function that RecordPages computes exists: it exists up to any entry.
Recording(f, w, more, m, phys, virt) ==
  f = [k \in 0 .. w |-> IF k = 0 THEN [m |-> m, ok |-> TRUE]
                        ELSE RecordEntry(more, f[k - 1], k - 1, phys, virt, NoTable)]

LEMMA RecordingExists ==
  ASSUME NEW more, NEW m, NEW phys, NEW virt
  PROVE  \A w \in Nat : \E f : Recording(f, w, more, m, phys, virt)
<1> DEFINE Bad == {w \in Nat : ~(\E f : Recording(f, w, more, m, phys, virt))}
<1>1. PICK start : start = [m |-> m, ok |-> TRUE]
  OBVIOUS
<1>2. ASSUME NEW w \in Bad, \A i \in Bad : w <= i PROVE FALSE
  <2>1. CASE w = 0
    <3> DEFINE f == [k \in 0 .. 0 |-> start]
    <3>1. f = [k \in 0 .. 0 |-> IF k = 0 THEN start
                                ELSE RecordEntry(more, f[k - 1], k - 1, phys, virt, NoTable)]
      <4>1. \A k \in 0 .. 0 : k = 0
        OBVIOUS
      <4>2. QED
        BY <4>1
    <3>2. Recording(f, 0, more, m, phys, virt)
      BY <1>1, <3>1 DEF Recording
    <3>3. QED
      BY <1>2, <2>1, <3>2
  <2>2. CASE w # 0
    <3>1. PICK p \in Nat : w = p + 1 /\ p \notin Bad
      <4>1. w - 1 \in Nat /\ w = (w - 1) + 1 /\ w - 1 \notin Bad
        BY <1>2, <2>2
      <4>2. QED
        BY <4>1
    <3>2. PICK g : Recording(g, p, more, m, phys, virt)
      BY <3>1
    <3> DEFINE f == [k \in 0 .. w |->
                       IF k = w THEN RecordEntry(more, g[p], p, phys, virt, NoTable)
                       ELSE g[k]]
    <3>3. \A k \in 0 .. p : g[k] = IF k = 0 THEN start
                                   ELSE RecordEntry(more, g[k - 1], k - 1, phys, virt, NoTable)
      BY <1>1, <3>2 DEF Recording
    <3>4. \A k \in 0 .. p : f[k] = g[k]
      BY <3>1
    <3>5. f[w] = RecordEntry(more, g[p], p, phys, virt, NoTable)
      BY <3>1
    <3>6. f = [k \in 0 .. w |-> f[k]]
      OBVIOUS
    <3> HIDE DEF f
    <3>7. \A k \in 0 .. w : f[k] = IF k = 0 THEN start
                                   ELSE RecordEntry(more, f[k - 1], k - 1, phys, virt, NoTable)
      <4> TAKE k \in 0 .. w
      <4>1. CASE k = w
        <5>1. p \in 0 .. p /\ k - 1 = p /\ k # 0
          BY <3>1, <4>1
        <5>2. f[p] = g[p]
          BY <3>4, <5>1
        <5>3. QED
          BY <3>5, <4>1, <5>1, <5>2
      <4>2. CASE k # w
        <5>1. k \in 0 .. p /\ (k # 0 => k - 1 \in 0 .. p)
          BY <3>1, <4>2
        <5>2. QED
          BY <3>3, <3>4, <5>1
      <4>3. QED
        BY <4>1, <4>2
    <3>8. Recording(f, w, more, m, phys, virt)
      BY <1>1, <3>6, <3>7 DEF Recording
    <3>9. QED
      BY <1>2, <3>8
  <2>3. QED
    BY <2>1, <2>2
<1>3. Bad \subseteq Nat
  OBVIOUS
<1>4. Bad = {}
  BY <1>2, <1>3, LeastElement
<1>5. QED
  BY <1>4

\* How much of a region its first k L1 entries translate.
Upto(virt, k) ==
  IF k * SectionPages < virt.length THEN k * SectionPages ELSE virt.length

LEMMA UptoNext ==
  ASSUME NEW virt \in Regions, NEW k \in Nat, k < L1EntriesToWalk(virt.length)
  PROVE  \E count : SliceOf(virt, Upto(virt, k), count, k)
                    /\ Upto(virt, k + 1) = Upto(virt, k) + count
<1>1. PICK n \in Nat \ {0} : n = SectionPages
  BY MmuSizes
<1>2. virt.length \in Nat
  BY DEF Regions
<1>3. PICK base : base = k * SectionPages
  OBVIOUS
<1>4. base \in Nat /\ base < virt.length
  BY <1>1, <1>2, <1>3, EntriesToWalk
<1>5. (k + 1) * SectionPages = base + n
  BY <1>1, <1>3
<1>6. Upto(virt, k) = base
  BY <1>3, <1>4 DEF Upto
<1>7. PICK count : count = IF virt.length - base < n THEN virt.length - base ELSE n
  OBVIOUS
<1>8. SliceOf(virt, base, count, k)
  BY <1>1, <1>3, <1>4, <1>7 DEF SliceOf
<1>9. Upto(virt, k + 1) = base + count
  <2>1. Upto(virt, k + 1) = IF base + n < virt.length THEN base + n ELSE virt.length
    BY <1>5 DEF Upto
  <2>2. QED
    BY <1>1, <1>2, <1>4, <1>7, <2>1
<1>10. QED
  BY <1>6, <1>8, <1>9

\* What recording a region does.
LEMMA RecordPagesWrites ==
  ASSUME NEW m, TablesLinked(m), m.panicked = FALSE,
         NEW phys \in Regions, NEW virt \in Regions
  PROVE  Written(RecordPages(m, phys, virt), m, phys, virt, virt.length)
<1>1. PICK more : more = MoreTables
  OBVIOUS
<1>2. PICK w \in Nat : w = L1EntriesToWalk(virt.length)
  <2>1. virt.length \in Nat
    BY DEF Regions
  <2>2. QED
    BY <2>1, EntriesToWalk
<1>3. PICK f : Recording(f, w, more, m, phys, virt) /\ RecordPages(m, phys, virt) = f[w]
  <2> DEFINE F == CHOOSE f : Recording(f, w, more, m, phys, virt)
  <2>1. RecordPages(m, phys, virt) = F[w]
    BY <1>1, <1>2, Zenon DEF RecordPages, RecordPagesWith, Recording
  <2>2. Recording(F, w, more, m, phys, virt)
    BY RecordingExists
  <2>3. QED
    BY <2>1, <2>2
<1>4. PICK start : start = [m |-> m, ok |-> TRUE]
  OBVIOUS
<1>5. \A k \in 0 .. w : f[k] = IF k = 0 THEN start
                               ELSE RecordEntry(more, f[k - 1], k - 1, phys, virt, NoTable)
  BY <1>3, <1>4 DEF Recording
<1> DEFINE Bad == {k \in Nat : k <= w /\ ~Written(f[k], m, phys, virt, Upto(virt, k))}
<1>6. ASSUME NEW k \in Bad, \A i \in Bad : k <= i PROVE FALSE
  <2>1. CASE k = 0
    <3>1. f[0] = start
      BY <1>5
    <3>2. start.m = m /\ start.ok = TRUE
      BY <1>4
    <3>3. Upto(virt, 0) = 0
      BY MmuSizes DEF Upto, Regions
    <3>4. Translated(m, m, phys, virt, 0)
      BY DEF Translated
    <3>5. Written(start, m, phys, virt, 0)
      BY <3>2, <3>4 DEF Written, SameBrokers, Extends
    <3>6. QED
      BY <1>6, <2>1, <3>1, <3>3, <3>5
  <2>2. CASE k # 0
    <3>1. PICK p \in Nat : k = p + 1 /\ p \notin Bad /\ p < w
      <4>1. k - 1 \in Nat /\ k = (k - 1) + 1 /\ k - 1 \notin Bad /\ k - 1 < w
        BY <1>6, <2>2
      <4>2. QED
        BY <4>1
    <3>2. Written(f[p], m, phys, virt, Upto(virt, p))
      BY <3>1
    <3>3. f[k] = RecordEntry(more, f[p], p, phys, virt, NoTable)
      <4>1. k \in 0 .. w /\ k - 1 = p
        BY <3>1
      <4>2. QED
        BY <1>5, <2>2, <4>1
    <3>4. PICK count : SliceOf(virt, Upto(virt, p), count, p)
                       /\ Upto(virt, p + 1) = Upto(virt, p) + count
      BY <1>2, <3>1, UptoNext
    <3>5. Written(f[k], m, phys, virt, Upto(virt, p) + count)
      BY <3>2, <3>3, <3>4, EntryIsWritten
    <3>6. QED
      BY <1>6, <3>1, <3>4, <3>5
  <2>3. QED
    BY <2>1, <2>2
<1>7. Bad \subseteq Nat
  OBVIOUS
<1>8. Bad = {}
  BY <1>6, <1>7, LeastElement
<1>9. Written(f[w], m, phys, virt, Upto(virt, w))
  BY <1>8
<1>10. Upto(virt, w) = virt.length
  <2>1. virt.length \in Nat /\ w * SectionPages \in Nat
    BY MmuSizes DEF Regions
  <2>2. virt.length <= w * SectionPages
    BY <1>2, <2>1, EntriesToWalk
  <2>3. QED
    BY <2>1, <2>2 DEF Upto
<1>11. QED
  BY <1>3, <1>9, <1>10
-----------------------------------------------------------------------------
(***************************************************************************)
(* What a broker gives and is given back, in terms of its free pages.      *)
(***************************************************************************)
\* The pages that a broker's nodes have.
FreeIn(b) == PagesIn(b, {})

\* What a call to a broker does: the region it returns was free and is no longer.
Gives(got, b) ==
  /\ Layout(got.b, {}) /\ FreeIn(got.b) \subseteq FreeIn(b)
  /\ got.region # NoRegion =>
       /\ Sized(got.region) /\ InHand(got.b, {}, got.region)
       /\ PagesOf(got.region) \subseteq FreeIn(b)
       /\ PagesOf(got.region) \cap FreeIn(got.b) = {}

LEMMA HandIsApart ==
  ASSUME NEW b, NEW r, InHand(b, {}, r)
  PROVE  PagesOf(r) \cap FreeIn(b) = {}
<1>1. PICK H : H = {}
  OBVIOUS
<1>2. Layout(b, H \cup {r})
  BY <1>1 DEF InHand
<1>3. BrokerInv(b) /\ Sized(r) /\ \A s \in Nodes(b) : Apart(b.region[s], r)
  BY <1>2 DEF Layout
<1>4. \A s \in Nodes(b) : PagesOf(b.region[s]) \cap PagesOf(r) = {}
  BY <1>3, NodeRegions, SizedRegion, ApartPages
<1>5. FreeIn(b) = UNION {PagesOf(b.region[s]) : s \in Nodes(b)}
  BY DEF FreeIn, PagesIn
<1>6. QED
  BY <1>4, <1>5

LEMMA GainsGive ==
  ASSUME NEW b, NEW got, BothGained(got, b, {})
  PROVE  Gives(got, b)
<1>1. PICK H : H = {}
  OBVIOUS
<1>2. PICK G : G = (H \cup Gained(got.runway)) \cup Gained(got.region)
  OBVIOUS
<1>3. Layout(got.b, G) /\ PagesIn(got.b, G) = PagesIn(b, H)
  BY <1>1, <1>2, Zenon DEF BothGained
<1>4. H \subseteq G
  BY <1>1
<1>5. Layout(got.b, H) /\ PagesIn(got.b, H) \subseteq PagesIn(b, H)
  BY <1>3, <1>4, LayoutOfFewer
<1>6. ASSUME got.region # NoRegion
      PROVE  /\ Sized(got.region) /\ InHand(got.b, H, got.region)
             /\ PagesOf(got.region) \subseteq PagesIn(b, H)
  <2>1. PICK K : K = H \cup {got.region}
    OBVIOUS
  <2>2. K \subseteq G
    BY <1>2, <1>6, <2>1 DEF Gained
  <2>3. Layout(got.b, K) /\ PagesIn(got.b, K) \subseteq PagesIn(b, H)
    BY <1>3, <2>2, LayoutOfFewer
  <2>4. InHand(got.b, H, got.region)
    BY <1>1, <2>1, <2>3 DEF InHand
  <2>5. Sized(got.region)
    BY <2>1, <2>3 DEF Layout
  <2>6. PagesOf(got.region) \subseteq PagesIn(got.b, K)
    BY <2>1 DEF PagesIn
  <2>7. QED
    BY <2>3, <2>4, <2>5, <2>6
<1>7. got.region # NoRegion => PagesOf(got.region) \cap FreeIn(got.b) = {}
  BY <1>1, <1>6, HandIsApart
<1>8. QED
  BY <1>1, <1>5, <1>6, <1>7 DEF Gives, FreeIn

LEMMA ChargedFree ==
  ASSUME NEW b, NEW amount
  PROVE  FreeBits(Charged(b, amount)) = FreeBits(b)
BY DEF Charged, FreeBits, bit

LEMMA AllocateGives ==
  ASSUME NEW b, Layout(b, {}), NEW n \in Nat \ {0}, NEW got, got = allocate(b, n, 1)
  PROVE  /\ Gives(got, b)
         /\ got.region # NoRegion =>
              got.region.length = align_up_to_power(n) \/ FreeBits(got.b) = {}
<1>1. PICK H : H = {}
  OBVIOUS
<1>2. PICK G : G = H \cup Gained(Ready(b).region)
  OBVIOUS
<1>3. Layout(b, H)
  BY <1>1
<1>4. Layout(Ready(b).b, G)
  BY <1>2, <1>3, ReadyLayout
<1>5. PICK c : c = Ready(b).b
  OBVIOUS
<1>6. PICK ans : ans = backend_allocate(c, n, 1)
  OBVIOUS
<1>7. 1 \in Nat \ {0} /\ Layout(c, G)
  BY <1>4, <1>5
<1>8. /\ Answered(ans, c, G)
      /\ ans.region # NoRegion => ans.region.length = align_up_to_power(n) \/ FreeBits(ans.b) = {}
  BY <1>6, <1>7, BackendAllocates
<1>9. Returned(got, ans, b)
  BY <1>5, <1>6, AllocateReturns
<1>10. BothGained(got, b, H)
  BY <1>2, <1>3, <1>5, <1>8, <1>9, ReturnedGains
<1>11. Gives(got, b)
  BY <1>1, <1>10, GainsGive
<1>12. ASSUME got.region # NoRegion
       PROVE  got.region = ans.region /\ FreeBits(got.b) = FreeBits(ans.b)
  <2>1. got.region = ans.region /\ got.b = Charged(ans.b, ans.cost)
    BY <1>9, <1>12 DEF Returned
  <2>2. QED
    BY <2>1, ChargedFree
<1>13. QED
  BY <1>8, <1>11, <1>12

LEMMA ReserveGives ==
  ASSUME NEW b, Layout(b, {}), NEW r \in Regions, r.length > 0,
         NEW got, got = reserve_region(b, r)
  PROVE  /\ Gives(got, b)
         /\ got.region # NoRegion =>
              /\ Contains(got.region, r)
              /\ Sized(r) => got.region = r \/ FreeBits(got.b) = {}
<1>1. PICK H : H = {}
  OBVIOUS
<1>2. PICK G : G = H \cup Gained(Ready(b).region)
  OBVIOUS
<1>3. Layout(b, H)
  BY <1>1
<1>4. Layout(Ready(b).b, G)
  BY <1>2, <1>3, ReadyLayout
<1>5. PICK c : c = Ready(b).b
  OBVIOUS
<1>6. PICK ans : ans = backend_reserve(c, r)
  OBVIOUS
<1>7. Layout(c, G)
  BY <1>4, <1>5
<1>8. /\ Answered(ans, c, G)
      /\ ans.region # NoRegion => Contains(ans.region, r)
      /\ ans.region # NoRegion /\ Sized(r) => ans.region = r \/ FreeBits(ans.b) = {}
  BY <1>6, <1>7, BackendReserves
<1>9. Returned(got, ans, b)
  BY <1>5, <1>6, ReserveReturns
<1>10. BothGained(got, b, H)
  BY <1>2, <1>3, <1>5, <1>8, <1>9, ReturnedGains
<1>11. Gives(got, b)
  BY <1>1, <1>10, GainsGive
<1>12. ASSUME got.region # NoRegion
       PROVE  got.region = ans.region /\ FreeBits(got.b) = FreeBits(ans.b)
  <2>1. got.region = ans.region /\ got.b = Charged(ans.b, ans.cost)
    BY <1>9, <1>12 DEF Returned
  <2>2. QED
    BY <2>1, ChargedFree
<1>13. QED
  BY <1>8, <1>11, <1>12

\* A region that was given and is given back: no page is free that was not.
LEMMA GivenBack ==
  ASSUME NEW b, NEW got, Gives(got, b), got.region # NoRegion,
         NEW c, c = free_region(got.b, got.region)
  PROVE  Layout(c, {}) /\ FreeIn(c) \subseteq FreeIn(b)
<1>1. PICK H : H = {}
  OBVIOUS
<1>2. InHand(got.b, H, got.region) /\ FreeIn(got.b) \subseteq FreeIn(b)
      /\ PagesOf(got.region) \subseteq FreeIn(b)
  BY <1>1 DEF Gives
<1>3. Layout(c, H) /\ PagesIn(c, H) \subseteq PagesIn(got.b, H \cup {got.region})
  BY <1>2, FreeKeepsLayout
<1>4. PagesIn(got.b, {got.region}) = FreeIn(got.b) \cup PagesOf(got.region)
  BY DEF FreeIn, PagesIn
<1>5. QED
  BY <1>1, <1>2, <1>3, <1>4 DEF FreeIn
-----------------------------------------------------------------------------
(***************************************************************************)
(* Both brokers.                                                           *)
(***************************************************************************)
\* Tables and brokers are well-formed.
Sound(m) == TablesLinked(m) /\ Layout(m.phys, {}) /\ Layout(m.virt, {})

\* Nothing but the brokers differs.
SameTables(c, m) ==
  /\ c.l1 = m.l1 /\ c.tables = m.tables /\ c.l2 = m.l2 /\ c.spare = m.spare
  /\ c.exhausted = m.exhausted /\ c.panicked = m.panicked

\* No page is free in c that was not in m.
NoneFreed(c, m) ==
  FreeIn(c.phys) \subseteq FreeIn(m.phys) /\ FreeIn(c.virt) \subseteq FreeIn(m.virt)

LEMMA TablesStayLinked ==
  ASSUME NEW m, TablesLinked(m), NEW c \in Machines, SameTables(c, m)
  PROVE  TablesLinked(c) /\ \A i, e : At(c, i, e) = At(m, i, e)
BY DEF TablesLinked, SameTables, At

\* A state with brokers p and v and the tables of m.
BrokersSet(m, p, v) == [m EXCEPT !.phys = p, !.virt = v]

LEMMA WithBrokers ==
  ASSUME NEW m, TablesLinked(m), NEW p, Layout(p, {}), NEW v, Layout(v, {}),
         FreeIn(p) \subseteq FreeIn(m.phys), FreeIn(v) \subseteq FreeIn(m.virt),
         NEW c, c = BrokersSet(m, p, v)
  PROVE  Sound(c) /\ SameTables(c, m) /\ NoneFreed(c, m) /\ c.phys = p /\ c.virt = v
<1>1. p \in Brokers /\ v \in Brokers /\ m \in Machines
  <2>1. PICK H : H = {}
    OBVIOUS
  <2>2. QED
    BY <2>1, LayoutIsStructure DEF TablesLinked
<1>2. PICK d : d = [m EXCEPT !.phys = p]
  OBVIOUS
<1>3. d \in Machines
  BY <1>1, <1>2, MachineWith
<1>4. c = [d EXCEPT !.virt = v]
  BY <1>1, <1>2 DEF Machines, BrokersSet
<1>5. c \in Machines
  BY <1>1, <1>3, <1>4, MachineWith
<1>6. SameTables(c, m) /\ c.phys = p /\ c.virt = v
  BY <1>1 DEF Machines, SameTables, BrokersSet
<1>7. TablesLinked(c)
  BY <1>5, <1>6, TablesStayLinked
<1>8. QED
  BY <1>6, <1>7 DEF Sound, NoneFreed

\* Both regions have been taken.
BothTaken(got, m) ==
  /\ Sized(got.phys) /\ Sized(got.virt)
  /\ PagesOf(got.phys) \subseteq FreeIn(m.phys) \ FreeIn(got.m.phys)
  /\ PagesOf(got.virt) \subseteq FreeIn(m.virt) \ FreeIn(got.m.virt)

\* What a call that takes physical and virtual pages gives, before they are recorded.
TakesBoth(got, m) ==
  /\ Sound(got.m) /\ SameTables(got.m, m) /\ NoneFreed(got.m, m)
  /\ \/ got.phys = NoRegion /\ got.virt = NoRegion
     \/ got.phys # NoRegion /\ BothTaken(got, m)

LEMMA NoRegionIsShort == NoRegion.length = 0 /\ NoRegion.offset = 0
BY DEF NoRegion, Region

\* One broker's region is given back when the other one has none.
LEMMA FailsSoundly ==
  ASSUME NEW m, TablesLinked(m), NEW p, Layout(p, {}), NEW v, Layout(v, {}),
         FreeIn(p) \subseteq FreeIn(m.phys), FreeIn(v) \subseteq FreeIn(m.virt),
         NEW got, got = Failed(BrokersSet(m, p, v))
  PROVE  TakesBoth(got, m)
<1>1. PICK c : c = BrokersSet(m, p, v)
  OBVIOUS
<1>2. Sound(c) /\ SameTables(c, m) /\ NoneFreed(c, m)
  BY <1>1, WithBrokers
<1>3. got.m = c /\ got.phys = NoRegion /\ got.virt = NoRegion
  BY <1>1 DEF Failed
<1>4. QED
  BY <1>2, <1>3 DEF TakesBoth

LEMMA BrokersAgain ==
  ASSUME NEW m \in Machines, NEW x
  PROVE  /\ [m EXCEPT !.phys = x] = BrokersSet(m, x, m.virt)
         /\ [m EXCEPT !.virt = x] = BrokersSet(m, m.phys, x)
BY DEF Machines, BrokersSet

LEMMA BothBrokers ==
  ASSUME NEW m \in Machines, NEW x, NEW y, NEW c, c = [m EXCEPT !.virt = y, !.phys = x]
  PROVE  c = BrokersSet(m, x, y)
BY DEF Machines, BrokersSet

LEMMA GivesEither ==
  ASSUME NEW m, Sound(m), NEW v, Gives(v, m.virt), NEW p, Gives(p, m.phys),
         p.region # NoRegion, v.region # NoRegion,
         NEW got, got.m = BrokersSet(m, p.b, v.b),
         got.phys = p.region, got.virt = v.region
  PROVE  TakesBoth(got, m) /\ got.m.phys = p.b /\ got.m.virt = v.b
<1>1. /\ Layout(p.b, {}) /\ FreeIn(p.b) \subseteq FreeIn(m.phys) /\ Sized(p.region)
      /\ PagesOf(p.region) \subseteq FreeIn(m.phys) /\ PagesOf(p.region) \cap FreeIn(p.b) = {}
  BY DEF Gives
<1>2. /\ Layout(v.b, {}) /\ FreeIn(v.b) \subseteq FreeIn(m.virt) /\ Sized(v.region)
      /\ PagesOf(v.region) \subseteq FreeIn(m.virt) /\ PagesOf(v.region) \cap FreeIn(v.b) = {}
  BY DEF Gives
<1>3. PICK x, y, c : x = p.b /\ y = v.b /\ c = BrokersSet(m, x, y)
  OBVIOUS
<1>4. Sound(c) /\ SameTables(c, m) /\ NoneFreed(c, m) /\ c.phys = x /\ c.virt = y
  <2>1. TablesLinked(m) /\ Layout(x, {}) /\ Layout(y, {})
    BY <1>1, <1>2, <1>3 DEF Sound
  <2>2. FreeIn(x) \subseteq FreeIn(m.phys) /\ FreeIn(y) \subseteq FreeIn(m.virt)
    BY <1>1, <1>2, <1>3
  <2>3. c = BrokersSet(m, x, y)
    BY <1>3
  <2>4. QED
    BY <2>1, <2>2, <2>3, WithBrokers
<1>5. got.m = c
  BY <1>3
<1>6. BothTaken(got, m)
  BY <1>1, <1>2, <1>3, <1>4, <1>5 DEF BothTaken
<1>7. QED
  BY <1>3, <1>4, <1>5, <1>6 DEF TakesBoth

\* Both regions are as long, unless a broker has no node left.
SameLength(got) ==
  FreeBits(got.m.phys) # {} /\ FreeBits(got.m.virt) # {} => got.phys.length = got.virt.length

LEMMA SizedIsAligned ==
  ASSUME NEW r, Sized(r)
  PROVE  align_up_to_power(r.length) = r.length
<1>1. PICK d \in Depths : FitsList(r, d)
  BY DEF Sized
<1>2. d \in Nat /\ r.length = Span(d)
  BY <1>1, DepthsAreNumbers DEF FitsList
<1>3. r.length \in Nat \ {0} /\ Depth(r.length) = d
  BY <1>2, DepthOfSpan
<1>4. r.length = page_length_from_depth[Depth(r.length)]
  BY <1>2, <1>3 DEF Span
<1>5. QED
  BY <1>3, <1>4 DEF align_up_to_power

LEMMA UnrecordedTakes ==
  ASSUME NEW m, Sound(m), NEW region \in Regions, region.length > 0, NEW backing,
         NEW got, got = Unrecorded(m, region, backing)
  PROVE  /\ TakesBoth(got, m)
         /\ got.phys # NoRegion =>
              /\ Contains(got.virt, region)
              /\ backing = "Identity" => Contains(got.phys, got.virt)
              /\ backing = "Identity" \/ Sized(region) => SameLength(got)
<1>1. PICK virt : virt = reserve_region(m.virt, region)
  OBVIOUS
<1>2. PICK mv, mp : mv = m.virt /\ mp = m.phys
  OBVIOUS
<1>3. Layout(mv, {}) /\ Layout(mp, {}) /\ TablesLinked(m) /\ m \in Machines
  BY <1>2 DEF Sound, TablesLinked
<1>4. /\ Gives(virt, mv)
      /\ virt.region # NoRegion => Contains(virt.region, region) /\
           (Sized(region) => virt.region = region \/ FreeBits(virt.b) = {})
  BY <1>1, <1>2, <1>3, ReserveGives
<1>5. Layout(virt.b, {}) /\ FreeIn(virt.b) \subseteq FreeIn(mv)
  BY <1>4 DEF Gives
<1>6. FreeIn(mp) \subseteq FreeIn(mp)
  OBVIOUS
<1>7. CASE virt.region = NoRegion
  <2>1. got = Failed([m EXCEPT !.virt = virt.b])
    BY <1>1, <1>7 DEF Unrecorded
  <2>2. PICK v : v = virt.b
    OBVIOUS
  <2>3. got = Failed(BrokersSet(m, mp, v))
    BY <1>2, <1>3, <2>1, <2>2, BrokersAgain
  <2>4. TakesBoth(got, m)
    BY <1>2, <1>3, <1>5, <1>6, <2>2, <2>3, FailsSoundly
  <2>5. got.phys = NoRegion
    BY <2>1 DEF Failed
  <2>6. QED
    BY <2>4, <2>5
<1>8. CASE virt.region # NoRegion
  <2>1. PICK p : p = IF backing = "Identity" THEN reserve_region(mp, virt.region)
                     ELSE allocate(mp, region.length, 1)
    OBVIOUS
  <2>2. got = IF p.region = NoRegion
              THEN Failed([m EXCEPT !.virt = free_region(virt.b, virt.region), !.phys = p.b])
              ELSE [m |-> [m EXCEPT !.virt = virt.b, !.phys = p.b],
                    phys |-> p.region, virt |-> virt.region]
    BY <1>1, <1>2, <1>8, <2>1 DEF Unrecorded
  <2>3. Sized(virt.region) /\ virt.region \in Regions /\ virt.region.length > 0
    BY <1>4, <1>8, SizedRegion DEF Gives
  <2>4. /\ Gives(p, mp)
        /\ p.region # NoRegion =>
             IF backing = "Identity"
             THEN Contains(p.region, virt.region) /\ (p.region = virt.region \/ FreeBits(p.b) = {})
             ELSE p.region.length = align_up_to_power(region.length) \/ FreeBits(p.b) = {}
    <3>1. CASE backing = "Identity"
      <4>1. PICK r : r = virt.region
        OBVIOUS
      <4>2. p = reserve_region(mp, r) /\ Sized(r) /\ r \in Regions /\ r.length > 0
        BY <2>1, <2>3, <3>1, <4>1
      <4>3. QED
        BY <1>3, <3>1, <4>1, <4>2, ReserveGives
    <3>2. CASE backing # "Identity"
      <4>1. PICK n \in Nat \ {0} : n = region.length
        BY DEF Regions
      <4>2. p = allocate(mp, n, 1)
        BY <2>1, <3>2, <4>1
      <4>3. QED
        BY <1>3, <3>2, <4>1, <4>2, AllocateGives
    <3>3. QED
      BY <3>1, <3>2
  <2>5. Layout(p.b, {}) /\ FreeIn(p.b) \subseteq FreeIn(mp)
    BY <2>4 DEF Gives
  <2>6. CASE p.region = NoRegion
    <3>1. PICK v : v = free_region(virt.b, virt.region)
      OBVIOUS
    <3>2. Layout(v, {}) /\ FreeIn(v) \subseteq FreeIn(mv)
      BY <1>4, <1>8, <3>1, GivenBack
    <3>3. PICK x : x = p.b
      OBVIOUS
    <3>4. got = Failed(BrokersSet(m, x, v))
      <4>1. PICK c : c = [m EXCEPT !.virt = v, !.phys = x]
        OBVIOUS
      <4>2. got = Failed(c)
        BY <2>2, <2>6, <3>1, <3>3, <4>1
      <4>3. c = BrokersSet(m, x, v)
        BY <1>3, <4>1, BothBrokers
      <4>4. QED
        BY <4>2, <4>3
    <3>5. TakesBoth(got, m)
      BY <1>2, <1>3, <2>5, <3>2, <3>3, <3>4, FailsSoundly
    <3>6. got.phys = NoRegion
      BY <3>4 DEF Failed
    <3>7. QED
      BY <3>5, <3>6
  <2>7. CASE p.region # NoRegion
    <3>1. got.m = BrokersSet(m, p.b, virt.b)
      <4>1. got.m = [m EXCEPT !.virt = virt.b, !.phys = p.b]
        BY <2>2, <2>7
      <4>2. PICK x, y : x = p.b /\ y = virt.b
        OBVIOUS
      <4>3. got.m = [m EXCEPT !.virt = y, !.phys = x]
        BY <4>1, <4>2
      <4>4. got.m = BrokersSet(m, x, y)
        BY <1>3, <4>3, BothBrokers
      <4>5. QED
        BY <4>2, <4>4
    <3>2. got.phys = p.region /\ got.virt = virt.region
      BY <2>2, <2>7
    <3>3. TakesBoth(got, m) /\ got.m.phys = p.b /\ got.m.virt = virt.b
      BY <1>2, <1>4, <1>8, <2>4, <2>7, <3>1, <3>2, GivesEither
    <3>4. ASSUME backing = "Identity" \/ Sized(region),
                 FreeBits(p.b) # {}, FreeBits(virt.b) # {}
          PROVE  p.region.length = virt.region.length
      <4>1. CASE backing = "Identity"
        BY <2>4, <2>7, <3>4, <4>1
      <4>2. CASE backing # "Identity"
        <5>1. virt.region = region
          BY <1>4, <1>8, <3>4, <4>2
        <5>2. p.region.length = align_up_to_power(region.length)
          BY <2>4, <2>7, <3>4, <4>2
        <5>3. QED
          BY <2>3, <5>1, <5>2, SizedIsAligned
      <4>3. QED
        BY <4>1, <4>2
    <3>5. backing = "Identity" \/ Sized(region) => SameLength(got)
      BY <3>2, <3>3, <3>4 DEF SameLength
    <3>6. QED
      BY <1>4, <1>8, <2>4, <2>7, <3>2, <3>3, <3>5
  <2>8. QED
    BY <2>6, <2>7
<1>9. QED
  BY <1>7, <1>8

LEMMA AllocationTakes ==
  ASSUME NEW m, Sound(m), NEW n \in Nat \ {0}
  PROVE  \E got :
           /\ TakesBoth(got, m)
           /\ IF got.phys = NoRegion THEN allocate_pages(m, n) = got
              ELSE /\ allocate_pages(m, n) =
                        Recorded(RecordPages(got.m, got.phys, got.virt), got.phys, got.virt)
                   /\ SameLength(got)
<1>1. PICK p : p = allocate(m.phys, n, 1)
  OBVIOUS
<1>2. PICK v : v = allocate(m.virt, n, 1)
  OBVIOUS
<1>3. PICK mv, mp : mv = m.virt /\ mp = m.phys
  OBVIOUS
<1>4. Layout(mv, {}) /\ Layout(mp, {}) /\ TablesLinked(m) /\ m \in Machines
  BY <1>3 DEF Sound, TablesLinked
<1>5. /\ Gives(p, mp)
      /\ p.region # NoRegion => p.region.length = align_up_to_power(n) \/ FreeBits(p.b) = {}
  BY <1>1, <1>3, <1>4, AllocateGives
<1>6. /\ Gives(v, mv)
      /\ v.region # NoRegion => v.region.length = align_up_to_power(n) \/ FreeBits(v.b) = {}
  BY <1>2, <1>3, <1>4, AllocateGives
<1>7. /\ Layout(p.b, {}) /\ FreeIn(p.b) \subseteq FreeIn(mp)
      /\ Layout(v.b, {}) /\ FreeIn(v.b) \subseteq FreeIn(mv) /\ FreeIn(mv) \subseteq FreeIn(mv)
  BY <1>5, <1>6 DEF Gives
<1>8. CASE p.region = NoRegion
  <2>1. PICK got : got = Failed([m EXCEPT !.phys = p.b])
    OBVIOUS
  <2>2. allocate_pages(m, n) = got
    BY <1>1, <1>8, <2>1 DEF allocate_pages
  <2>3. PICK x : x = p.b
    OBVIOUS
  <2>4. got = Failed(BrokersSet(m, x, mv))
    BY <1>3, <1>4, <2>1, <2>3, BrokersAgain
  <2>5. TakesBoth(got, m)
    BY <1>3, <1>4, <1>7, <2>3, <2>4, FailsSoundly
  <2>6. got.phys = NoRegion
    BY <2>1 DEF Failed
  <2>7. QED
    BY <2>2, <2>5, <2>6
<1>9. CASE p.region # NoRegion /\ v.region = NoRegion
  <2>1. PICK x : x = free_region(p.b, p.region)
    OBVIOUS
  <2>2. PICK y : y = v.b
    OBVIOUS
  <2>3. PICK got : got = Failed(BrokersSet(m, x, y))
    OBVIOUS
  <2>4. allocate_pages(m, n) = got
    <3>1. PICK c : c = [m EXCEPT !.virt = y, !.phys = x]
      OBVIOUS
    <3>2. allocate_pages(m, n) = Failed(c)
      BY <1>1, <1>2, <1>9, <2>1, <2>2, <3>1 DEF allocate_pages
    <3>3. c = BrokersSet(m, x, y)
      BY <1>4, <3>1, BothBrokers
    <3>4. QED
      BY <2>3, <3>2, <3>3
  <2>5. Layout(x, {}) /\ FreeIn(x) \subseteq FreeIn(mp)
    BY <1>5, <1>9, <2>1, GivenBack
  <2>6. TakesBoth(got, m)
    BY <1>3, <1>4, <1>7, <2>2, <2>3, <2>5, FailsSoundly
  <2>7. got.phys = NoRegion
    BY <2>3 DEF Failed
  <2>8. QED
    BY <2>4, <2>6, <2>7
<1>10. CASE p.region # NoRegion /\ v.region # NoRegion
  <2>1. PICK x, y : x = p.b /\ y = v.b
    OBVIOUS
  <2>2. PICK got : got = [m |-> BrokersSet(m, x, y), phys |-> p.region, virt |-> v.region]
    OBVIOUS
  <2>3. got.m = BrokersSet(m, p.b, v.b) /\ got.phys = p.region /\ got.virt = v.region
    BY <2>1, <2>2
  <2>4. TakesBoth(got, m) /\ got.m.phys = p.b /\ got.m.virt = v.b
    BY <1>3, <1>5, <1>6, <1>10, <2>3, GivesEither
  <2>5. allocate_pages(m, n) =
          Recorded(RecordPages(got.m, got.phys, got.virt), got.phys, got.virt)
    <3>1. [m EXCEPT !.phys = p.b, !.virt = v.b] = got.m
      BY <2>3 DEF BrokersSet
    <3>2. QED
      BY <1>1, <1>2, <1>10, <2>3, <3>1 DEF allocate_pages
  <2>6. SameLength(got)
    BY <1>5, <1>6, <1>10, <2>3, <2>4 DEF SameLength
  <2>7. QED
    BY <1>10, <2>3, <2>4, <2>5, <2>6
<1>11. QED
  BY <1>8, <1>9, <1>10
-----------------------------------------------------------------------------
(***************************************************************************)
(* What calls after boot come to.                                          *)
(***************************************************************************)
HasNodes(m) == FreeBits(m.phys) # {} /\ FreeBits(m.virt) # {}

\* Regions that are as long were taken, and recorded if none of their pages was before.
Hands(ret, m) ==
  /\ BothTaken(ret, m) /\ ret.phys.length = ret.virt.length
  /\ Untranslated(m, ret.virt) =>
       ret.m.panicked = FALSE /\ Translated(ret.m, m, ret.phys, ret.virt, ret.virt.length)

HandsNothing(ret, m) ==
  ret.virt = NoRegion /\ ret.m.panicked = FALSE /\ \A i, e : At(ret.m, i, e) = At(m, i, e)

\* What a call comes to while there are tables; certain is said of calls that fit.
Outcome(ret, m, certain) ==
  \/ Flagged(ret.m)
  \/ /\ Sound(ret.m) /\ NoneFreed(ret.m, m) /\ Extends(ret.m, m)
     /\ certain /\ HasNodes(ret.m) => HandsNothing(ret, m) \/ Hands(ret, m)

LEMMA NothingIsHanded ==
  ASSUME NEW m, Sound(m), m.panicked = FALSE, NEW got, TakesBoth(got, m), got.phys = NoRegion,
         NEW certain
  PROVE  Outcome(got, m, certain)
<1>1. /\ Sound(got.m) /\ SameTables(got.m, m) /\ NoneFreed(got.m, m) /\ got.virt = NoRegion
  BY DEF TakesBoth, BothTaken
<1>2. got.m \in Machines /\ TablesLinked(m)
  BY <1>1 DEF Sound, TablesLinked
<1>3. \A i, e : At(got.m, i, e) = At(m, i, e)
  BY <1>1, <1>2, TablesStayLinked
<1>4. got.m.panicked = FALSE
  BY <1>1 DEF SameTables
<1>5. Extends(got.m, m)
  BY <1>3 DEF Extends
<1>6. QED
  BY <1>1, <1>3, <1>4, <1>5 DEF Outcome, HandsNothing

LEMMA FlaggedRecorded ==
  ASSUME NEW recorded, Flagged(recorded.m), NEW phys, NEW virt
  PROVE  Flagged(Recorded(recorded, phys, virt).m)
BY DEF Recorded, Flagged

LEMMA PagesAreHanded ==
  ASSUME NEW m, Sound(m), m.panicked = FALSE, NEW got, TakesBoth(got, m),
         got.phys # NoRegion,
         NEW ret, ret = Recorded(RecordPages(got.m, got.phys, got.virt), got.phys, got.virt),
         NEW certain, certain => SameLength(got)
  PROVE  Outcome(ret, m, certain)
<1>1. PICK c, phys, virt : c = got.m /\ phys = got.phys /\ virt = got.virt
  OBVIOUS
<1>2. /\ Sound(c) /\ SameTables(c, m) /\ NoneFreed(c, m) /\ BothTaken(got, m)
  BY <1>1 DEF TakesBoth
<1>3. TablesLinked(c) /\ TablesLinked(m) /\ c \in Machines /\ m \in Machines
  BY <1>2 DEF Sound, TablesLinked
<1>4. \A i, e : At(c, i, e) = At(m, i, e)
  BY <1>2, <1>3, TablesStayLinked
<1>5. c.panicked = FALSE
  BY <1>2 DEF SameTables
<1>6. phys \in Regions /\ virt \in Regions /\ Sized(virt)
  BY <1>1, <1>2, SizedRegion DEF BothTaken
<1>7. PICK s : s = RecordPages(c, phys, virt)
  OBVIOUS
<1>8. Written(s, c, phys, virt, virt.length)
  BY <1>3, <1>5, <1>6, <1>7, RecordPagesWrites
<1>9. ret = Recorded(s, phys, virt) /\ ret.phys = phys /\ ret.virt = virt
  BY <1>1, <1>7 DEF Recorded
<1>10. CASE Flagged(s.m)
  BY <1>9, <1>10, FlaggedRecorded DEF Outcome
<1>11. CASE ~Flagged(s.m)
  <2>1. /\ TablesLinked(s.m) /\ SameBrokers(s.m, c) /\ Extends(s.m, c)
        /\ s.ok = TRUE \/ s.m.panicked = TRUE
        /\ Untranslated(c, virt) =>
             s.ok = TRUE /\ s.m.panicked = FALSE /\ Translated(s.m, c, phys, virt, virt.length)
    BY <1>8, <1>11 DEF Written
  <2>2. ret.m = s.m
    BY <1>9, <2>1 DEF Recorded
  <2>3. Sound(ret.m) /\ NoneFreed(ret.m, m)
    BY <1>2, <2>1, <2>2 DEF Sound, SameBrokers, NoneFreed
  <2>4. Extends(ret.m, m)
    BY <1>4, <2>1, <2>2 DEF Extends
  <2>5. ASSUME certain, HasNodes(ret.m) PROVE Hands(ret, m)
    <3>1. phys.length = virt.length
      BY <1>1, <2>1, <2>2, <2>5 DEF HasNodes, SameLength, SameBrokers
    <3>2. BothTaken(ret, m)
      BY <1>1, <1>2, <1>9, <2>1, <2>2 DEF BothTaken, SameBrokers
    <3>3. \A p \in Nat : Walk(c, p) = Walk(m, p)
      BY <1>3, <1>4, WalkIsAt
    <3>4. ASSUME Untranslated(m, virt)
          PROVE  s.m.panicked = FALSE /\ Translated(s.m, m, phys, virt, virt.length)
      <4>1. \A p \in PagesOf(virt) : p \in Nat
        BY <1>6 DEF PagesOf, Regions, EndOffset
      <4>2. Untranslated(c, virt)
        BY <3>3, <3>4, <4>1 DEF Untranslated
      <4>3. s.m.panicked = FALSE /\ Translated(s.m, c, phys, virt, virt.length)
        BY <2>1, <4>2
      <4>4. Translated(s.m, m, phys, virt, virt.length)
        BY <3>3, <4>3 DEF Translated
      <4>5. QED
        BY <4>3, <4>4
    <3>5. QED
      BY <1>9, <2>2, <3>1, <3>2, <3>4 DEF Hands
  <2>6. QED
    BY <2>3, <2>4, <2>5 DEF Outcome
<1>12. QED
  BY <1>10, <1>11

LEMMA AllocatePagesOutcome ==
  ASSUME NEW m, Sound(m), m.panicked = FALSE, NEW n \in Nat \ {0}
  PROVE  Outcome(allocate_pages(m, n), m, TRUE)
<1>1. PICK got :
        /\ TakesBoth(got, m)
        /\ IF got.phys = NoRegion THEN allocate_pages(m, n) = got
           ELSE /\ allocate_pages(m, n) =
                     Recorded(RecordPages(got.m, got.phys, got.virt), got.phys, got.virt)
                /\ SameLength(got)
  BY AllocationTakes
<1>2. CASE got.phys = NoRegion
  BY <1>1, <1>2, NothingIsHanded
<1>3. CASE got.phys # NoRegion
  BY <1>1, <1>3, PagesAreHanded
<1>4. QED
  BY <1>2, <1>3

LEMMA ReservePagesOutcome ==
  ASSUME NEW m, Sound(m), m.panicked = FALSE, NEW r \in Regions, r.length > 0, NEW backing
  PROVE  Outcome(reserve_page_region(m, r, backing), m, backing = "Identity" \/ Sized(r))
<1>1. PICK got : got = Unrecorded(m, r, backing)
  OBVIOUS
<1>2. PICK ret : ret = reserve_page_region(m, r, backing)
  OBVIOUS
<1>3. PICK certain : certain = (backing = "Identity" \/ Sized(r))
  OBVIOUS
<1>4. TakesBoth(got, m) /\ (got.phys # NoRegion /\ certain => SameLength(got))
  BY <1>1, <1>3, UnrecordedTakes
<1>5. CASE got.phys = NoRegion
  <2>1. ret = got
    BY <1>1, <1>2, <1>5 DEF reserve_page_region
  <2>2. QED
    BY <1>2, <1>3, <1>4, <1>5, <2>1, NothingIsHanded
<1>6. CASE got.phys # NoRegion /\ got.phys.length # got.virt.length
  <2>1. ret = Failed(Panic(got.m))
    BY <1>1, <1>2, <1>6 DEF reserve_page_region
  <2>2. PICK c, p : c = got.m /\ p = Panic(c)
    OBVIOUS
  <2>3. Sound(c) /\ SameTables(c, m) /\ NoneFreed(c, m)
    BY <1>4, <2>2 DEF TakesBoth
  <2>4. TablesLinked(c) /\ TablesLinked(m) /\ c \in Machines
    BY <2>3 DEF Sound, TablesLinked
  <2>5. \A i, e : At(c, i, e) = At(m, i, e)
    BY <2>3, <2>4, TablesStayLinked
  <2>6. TablesLinked(p) /\ SameBrokers(p, c) /\ \A i, e : At(p, i, e) = At(c, i, e)
    <3>1. Panicked(Panic(c), c)
      BY <2>4, PanicKeeps
    <3>2. QED
      BY <2>2, <3>1 DEF Panicked
  <2>7. Sound(p) /\ NoneFreed(p, m) /\ Extends(p, m)
    BY <2>3, <2>5, <2>6 DEF Sound, SameBrokers, NoneFreed, Extends
  <2>8. ret.m = p
    BY <2>1, <2>2 DEF Failed
  <2>9. certain => ~HasNodes(p)
    BY <1>4, <1>6, <2>2, <2>6 DEF SameLength, HasNodes, SameBrokers
  <2>10. QED
    BY <1>2, <1>3, <2>7, <2>8, <2>9 DEF Outcome
<1>7. CASE got.phys # NoRegion /\ got.phys.length = got.virt.length
  <2>1. ret = Recorded(RecordPages(got.m, got.phys, got.virt), got.phys, got.virt)
    BY <1>1, <1>2, <1>7 DEF reserve_page_region
  <2>2. Outcome(ret, m, certain)
    BY <1>4, <1>7, <2>1, PagesAreHanded
  <2>3. QED
    BY <1>2, <1>3, <2>2
<1>8. QED
  BY <1>5, <1>6, <1>7
-----------------------------------------------------------------------------
(***************************************************************************)
(* Sections.                                                               *)
(***************************************************************************)
NoTables(m) == \A i \in L1s : m.l1[i].type # "L2Ptr"

SectionsOf(virt) == {(virt.offset + k) % L1Entries : k \in 0 .. virt.length - 1}

\* What recording sections does.
SectionsWritten(s, m, phys, virt) ==
  /\ TablesLinked(s.m) /\ NoTables(s.m) /\ SameBrokers(s.m, m)
  /\ \A i \in L1s \ SectionsOf(virt) : s.m.l1[i] = m.l1[i]
  /\ phys.length = virt.length => s.ok = TRUE \/ s.m.panicked = TRUE
  /\ phys.length # virt.length => s.ok = FALSE /\ s.m.panicked = m.panicked
  /\ (\A i \in SectionsOf(virt) : m.l1[i] = Fault) => s.m.panicked = m.panicked

LEMMA SectionsAreEntries ==
  ASSUME NEW virt \in Regions
  PROVE  SectionsOf(virt) \subseteq L1s
<1>1. PICK n \in Nat \ {0} : n = L1Entries
  BY MmuSizes
<1>2. SUFFICES ASSUME NEW k \in 0 .. virt.length - 1 PROVE (virt.offset + k) % n \in 0 .. n - 1
  BY <1>1 DEF SectionsOf, L1s
<1>3. virt.offset + k \in Nat
  BY DEF Regions
<1>4. QED
  BY <1>3, Quotient

LEMMA RecordSectionsWrites ==
  ASSUME NEW m, TablesLinked(m), NoTables(m), NEW phys \in Regions, NEW virt \in Regions,
         NEW s, s = RecordSections(m, phys, virt)
  PROVE  SectionsWritten(s, m, phys, virt)
<1> DEFINE l1 == [k \in 0 .. virt.length - 1 |-> (virt.offset + k) % L1Entries]
           Meets == \E k \in DOMAIN l1 : m.l1[l1[k]] # Fault
<1>1. DOMAIN l1 = 0 .. virt.length - 1
  OBVIOUS
<1>2. CASE phys.length # virt.length
  <2>1. s.m = m /\ s.ok = FALSE
    BY <1>2 DEF RecordSections
  <2>2. QED
    BY <1>2, <2>1 DEF SectionsWritten, SameBrokers
<1>3. CASE phys.length = virt.length /\ Meets
  <2>1. s.m = Panic(m)
    BY <1>3 DEF RecordSections
  <2>2. PICK c : c = Panic(m)
    OBVIOUS
  <2>3. TablesLinked(c) /\ SameBrokers(c, m) /\ c.panicked = TRUE
    <3>1. Panicked(Panic(m), m)
      BY PanicKeeps
    <3>2. QED
      BY <2>2, <3>1 DEF Panicked
  <2>4. c.l1 = m.l1
    BY <2>2 DEF Panic, TablesLinked, Machines
  <2>5. NoTables(c) /\ \A i \in L1s : c.l1[i] = m.l1[i]
    BY <2>4 DEF NoTables
  <2>6. ~(\A i \in SectionsOf(virt) : m.l1[i] = Fault)
    BY <1>3 DEF SectionsOf
  <2>7. QED
    BY <1>3, <2>1, <2>2, <2>3, <2>5, <2>6 DEF SectionsWritten
<1>4. CASE phys.length = virt.length /\ ~Meets
  <2> DEFINE x == [i \in L1s |-> IF \E k \in DOMAIN l1 : l1[k] = i
                                 THEN Section(phys.offset + CHOOSE k \in DOMAIN l1 : l1[k] = i)
                                 ELSE m.l1[i]]
  <2>1. m \in Machines /\ m.l1 \in L1Tables
    BY MachineFields DEF TablesLinked
  <2>2. DOMAIN m.l1 = L1s
    BY <2>1 DEF L1Tables
  <2>3. s = [m |-> [m EXCEPT !.l1 = x], ok |-> TRUE]
    BY <1>4, <2>2 DEF RecordSections
  <2>4. \A i \in L1s : x[i] \in Entries /\ x[i].type # "L2Ptr"
    <3> TAKE i \in L1s
    <3>1. CASE \E k \in DOMAIN l1 : l1[k] = i
      <4>1. PICK k \in 0 .. virt.length - 1 : x[i] = Section(phys.offset + k)
        BY <1>1, <3>1
      <4>2. phys.offset + k \in Nat
        BY DEF Regions
      <4>3. QED
        BY <4>1, <4>2 DEF Section, Entries
    <3>2. CASE ~(\E k \in DOMAIN l1 : l1[k] = i)
      <4>1. x[i] = m.l1[i]
        BY <3>2
      <4>2. QED
        BY <2>1, <4>1 DEF L1Tables, NoTables
    <3>3. QED
      BY <3>1, <3>2
  <2>5. \A i \in L1s \ SectionsOf(virt) : x[i] = m.l1[i]
    BY <1>1 DEF SectionsOf
  <2>6. x = [i \in L1s |-> x[i]]
    OBVIOUS
  <2> HIDE DEF x
  <2>7. x \in L1Tables
    BY <2>4, <2>6 DEF L1Tables
  <2>8. PICK c : c = [m EXCEPT !.l1 = x]
    OBVIOUS
  <2>9. c \in Machines
    BY <2>1, <2>7, <2>8, MachineWith
  <2>10. /\ c.l1 = x /\ c.tables = m.tables /\ c.l2 = m.l2 /\ c.phys = m.phys
         /\ c.virt = m.virt /\ c.exhausted = m.exhausted /\ c.panicked = m.panicked
    BY <2>1, <2>8 DEF Machines
  <2>11. TablesLinked(c) /\ NoTables(c)
    BY <2>4, <2>9, <2>10 DEF TablesLinked, NoTables
  <2>12. s.m = c /\ s.ok = TRUE
    BY <2>3, <2>8
  <2>13. QED
    BY <1>4, <2>5, <2>10, <2>11, <2>12 DEF SectionsWritten, SameBrokers
<1>5. QED
  BY <1>2, <1>3, <1>4

\* No virtual page beyond the reach of the L1 table has been taken.
BeyondIsFree(m) == \A p \in Reach .. VirtualPages - 1 : p \in FreeIn(m.virt)

\* No free page is translated.
Clean(m) ==
  /\ m.panicked = FALSE
  /\ FreeIn(m.virt) \subseteq 0 .. VirtualPages - 1
  /\ \A p \in FreeIn(m.virt) : p < Reach => Walk(m, p) = NoPage

\* Region virt is q sections, from section a on.
IsSections(virt, a, q) ==
  /\ virt.offset = SectionPages * a /\ virt.length = SectionPages * q
  /\ as_sections(virt) = Region(a, q)

LEMMA SectionNumbers ==
  ASSUME NEW virt, Sized(virt), NEW r \in Regions, r.length > 0,
         Contains(virt, as_page_region(r))
  PROVE  \E a \in Nat, q \in Nat \ {0} : IsSections(virt, a, q)
<1>1. PICK n \in Nat \ {0} : n = SectionPages
  BY MmuSizes
<1>2. PICK o \in Nat, len \in Nat : o = virt.offset /\ len = virt.length
  BY SizedRegion
<1>3. n <= len
  <2>1. PICK x \in Nat, y \in Nat \ {0} : x = r.offset /\ y = r.length
    BY DEF Regions
  <2>2. o <= x * n /\ x * n + y * n <= o + len
    BY <1>1, <1>2, <2>1 DEF Contains, EndOffset, as_page_region, Region
  <2>3. n <= y * n /\ x * n \in Nat
    BY <2>1
  <2>4. QED
    BY <1>2, <2>2, <2>3
<1>4. PICK a \in Nat, q \in Nat \ {0} : o = n * a /\ len = n * q
  <2>1. CASE WithinSection(n, len, o)
    <3>1. PICK q \in Nat \ {0}, a \in Nat : len <= n /\ n = len * q /\ o = len * a
      BY <2>1 DEF WithinSection
    <3>2. len = n /\ n * 1 = n
      BY <1>1, <1>2, <1>3, <3>1
    <3>3. QED
      BY <3>1, <3>2
  <2>2. CASE WholeSections(n, len, o)
    <3>1. PICK q \in Nat \ {0}, a \in Nat : len = n * q /\ o = (n * q) * a
      BY <2>2 DEF WholeSections
    <3>2. o = n * (q * a) /\ q * a \in Nat
      BY <3>1, <1>1
    <3>3. QED
      BY <3>1, <3>2
  <2>3. QED
    BY <1>1, <1>2, <2>1, <2>2, SectionsOfSized
<1>5. o \div n = a
  <2>1. 0 \in 0 .. n - 1 /\ n * a + 0 = o
    BY <1>1, <1>4
  <2>2. QED
    BY <2>1, QuotientIs
<1>6. (len + n - 1) \div n = q
  <2>1. PICK z : z = n - 1
    OBVIOUS
  <2>2. z \in 0 .. n - 1 /\ len + n - 1 = n * q + z
    BY <1>1, <1>4, <2>1
  <2>3. QED
    BY <2>2, QuotientIs
<1>7. as_sections(virt) = Region(a, q)
  BY <1>1, <1>2, <1>5, <1>6 DEF as_sections, divide_up
<1>8. QED
  BY <1>1, <1>2, <1>4, <1>7 DEF IsSections

\* The L1 entries of a region of sections below the reach of the table.
LEMMA EntriesOfSections ==
  ASSUME NEW virt, NEW a \in Nat, NEW q \in Nat \ {0}, IsSections(virt, a, q),
         \A p \in PagesOf(virt) : p < Reach
  PROVE  /\ SectionsOf(Region(a, q)) = a .. a + q - 1 /\ a .. a + q - 1 \subseteq L1s
         /\ \A i \in a .. a + q - 1 : /\ SectionPages * i \in PagesOf(virt)
                                      /\ l1_index(SectionPages * i) = i
                                      /\ l2_index(SectionPages * i) \in L2s
         /\ \A p \in 0 .. Reach - 1 : p \notin PagesOf(virt) => l1_index(p) \notin a .. a + q - 1
<1>1. PICK n \in Nat \ {0} : n = SectionPages
  BY MmuSizes
<1>2. PICK e \in Nat \ {0} : e = L1Entries
  BY MmuSizes
<1>3. PICK len \in Nat : len = n * q
  BY <1>1
<1>4. PagesOf(virt) = n * a .. (n * a + len) - 1
  BY <1>1, <1>3 DEF IsSections, PagesOf, EndOffset
<1>5. Reach = n * e /\ Reach \in Nat
  BY <1>1, <1>2 DEF Reach
<1>6. ASSUME NEW i \in a .. a + q - 1
      PROVE  /\ n * i \in PagesOf(virt) /\ i \in Nat /\ i < e
             /\ (n * i) \div n = i
  <2>1. PICK k \in Nat : i = a + k /\ k < q
    <3>1. i - a \in Nat /\ i = a + (i - a) /\ i - a < q
      OBVIOUS
    <3>2. QED
      BY <3>1
  <2>2. n * i = n * a + n * k /\ n * k \in Nat /\ n * a \in Nat
    BY <2>1
  <2>3. n * k < len
    <3>1. PICK j \in Nat : q = (k + 1) + j
      <4>1. q - (k + 1) \in Nat /\ q = (k + 1) + (q - (k + 1))
        BY <2>1
      <4>2. QED
        BY <4>1
    <3>2. len = (n * k + n) + n * j /\ n * j \in Nat
      BY <1>3, <3>1, Z3T(60)
    <3>3. QED
      BY <2>2, <3>2
  <2>4. n * i \in PagesOf(virt)
    BY <1>3, <1>4, <2>2, <2>3
  <2>5. n * i < n * e
    BY <1>5, <2>4
  <2>6. i \in Nat /\ i < e
    <3>1. i \in Nat
      BY <2>1
    <3>2. CASE i >= e
      <4>1. PICK j \in Nat : i = e + j
        <5>1. i - e \in Nat /\ i = e + (i - e)
          BY <3>1, <3>2
        <5>2. QED
          BY <5>1
      <4>2. n * i = n * e + n * j /\ n * j \in Nat /\ n * e \in Nat
        BY <4>1, Z3T(60)
      <4>3. QED
        BY <2>5, <4>2
    <3>3. QED
      BY <3>1, <3>2
  <2>7. (n * i) \div n = i
    <3>1. 0 \in 0 .. n - 1 /\ n * i + 0 = n * i
      BY <2>6
    <3>2. QED
      BY <2>6, <3>1, QuotientIs
  <2>8. QED
    BY <2>4, <2>6, <2>7
<1>7. \A i \in Nat : i < e => i % e = i
  <2> TAKE i \in Nat
  <2>1. SUFFICES ASSUME i < e PROVE i % e = i
    OBVIOUS
  <2>2. i \in 0 .. e - 1 /\ e * 0 + i = i
    BY <2>1
  <2>3. QED
    BY <2>2, QuotientIs
<1>8. a .. a + q - 1 \subseteq L1s
  BY <1>2, <1>6 DEF L1s
<1>9. SectionsOf(Region(a, q)) = a .. a + q - 1
  <2>1. SectionsOf(Region(a, q)) = {(a + k) % e : k \in 0 .. q - 1}
    BY <1>2 DEF SectionsOf, Region
  <2>2. \A k \in 0 .. q - 1 : a + k \in a .. a + q - 1 /\ (a + k) % e = a + k
    <3> TAKE k \in 0 .. q - 1
    <3>1. a + k \in a .. a + q - 1
      OBVIOUS
    <3>2. QED
      BY <1>6, <1>7, <3>1
  <2>3. \A i \in a .. a + q - 1 : \E k \in 0 .. q - 1 : i = a + k
    <3> TAKE i \in a .. a + q - 1
    <3>1. i - a \in 0 .. q - 1 /\ i = a + (i - a)
      OBVIOUS
    <3>2. QED
      BY <3>1
  <2>4. ASSUME NEW i \in a .. a + q - 1 PROVE i \in SectionsOf(Region(a, q))
    <3>1. PICK k \in 0 .. q - 1 : i = a + k
      BY <2>3
    <3>2. i = (a + k) % e
      BY <2>2, <3>1
    <3>3. QED
      BY <2>1, <3>2
  <2>5. ASSUME NEW i \in SectionsOf(Region(a, q)) PROVE i \in a .. a + q - 1
    <3>1. PICK k \in 0 .. q - 1 : i = (a + k) % e
      BY <2>1, <2>5
    <3>2. a + k \in a .. a + q - 1 /\ (a + k) % e = a + k
      BY <2>2
    <3>3. QED
      BY <3>1, <3>2
  <2>6. QED
    BY <2>4, <2>5, Zenon
<1>10. ASSUME NEW i \in a .. a + q - 1
       PROVE  /\ SectionPages * i \in PagesOf(virt) /\ l1_index(SectionPages * i) = i
              /\ l2_index(SectionPages * i) \in L2s
  <2>1. n * i \in PagesOf(virt) /\ i \in Nat /\ i < e /\ (n * i) \div n = i
    BY <1>6
  <2>2. i % e = i
    BY <1>7, <2>1
  <2>3. l1_index(n * i) = i
    BY <1>1, <1>2, <2>1, <2>2 DEF l1_index
  <2>4. n * i \in Nat
    BY <2>1
  <2>5. QED
    BY <1>1, <2>1, <2>3, <2>4, Indexes
<1>11. ASSUME NEW p \in 0 .. Reach - 1, l1_index(p) \in a .. a + q - 1
       PROVE  p \in PagesOf(virt)
  <2>1. PICK i \in Nat, j \in 0 .. n - 1 : p = n * i + j /\ p \div n = i
    <3>1. p \in Nat
      BY <1>5
    <3>2. p = n * (p \div n) + (p % n) /\ p \div n \in Nat /\ p % n \in 0 .. n - 1
      BY <3>1, Quotient
    <3>3. QED
      BY <3>2
  <2>2. i < e
    <3>1. CASE i >= e
      <4>1. PICK k \in Nat : i = e + k
        <5>1. i - e \in Nat /\ i = e + (i - e)
          BY <3>1
        <5>2. QED
          BY <5>1
      <4>2. n * i = n * e + n * k /\ n * k \in Nat /\ n * e \in Nat
        BY <4>1, Z3T(60)
      <4>3. QED
        BY <1>5, <2>1, <4>2
    <3>2. QED
      BY <3>1
  <2>3. l1_index(p) = i
    BY <1>1, <1>2, <1>7, <2>1, <2>2 DEF l1_index
  <2>4. PICK k \in Nat : i = a + k /\ k < q
    <3>1. i - a \in Nat /\ i = a + (i - a) /\ i - a < q
      BY <1>11, <2>3
    <3>2. QED
      BY <3>1
  <2>5. n * i = n * a + n * k /\ n * k \in Nat /\ n * a \in Nat
    BY <2>4
  <2>6. n * k + n <= len
    <3>1. PICK h \in Nat : q = (k + 1) + h
      <4>1. q - (k + 1) \in Nat /\ q = (k + 1) + (q - (k + 1))
        BY <2>4
      <4>2. QED
        BY <4>1
    <3>2. len = (n * k + n) + n * h /\ n * h \in Nat
      BY <1>3, <3>1, Z3T(60)
    <3>3. QED
      BY <2>5, <3>2
  <2>7. QED
    BY <1>3, <1>4, <2>1, <2>5, <2>6
<1>12. QED
  BY <1>8, <1>9, <1>10, <1>11
-----------------------------------------------------------------------------
(***************************************************************************)
(* Boot.                                                                   *)
(***************************************************************************)
\* What reserving sections at boot comes to.
BootOutcome(c, m) ==
  \/ Flagged(c)
  \/ /\ Sound(c) /\ NoTables(c) /\ NoneFreed(c, m)
     /\ Clean(m) /\ BeyondIsFree(c) => Clean(c)

\* Sections of free pages are recorded without a panic, and no free page is translated.
LEMMA SectionsAreClean ==
  ASSUME NEW m, Sound(m), NoTables(m), Clean(m),
         NEW got, TakesBoth(got, m), got.phys # NoRegion,
         NEW a \in Nat, NEW q \in Nat \ {0}, IsSections(got.virt, a, q),
         NEW s, NEW phys, SectionsWritten(s, got.m, phys, Region(a, q)),
         BeyondIsFree(got.m)
  PROVE  Clean(s.m)
<1>1. PICK c, virt : c = got.m /\ virt = got.virt
  OBVIOUS
<1>2. /\ Sound(c) /\ SameTables(c, m) /\ NoneFreed(c, m) /\ Sized(virt)
      /\ PagesOf(virt) \subseteq FreeIn(m.virt) /\ PagesOf(virt) \cap FreeIn(c.virt) = {}
  BY <1>1 DEF TakesBoth, BothTaken
<1>3. c \in Machines /\ m \in Machines /\ TablesLinked(m) /\ TablesLinked(c)
  BY <1>2 DEF Sound, TablesLinked
<1>4. /\ m.panicked = FALSE /\ FreeIn(m.virt) \subseteq 0 .. VirtualPages - 1
      /\ \A p \in FreeIn(m.virt) : p < Reach => Walk(m, p) = NoPage
  BY DEF Clean
<1>5. VirtualPages \in Nat /\ Reach \in Nat
  <2>1. \A d \in Depths : page_length_from_depth[d] \in Nat
    BY DepthsAreNumbers, SpanExceeds DEF Span
  <2>2. QED
    BY <2>1, MmuAssumption, MmuSizes DEF Reach
<1>6. \A p \in PagesOf(virt) : p \in 0 .. Reach - 1
  <2> TAKE p \in PagesOf(virt)
  <2>1. p \in 0 .. VirtualPages - 1 /\ p \notin FreeIn(c.virt)
    BY <1>2, <1>4
  <2>2. QED
    BY <1>1, <1>5, <2>1 DEF BeyondIsFree
<1>7. /\ SectionsOf(Region(a, q)) = a .. a + q - 1 /\ a .. a + q - 1 \subseteq L1s
      /\ \A i \in a .. a + q - 1 : /\ SectionPages * i \in PagesOf(virt)
                                   /\ l1_index(SectionPages * i) = i
                                   /\ l2_index(SectionPages * i) \in L2s
      /\ \A p \in 0 .. Reach - 1 : p \notin PagesOf(virt) => l1_index(p) \notin a .. a + q - 1
  <2>1. IsSections(virt, a, q) /\ \A p \in PagesOf(virt) : p < Reach
    BY <1>1, <1>5, <1>6
  <2>2. QED
    BY <2>1, EntriesOfSections
<1>8. c.l1 = m.l1 /\ c.tables = m.tables /\ c.panicked = FALSE
  BY <1>2, <1>4 DEF SameTables
<1>9. ASSUME NEW i \in a .. a + q - 1 PROVE c.l1[i] = Fault
  <2>1. PICK p : p = SectionPages * i
    OBVIOUS
  <2>2. p \in PagesOf(virt) /\ l1_index(p) = i /\ l2_index(p) \in L2s /\ i \in L1s
    BY <1>7, <2>1
  <2>3. p \in 0 .. Reach - 1 /\ p \in FreeIn(m.virt)
    BY <1>2, <1>6, <2>2
  <2>4. Walk(m, p) = NoPage
    BY <1>4, <1>5, <2>3
  <2>5. At(m, i, l2_index(p)) = NoPage
    BY <1>3, <1>5, <2>2, <2>3, <2>4, WalkIsAt
  <2>6. m.l1[i].type # "Section"
    BY <1>3, <2>2, <2>5, AtIsNumber DEF NoPage
  <2>7. m.l1[i] \in Entries /\ m.l1[i].type # "L2Ptr"
    BY <1>3, <2>2, MachineFields DEF L1Tables, NoTables
  <2>8. QED
    BY <1>8, <2>6, <2>7, EntryTypes
<1>10. s.m.panicked = FALSE
  BY <1>1, <1>7, <1>8, <1>9 DEF SectionsWritten
<1>11. SameBrokers(s.m, c) /\ TablesLinked(s.m) /\ NoTables(s.m)
       /\ \A i \in L1s \ (a .. a + q - 1) : s.m.l1[i] = c.l1[i]
  BY <1>1, <1>7 DEF SectionsWritten
<1>12. FreeIn(s.m.virt) \subseteq FreeIn(m.virt) /\ FreeIn(s.m.virt) = FreeIn(c.virt)
  BY <1>2, <1>11 DEF NoneFreed, SameBrokers
<1>13. ASSUME NEW p \in FreeIn(s.m.virt), p < Reach PROVE Walk(s.m, p) = NoPage
  <2>1. p \in 0 .. Reach - 1 /\ p \in Nat /\ p \notin PagesOf(virt)
    BY <1>2, <1>4, <1>5, <1>12, <1>13
  <2>2. PICK i \in L1s, e \in L2s : i = l1_index(p) /\ e = l2_index(p)
    BY <2>1, Indexes
  <2>3. i \notin a .. a + q - 1
    BY <1>7, <2>1, <2>2
  <2>4. s.m.l1[i] = m.l1[i] /\ m.l1[i].type # "L2Ptr"
    BY <1>8, <1>11, <2>3 DEF NoTables
  <2>5. m.l1[i] \in Entries
    BY <1>3, MachineFields DEF L1Tables
  <2>6. At(s.m, i, e) = At(m, i, e)
    BY <2>4, <2>5, EntryTypes DEF At
  <2>7. Walk(m, p) = NoPage
    BY <1>4, <1>12, <1>13
  <2>8. s.m \in Machines
    BY <1>11 DEF TablesLinked
  <2>9. QED
    BY <1>3, <2>1, <2>2, <2>6, <2>7, <2>8, WalkIsAt
<1>14. QED
  BY <1>4, <1>10, <1>12, <1>13 DEF Clean

LEMMA BootCall ==
  ASSUME NEW m, Sound(m), NoTables(m), NEW r \in Regions, r.length > 0, NEW backing,
         NEW ret, ret = reserve_section_region(m, r, backing)
  PROVE  BootOutcome(ret.m, m)
<1>1. CASE m.panicked
  <2>1. ret.m = m
    BY <1>1 DEF reserve_section_region, Failed
  <2>2. ~Clean(m)
    BY <1>1 DEF Clean
  <2>3. QED
    BY <2>1, <2>2 DEF BootOutcome, NoneFreed
<1>2. CASE ~m.panicked
  <2>1. PICK pages : pages = as_page_region(r)
    OBVIOUS
  <2>2. pages \in Regions /\ pages.length > 0
    <3>1. PICK n \in Nat \ {0} : n = SectionPages
      BY MmuSizes
    <3>2. \A x \in Nat, y \in Nat \ {0} : x * n \in Nat /\ y * n \in Nat /\ y * n > 0
      BY <3>1
    <3>3. r.offset \in Nat /\ r.length \in Nat \ {0}
      BY DEF Regions
    <3>4. QED
      BY <2>1, <3>1, <3>2, <3>3 DEF as_page_region, Region, Regions
  <2>3. PICK got : got = Unrecorded(m, pages, backing)
    OBVIOUS
  <2>4. TakesBoth(got, m) /\ (got.phys # NoRegion => Contains(got.virt, pages))
    BY <2>2, <2>3, UnrecordedTakes
  <2>5. PICK c : c = got.m
    OBVIOUS
  <2>6. Sound(c) /\ SameTables(c, m) /\ NoneFreed(c, m)
    BY <2>4, <2>5 DEF TakesBoth
  <2>7. TablesLinked(c) /\ TablesLinked(m) /\ c \in Machines /\ m \in Machines
    BY <2>6 DEF Sound, TablesLinked
  <2>8. NoTables(c)
    BY <2>6 DEF SameTables, NoTables
  <2>9. CASE got.phys = NoRegion
    <3>1. ret = got
      BY <1>2, <2>1, <2>3, <2>9 DEF reserve_section_region
    <3>2. ASSUME Clean(m) PROVE Clean(c)
      <4>1. \A i, e : At(c, i, e) = At(m, i, e)
        BY <2>6, <2>7, TablesStayLinked
      <4>2. \A p \in Nat : Walk(c, p) = Walk(m, p)
        BY <2>7, <4>1, WalkIsAt
      <4>3. FreeIn(c.virt) \subseteq FreeIn(m.virt) /\ c.panicked = m.panicked
        BY <2>6 DEF NoneFreed, SameTables
      <4>4. QED
        BY <3>2, <4>2, <4>3 DEF Clean
    <3>3. QED
      BY <2>5, <2>6, <2>8, <3>1, <3>2 DEF BootOutcome
  <2>10. CASE got.phys # NoRegion
    <3>1. PICK phys, virt : phys = as_sections(got.phys) /\ virt = as_sections(got.virt)
      OBVIOUS
    <3>2. Sized(got.virt) /\ Sized(got.phys)
      BY <2>4, <2>10 DEF TakesBoth, BothTaken
    <3>3. PICK a \in Nat, q \in Nat \ {0} : IsSections(got.virt, a, q)
      BY <2>1, <2>4, <2>10, <3>2, SectionNumbers
    <3>4. virt = Region(a, q) /\ virt \in Regions
      BY <3>1, <3>3 DEF IsSections, Region, Regions
    <3>5. phys \in Regions
      <4>1. PICK n \in Nat \ {0} : n = SectionPages
        BY MmuSizes
      <4>2. PICK o \in Nat, len \in Nat : o = got.phys.offset /\ len = got.phys.length
        BY <3>2, SizedRegion
      <4>3. PICK x : x = len + n - 1
        OBVIOUS
      <4>4. x \in Nat
        BY <4>1, <4>2, <4>3
      <4>5. o \div n \in Nat /\ x \div n \in Nat
        BY <4>1, <4>2, <4>4, Quotient
      <4>6. phys = Region(o \div n, x \div n)
        BY <3>1, <4>1, <4>2, <4>3 DEF as_sections, divide_up
      <4>7. QED
        BY <4>5, <4>6 DEF Region, Regions
    <3>6. PICK s : s = RecordSections(c, phys, virt)
      OBVIOUS
    <3>7. SectionsWritten(s, c, phys, virt)
      BY <2>7, <2>8, <3>4, <3>5, <3>6, RecordSectionsWrites
    <3>8. ret = Recorded(s, got.phys, got.virt)
      BY <1>2, <2>1, <2>3, <2>5, <2>10, <3>1, <3>6 DEF reserve_section_region
    <3>9. TablesLinked(s.m) /\ NoTables(s.m) /\ SameBrokers(s.m, c)
      BY <3>7 DEF SectionsWritten
    <3>10. CASE s.ok \/ s.m.panicked
      <4>1. ret.m = s.m
        BY <3>8, <3>10 DEF Recorded
      <4>2. Sound(s.m) /\ NoneFreed(s.m, m)
        BY <2>6, <3>9 DEF Sound, NoneFreed, SameBrokers
      <4>3. ASSUME Clean(m), BeyondIsFree(s.m) PROVE Clean(s.m)
        <5>1. BeyondIsFree(got.m)
          BY <2>5, <3>9, <4>3 DEF BeyondIsFree, SameBrokers
        <5>2. SectionsWritten(s, got.m, phys, Region(a, q))
          BY <2>5, <3>4, <3>7
        <5>3. QED
          BY <2>4, <2>10, <3>3, <4>3, <5>1, <5>2, SectionsAreClean
      <4>4. QED
        BY <3>9, <4>1, <4>2, <4>3 DEF BootOutcome
    <3>11. CASE ~(s.ok \/ s.m.panicked)
      <4>1. s.m \in Machines
        BY <3>9 DEF TablesLinked
      <4>2. PICK d : d = s.m
        OBVIOUS
      <4>3. PICK x, y : x = free_region(d.phys, got.phys) /\ y = free_region(d.virt, got.phys)
        OBVIOUS
      <4>4. "exhausted" \in DOMAIN d
        BY <4>1, <4>2 DEF Machines
      <4>5. ret.m = [d EXCEPT !.phys = x, !.virt = y, !.exhausted = TRUE]
        BY <3>8, <3>11, <4>1, <4>2, <4>3 DEF Recorded, Machines
      <4>6. Flagged(ret.m)
        BY <4>4, <4>5 DEF Flagged
      <4>7. QED
        BY <4>6 DEF BootOutcome
    <3>12. QED
      BY <3>10, <3>11
  <2>11. QED
    BY <2>9, <2>10
<1>3. QED
  BY <1>1, <1>2

\* Tables that have run out stay so.
LEMMA FlaggedSections ==
  ASSUME NEW m, Flagged(m), NEW r, NEW backing
  PROVE  Flagged(reserve_section_region(m, r, backing).m)
<1>1. CASE m.panicked
  BY <1>1 DEF reserve_section_region, Failed
<1>2. CASE ~m.panicked
  <2>1. PICK got : got = Unrecorded(m, as_page_region(r), backing)
    OBVIOUS
  <2>2. Flagged(got.m)
    BY <2>1 DEF Unrecorded, Failed, Flagged
  <2>3. CASE got.phys = NoRegion
    BY <1>2, <2>1, <2>2, <2>3 DEF reserve_section_region
  <2>4. CASE got.phys # NoRegion
    <3>1. PICK s : s = RecordSections(got.m, as_sections(got.phys), as_sections(got.virt))
      OBVIOUS
    <3>2. reserve_section_region(m, r, backing) = Recorded(s, got.phys, got.virt)
      BY <1>2, <2>1, <2>4, <3>1 DEF reserve_section_region
    <3>3. Flagged(s.m)
      BY <2>2, <3>1, FlaggedStays DEF RecordSections
    <3>4. QED
      BY <3>2, <3>3, FlaggedRecorded
  <2>5. QED
    BY <2>3, <2>4
<1>3. QED
  BY <1>1, <1>2

LEMMA SizesAreSpans ==
  /\ \A n \in {SectionPages, VirtualPages, PhysicalPages, DeviceRegion.length * SectionPages} :
       n \in Nat \ {0} /\ \E d \in Depths : n = Span(d)
  /\ Sized(Region(0, PhysicalPages)) /\ Sized(Region(0, VirtualPages))
<1>1. ASSUME NEW n \in {SectionPages, VirtualPages, PhysicalPages,
                        DeviceRegion.length * SectionPages}
      PROVE  n \in Nat \ {0} /\ \E d \in Depths : n = Span(d)
  <2>1. PICK d \in Depths : n = page_length_from_depth[d]
    BY MmuAssumption
  <2>2. n = Span(d) /\ d \in Nat
    BY <2>1, DepthsAreNumbers DEF Span
  <2>3. QED
    BY <2>2, DepthOfSpan
<1>2. ASSUME NEW n \in {VirtualPages, PhysicalPages}
      PROVE  Sized(Region(0, n))
  <2>1. PICK d \in Depths : n = Span(d) /\ n \in Nat \ {0}
    BY <1>1
  <2>2. 0 % n = 0
    <3>1. 0 \in 0 .. n - 1 /\ n * 0 + 0 = 0
      BY <2>1
    <3>2. QED
      BY <2>1, <3>1, QuotientIs
  <2>3. QED
    BY <2>1, <2>2 DEF Sized, FitsList, Region, Regions
<1>3. QED
  BY <1>1, <1>2

\* The devices' region has a list, and none of its pages is physical memory.
LEMMA DevicesAreSized ==
  /\ Sized(as_page_region(DeviceRegion)) /\ DeviceRegion \in Regions /\ DeviceRegion.length > 0
  /\ PhysicalPages <= as_page_region(DeviceRegion).offset
<1>1. PICK o \in Nat, len \in Nat : o = DeviceRegion.offset /\ len = DeviceRegion.length
  BY MmuAssumption DEF Regions
<1>2. PICK n \in Nat \ {0} : n = SectionPages
  BY MmuSizes
<1>3. PICK d \in Depths : len * n = Span(d) /\ len * n \in Nat \ {0}
  BY <1>1, <1>2, SizesAreSpans
<1>4. len \in Nat \ {0}
  BY <1>2, <1>3
<1>5. (o * n) % (len * n) = 0
  <2>1. PICK q \in Nat : o = len * q
    <3>1. o % len = 0
      BY <1>1, MmuAssumption
    <3>2. o = len * (o \div len) + (o % len) /\ o \div len \in Nat
      BY <1>4, Quotient
    <3>3. QED
      BY <3>1, <3>2
  <2>2. PICK w \in Nat \ {0} : w = len * n
    BY <1>3
  <2>3. o * n = w * q + 0
    BY <2>1, <2>2, Z3T(60)
  <2>4. 0 \in 0 .. w - 1
    BY <2>2
  <2>5. PICK z \in Nat : z = 0
    OBVIOUS
  <2>6. (w * q + z) % w = z
    BY <2>2, <2>4, <2>5, QuotientIs
  <2>7. QED
    BY <2>2, <2>3, <2>5, <2>6
<1>6. as_page_region(DeviceRegion) = Region(o * n, len * n) /\ o * n \in Nat
  BY <1>1, <1>2 DEF as_page_region
<1>7. FitsList(Region(o * n, len * n), d)
  BY <1>3, <1>5, <1>6 DEF FitsList, Region, Regions
<1>8. PhysicalPages <= o * n
  BY <1>1, <1>2, MmuAssumption
<1>9. QED
  BY <1>1, <1>4, <1>6, <1>7, <1>8, MmuAssumption DEF Sized, Region

\* A region outside of a broker's memory is in no one's hands.
LEMMA OutsideIsInHand ==
  ASSUME NEW b, Layout(b, {}), NEW n \in Nat, FreeIn(b) \subseteq PagesOf(Region(0, n)),
         NEW r, Sized(r), n <= r.offset
  PROVE  InHand(b, {}, r)
<1>1. PICK H : H = {}
  OBVIOUS
<1>2. BrokerInv(b) /\ \A s, t \in Nodes(b) : s # t => Apart(b.region[s], b.region[t])
  BY <1>1 DEF Layout
<1>3. ASSUME NEW s \in Nodes(b) PROVE Apart(b.region[s], r)
  <2>1. PICK q : q = b.region[s]
    OBVIOUS
  <2>2. Sized(q)
    BY <1>2, <2>1, NodeRegions
  <2>3. PICK o \in Nat, len \in Nat \ {0} : o = q.offset /\ len = q.length
    BY <2>2, SizedRegion
  <2>4. o + len - 1 \in PagesOf(q)
    BY <2>3 DEF PagesOf, EndOffset
  <2>5. o + len - 1 \in FreeIn(b)
    BY <2>1, <2>4 DEF FreeIn, PagesIn
  <2>6. o + len - 1 <= n - 1
    BY <2>5 DEF PagesOf, EndOffset, Region
  <2>7. r.offset \in Nat
    BY SizedRegion
  <2>8. QED
    BY <2>1, <2>3, <2>6, <2>7 DEF Apart, EndOffset
<1>4. Layout(b, {r})
  BY <1>2, <1>3 DEF Layout
<1>5. PICK G : G = H \cup {r}
  OBVIOUS
<1>6. G = {r}
  BY <1>1, <1>5
<1>7. Layout(b, G)
  BY <1>4, <1>6
<1>8. QED
  BY <1>1, <1>5, <1>7 DEF InHand

LEMMA SlabPagesFit ==
  ASSUME NEW n \in Nat
  PROVE  SlabPagesAdded(n, TRUE) \in Nat /\ SlabPagesAdded(n, TRUE) <= n
<1>1. n = 2 * (n \div 2) + (n % 2) /\ n \div 2 \in Nat /\ n % 2 \in 0 .. 1
  OBVIOUS
<1>2. QED
  BY <1>1 DEF SlabPagesAdded

\* Before boot nothing is translated.
LEMMA BeforeBoot == Sound(Unmapped) /\ NoTables(Unmapped) /\ Clean(Unmapped)
<1>1. PICK pages : pages = as_page_region(DeviceRegion)
  OBVIOUS
<1>2. PICK b, v : b = NewBroker(Region(0, PhysicalPages), BrokerScratch)
                  /\ v = NewBroker(Region(0, VirtualPages), BrokerScratch)
  OBVIOUS
<1>3. PICK p : p = free_region(b, pages)
  OBVIOUS
<1>4. PICK H : H = {}
  OBVIOUS
<1>5. PhysicalPages \in Nat /\ VirtualPages \in Nat
  BY SizesAreSpans
<1>6. Layout(b, H) /\ PagesIn(b, H) \subseteq PagesOf(Region(0, PhysicalPages))
  BY <1>2, <1>4, SizesAreSpans, MmuSizes, NewBrokerLayout
<1>7. Layout(v, H) /\ PagesIn(v, H) \subseteq PagesOf(Region(0, VirtualPages))
  BY <1>2, <1>4, SizesAreSpans, MmuSizes, NewBrokerLayout
<1>8. InHand(b, H, pages)
  BY <1>1, <1>4, <1>5, <1>6, DevicesAreSized, OutsideIsInHand DEF FreeIn
<1>9. Layout(p, H)
  BY <1>3, <1>8, FreeKeepsLayout
<1>10. p \in Brokers /\ v \in Brokers
  BY <1>7, <1>9, LayoutIsStructure
<1>11. PICK k \in Nat : k = SlabPagesAdded(PageScratch, TRUE) /\ k <= PageScratch
  BY MmuSizes, SlabPagesFit
<1>12. PICK l : l = [bits |-> {}, slabs |-> TablesPerPage * k]
  OBVIOUS
<1>13. PICK x : x = [i \in L1s |-> Fault]
  OBVIOUS
<1>14. PICK t : t = [u \in Tables |-> EmptyTable]
  OBVIOUS
<1>15. PICK m : m = Unmapped
  OBVIOUS
<1>16. m = [phys |-> p, virt |-> v, l1 |-> x, tables |-> t, l2 |-> l,
            spare |-> NoTable, exhausted |-> FALSE, panicked |-> FALSE]
  BY <1>1, <1>2, <1>3, <1>11, <1>12, <1>13, <1>14, <1>15, Zenon DEF Unmapped, L1s
<1>17. x \in L1Tables
  BY <1>13 DEF L1Tables, Entries
<1>18. t \in L2Tables
  <2>1. EmptyTable \in [L2s -> Nat \cup {NoPage}]
    BY DEF EmptyTable, L2s
  <2>2. QED
    BY <1>14, <2>1 DEF L2Tables
<1>19. TablesPerPage * k \in Nat /\ 0 .. (TablesPerPage * k) - 1 \subseteq Tables
  <2>1. PICK y \in Nat, z \in Nat : y = TablesPerPage /\ z = PageScratch
    BY MmuSizes
  <2>2. PICK j \in Nat : z = k + j
    <3>1. k <= z
      BY <1>11, <2>1
    <3>2. \A a, c \in Nat : a <= c => c - a \in Nat /\ c = a + (c - a)
      OBVIOUS
    <3>3. k \in Nat /\ z \in Nat
      BY <1>11, <2>1
    <3>4. QED
      BY <3>1, <3>2, <3>3
  <2>3. y * z = y * k + y * j /\ y * j \in Nat /\ y * k \in Nat
    BY <2>1, <2>2, Z3T(60)
  <2>4. QED
    BY <2>1, <2>3 DEF Tables
<1>20. l \in Slabs
  BY <1>12, <1>19 DEF Slabs
<1>21. m \in Machines
  BY <1>10, <1>16, <1>17, <1>18, <1>20 DEF Machines, L1Tables, L2Tables, Slabs, L1s, L2s
<1>22. /\ m.phys = p /\ m.virt = v /\ m.l1 = x /\ m.l2 = l /\ m.exhausted = FALSE
       /\ m.panicked = FALSE
  BY <1>16
<1>23. \A i \in L1s : m.l1[i] = Fault
  BY <1>13, <1>22
<1>24. TablesLinked(m) /\ NoTables(m)
  <2>1. \A i \in L1s : m.l1[i].type # "L2Ptr"
    BY <1>23 DEF Fault
  <2>2. 0 .. m.l2.slabs - 1 \subseteq Tables
    BY <1>12, <1>19, <1>22
  <2>3. QED
    BY <1>21, <1>22, <2>1, <2>2 DEF TablesLinked, NoTables
<1>25. Sound(m)
  BY <1>4, <1>7, <1>9, <1>22, <1>24 DEF Sound
<1>26. Clean(m)
  <2>1. FreeIn(m.virt) \subseteq 0 .. VirtualPages - 1
    BY <1>4, <1>5, <1>7, <1>22 DEF FreeIn, PagesOf, EndOffset, Region
  <2>2. ASSUME NEW q \in FreeIn(m.virt) PROVE Walk(m, q) = NoPage
    <3>1. q \in Nat
      BY <1>5, <2>1
    <3>2. Walk(m, q) = At(m, l1_index(q), l2_index(q)) /\ l1_index(q) \in L1s
      BY <1>21, <3>1, WalkIsAt, Indexes
    <3>3. QED
      BY <1>23, <3>2 DEF At, Fault
  <2>3. QED
    BY <1>22, <2>1, <2>2 DEF Clean
<1>27. QED
  BY <1>15, <1>24, <1>25, <1>26

\* What all of boot comes to.
Booted(m) ==
  Flagged(m) \/ (Sound(m) /\ NoTables(m) /\ (BeyondIsFree(m) => Clean(m)))

LEMMA BootStep ==
  ASSUME NEW m, Booted(m), NEW r \in Regions, r.length > 0, NEW backing
  PROVE  Booted(reserve_section_region(m, r, backing).m)
<1>1. PICK c : c = reserve_section_region(m, r, backing).m
  OBVIOUS
<1>2. CASE Flagged(m)
  BY <1>2, FlaggedSections DEF Booted
<1>3. CASE ~Flagged(m)
  <2>1. Sound(m) /\ NoTables(m) /\ (BeyondIsFree(m) => Clean(m))
    BY <1>3 DEF Booted
  <2>2. BootOutcome(c, m)
    BY <1>1, <2>1, BootCall
  <2>3. ASSUME BeyondIsFree(c), NoneFreed(c, m) PROVE BeyondIsFree(m)
    BY <2>3 DEF BeyondIsFree, NoneFreed
  <2>4. Booted(c)
    BY <2>1, <2>2, <2>3 DEF Booted, BootOutcome
  <2>5. QED
    BY <1>1, <2>4
<1>4. QED
  BY <1>2, <1>3

LEMMA BootSucceeds ==
  ASSUME NEW c \in CodeSections
  PROVE  Booted(init_page_tables(c))
<1>1. c \in Nat \ {0}
  BY MmuAssumption
<1>2. /\ CodeRegion(c) \in Regions /\ CodeRegion(c).length > 0
      /\ L1Region(c) \in Regions /\ L1Region(c).length > 0
      /\ ScratchRegion(c) \in Regions /\ ScratchRegion(c).length > 0
  BY <1>1 DEF CodeRegion, L1Region, ScratchRegion, Region, Regions
<1>3. PICK m0 : m0 = Unmapped
  OBVIOUS
<1>4. PICK m1 : m1 = reserve_section_region(m0, CodeRegion(c), "Identity").m
  OBVIOUS
<1>5. PICK m2 : m2 = reserve_section_region(m1, L1Region(c), "Identity").m
  OBVIOUS
<1>6. PICK m3 : m3 = reserve_section_region(m2, ScratchRegion(c), "Mixed").m
  OBVIOUS
<1>7. init_page_tables(c) = reserve_section_region(m3, DeviceRegion, "Identity").m
  BY <1>3, <1>4, <1>5, <1>6 DEF init_page_tables
<1>8. Booted(m0)
  BY <1>3, BeforeBoot DEF Booted
<1>9. Booted(m1)
  BY <1>2, <1>4, <1>8, BootStep
<1>10. Booted(m2)
  BY <1>2, <1>5, <1>9, BootStep
<1>11. Booted(m3)
  BY <1>2, <1>6, <1>10, BootStep
<1>12. DeviceRegion \in Regions /\ DeviceRegion.length > 0
  BY DevicesAreSized
<1>13. QED
  BY <1>7, <1>11, <1>12, BootStep

LEMMA FreeAreNumbers ==
  ASSUME NEW b, Layout(b, {})
  PROVE  FreeIn(b) \subseteq Nat
<1>1. PICK H : H = {}
  OBVIOUS
<1>2. BrokerInv(b)
  BY <1>1 DEF Layout
<1>3. \A s \in Nodes(b) : b.region[s] \in Regions
  BY <1>2, NodeRegions
<1>4. \A s \in Nodes(b) : PagesOf(b.region[s]) \subseteq Nat
  BY <1>3 DEF PagesOf, EndOffset, Regions
<1>5. QED
  BY <1>4 DEF FreeIn, PagesIn

\* Pairs of pages that callers have.
PairsOf(ret) ==
  {<<ret.virt.offset + i, ret.phys.offset + i>> : i \in 0 .. ret.virt.length - 1}

\* Pages that callers have are translated, and neither free nor in two hands.
Owned(m, pairs) ==
  /\ \A vp \in pairs :
       /\ vp \in (0 .. Reach - 1) \X Nat
       /\ vp[1] \notin FreeIn(m.virt) /\ vp[2] \notin FreeIn(m.phys)
       /\ Walk(m, vp[1]) = vp[2]
  /\ \A vp, wq \in pairs : vp = wq \/ (vp[1] # wq[1] /\ vp[2] # wq[2])

\* A call within the limits hands out pages that nobody has.
LEMMA NothingIsOwned ==
  ASSUME NEW m, Sound(m), Clean(m), NEW pairs, Owned(m, pairs),
         NEW ret, Sound(ret.m), NoneFreed(ret.m, m), HandsNothing(ret, m)
  PROVE  Clean(ret.m) /\ Owned(ret.m, pairs) /\ PairsOf(ret) = {}
<1>1. PICK c : c = ret.m
  OBVIOUS
<1>2. /\ FreeIn(c.phys) \subseteq FreeIn(m.phys) /\ FreeIn(c.virt) \subseteq FreeIn(m.virt)
      /\ c.panicked = FALSE /\ \A i, e : At(c, i, e) = At(m, i, e)
  BY <1>1 DEF NoneFreed, HandsNothing
<1>3. c \in Machines /\ m \in Machines
  BY <1>1 DEF Sound, TablesLinked
<1>4. \A p \in Nat : Walk(c, p) = Walk(m, p)
  BY <1>2, <1>3, WalkIsAt
<1>5. FreeIn(c.virt) \subseteq Nat
  BY <1>1, FreeAreNumbers DEF Sound
<1>6. Clean(c)
  BY <1>2, <1>4, <1>5 DEF Clean
<1>7. Owned(c, pairs)
  BY <1>2, <1>4 DEF Owned
<1>8. PairsOf(ret) = {}
  <2>1. ret.virt.length = 0
    BY NoRegionIsShort DEF HandsNothing
  <2>2. 0 .. ret.virt.length - 1 = {}
    BY <2>1
  <2>3. QED
    BY <2>2 DEF PairsOf
<1>9. QED
  BY <1>1, <1>6, <1>7, <1>8

LEMMA InRange ==
  ASSUME NEW o \in Nat, NEW len \in Nat, NEW i \in 0 .. len - 1
  PROVE  o + i \in o .. o + len - 1 /\ o + i \in Nat
OBVIOUS

LEMMA PagesAreOwned ==
  ASSUME NEW m, Sound(m), Clean(m), NEW pairs, Owned(m, pairs),
         NEW ret, Sound(ret.m), NoneFreed(ret.m, m), Extends(ret.m, m), Hands(ret, m),
         BeyondIsFree(ret.m)
  PROVE  /\ Clean(ret.m) /\ Owned(ret.m, pairs \cup PairsOf(ret))
         /\ \A vp \in PairsOf(ret) : vp[2] \in FreeIn(m.phys)
<1>1. PICK c, virt, phys : c = ret.m /\ virt = ret.virt /\ phys = ret.phys
  OBVIOUS
<1>2. /\ FreeIn(c.phys) \subseteq FreeIn(m.phys) /\ FreeIn(c.virt) \subseteq FreeIn(m.virt)
      /\ Sized(virt) /\ Sized(phys) /\ phys.length = virt.length
      /\ PagesOf(phys) \subseteq FreeIn(m.phys) \ FreeIn(c.phys)
      /\ PagesOf(virt) \subseteq FreeIn(m.virt) \ FreeIn(c.virt)
      /\ Untranslated(m, virt) =>
           c.panicked = FALSE /\ Translated(c, m, phys, virt, virt.length)
  BY <1>1 DEF NoneFreed, Hands, BothTaken
<1>3. c \in Machines /\ m \in Machines /\ Reach \in Nat /\ VirtualPages \in Nat
  BY <1>1, MmuSizes, SizesAreSpans DEF Sound, TablesLinked, Reach
<1>4. /\ FreeIn(m.virt) \subseteq 0 .. VirtualPages - 1
      /\ \A p \in FreeIn(m.virt) : p < Reach => Walk(m, p) = NoPage
  BY DEF Clean
<1>5. \A p \in PagesOf(virt) : p \in 0 .. Reach - 1
  <2> TAKE p \in PagesOf(virt)
  <2>1. p \in 0 .. VirtualPages - 1 /\ p \notin FreeIn(c.virt)
    BY <1>2, <1>4
  <2>2. QED
    BY <1>1, <1>3, <2>1 DEF BeyondIsFree
<1>6. Untranslated(m, virt)
  BY <1>2, <1>3, <1>4, <1>5 DEF Untranslated
<1>7. c.panicked = FALSE /\ Translated(c, m, phys, virt, virt.length)
  BY <1>2, <1>6
<1>8. PICK o \in Nat, f \in Nat, len \in Nat :
        o = virt.offset /\ f = phys.offset /\ len = virt.length /\ len = phys.length
  BY <1>2, SizedRegion
<1>9. PagesOf(virt) = o .. o + len - 1 /\ PagesOf(phys) = f .. f + len - 1
  BY <1>8 DEF PagesOf, EndOffset
<1>10. /\ \A j \in 0 .. len - 1 : Walk(c, o + j) = f + j
       /\ \A p \in 0 .. Reach - 1 : p \notin PagesOf(virt) => Walk(c, p) = Walk(m, p)
  BY <1>7, <1>8, <1>9 DEF Translated
<1>11. PairsOf(ret) = {<<o + i, f + i>> : i \in 0 .. len - 1}
  BY <1>1, <1>8 DEF PairsOf
<1>12. Clean(c)
  <2>1. \A p \in FreeIn(c.virt) : p < Reach => Walk(c, p) = NoPage
    <3> TAKE p \in FreeIn(c.virt)
    <3>1. p \in FreeIn(m.virt) /\ p \notin PagesOf(virt)
      BY <1>2
    <3>2. p < Reach => p \in 0 .. Reach - 1
      BY <1>3, <1>4, <3>1
    <3>3. QED
      BY <1>4, <1>10, <3>1, <3>2
  <2>2. QED
    BY <1>2, <1>4, <1>7, <2>1 DEF Clean
<1>13. ASSUME NEW vp \in pairs
       PROVE  /\ vp \in (0 .. Reach - 1) \X Nat
              /\ vp[1] \notin FreeIn(m.virt) /\ vp[2] \notin FreeIn(m.phys)
              /\ vp[1] \notin FreeIn(c.virt) /\ vp[2] \notin FreeIn(c.phys)
              /\ Walk(c, vp[1]) = vp[2]
  <2>1. /\ vp \in (0 .. Reach - 1) \X Nat
        /\ vp[1] \notin FreeIn(m.virt) /\ vp[2] \notin FreeIn(m.phys)
        /\ Walk(m, vp[1]) = vp[2]
    BY DEF Owned
  <2>2. vp[1] \in 0 .. Reach - 1 /\ vp[1] \notin PagesOf(virt)
    BY <1>2, <2>1
  <2>3. Walk(c, vp[1]) = vp[2]
    BY <1>10, <2>1, <2>2
  <2>4. QED
    BY <1>2, <2>1, <2>3
<1>14. ASSUME NEW vp \in PairsOf(ret)
       PROVE  /\ vp \in (0 .. Reach - 1) \X Nat
              /\ vp[1] \in FreeIn(m.virt) /\ vp[2] \in FreeIn(m.phys)
              /\ vp[1] \notin FreeIn(c.virt) /\ vp[2] \notin FreeIn(c.phys)
              /\ Walk(c, vp[1]) = vp[2]
  <2>1. PICK i \in 0 .. len - 1 : vp = <<o + i, f + i>>
    BY <1>11
  <2>2. o + i \in PagesOf(virt) /\ f + i \in PagesOf(phys) /\ f + i \in Nat
    <3>1. /\ o + i \in o .. o + len - 1 /\ f + i \in f .. f + len - 1
          /\ f + i \in Nat
      BY InRange
    <3>2. QED
      BY <1>9, <3>1, Zenon
  <2>3. o + i \in 0 .. Reach - 1
    BY <1>5, <2>2
  <2>4. Walk(c, o + i) = f + i
    BY <1>10
  <2>5. QED
    BY <1>2, <2>1, <2>2, <2>3, <2>4
<1>15. ASSUME NEW vp \in PairsOf(ret), NEW wq \in PairsOf(ret)
       PROVE  vp = wq \/ (vp[1] # wq[1] /\ vp[2] # wq[2])
  <2>1. PICK i \in 0 .. len - 1 : vp = <<o + i, f + i>>
    BY <1>11
  <2>2. PICK j \in 0 .. len - 1 : wq = <<o + j, f + j>>
    BY <1>11
  <2>3. CASE i = j
    BY <2>1, <2>2, <2>3
  <2>4. CASE i # j
    <3>1. o + i # o + j /\ f + i # f + j
      BY <1>8, <2>4
    <3>2. QED
      BY <2>1, <2>2, <3>1
  <2>5. QED
    BY <2>3, <2>4
<1>16. ASSUME NEW vp \in pairs, NEW wq \in pairs
       PROVE  vp = wq \/ (vp[1] # wq[1] /\ vp[2] # wq[2])
  BY DEF Owned
<1>17. ASSUME NEW vp \in pairs, NEW wq \in PairsOf(ret)
       PROVE  vp[1] # wq[1] /\ vp[2] # wq[2]
  BY <1>13, <1>14
<1>18. Owned(c, pairs \cup PairsOf(ret))
  <2>1. \A vp \in pairs \cup PairsOf(ret) :
          /\ vp \in (0 .. Reach - 1) \X Nat
          /\ vp[1] \notin FreeIn(c.virt) /\ vp[2] \notin FreeIn(c.phys)
          /\ Walk(c, vp[1]) = vp[2]
    BY <1>13, <1>14
  <2>2. \A vp, wq \in pairs \cup PairsOf(ret) : vp = wq \/ (vp[1] # wq[1] /\ vp[2] # wq[2])
    BY <1>15, <1>16, <1>17
  <2>3. QED
    BY <2>1, <2>2 DEF Owned
<1>19. QED
  BY <1>1, <1>12, <1>14, <1>18
-----------------------------------------------------------------------------
(***************************************************************************)
(* The calls as steps: the invariant of tables and brokers.                *)
(***************************************************************************)
\* A table was there whenever one was needed, and what was recorded went in.
TablesLast == ~mmu.exhausted

\* What the theorems of what is handed out are limited to: tables last, both brokers can still take a page back, and pages come from the part of
\* virtual memory that the L1 table has entries for.
WithinLimits == TablesLast /\ HasNodes(mmu) /\ BeyondIsFree(mmu)

\* Regions that are reserved are mapped to themselves, or have the length of a list.
ReservedFit == \A r \in Reserved : r[2] = "Identity" \/ Sized(r[1])

\* The state of the tables and brokers for as long as no table was missing.
MmuIInv == Sound(mmu) /\ code \in CodeSections /\ calls \in 0 .. MaxCalls

LEMMA NotFlagged ==
  ASSUME NEW m, ~m.exhausted
  PROVE  ~Flagged(m)
BY DEF Flagged

LEMMA OutcomeIsSound ==
  ASSUME NEW m, NEW ret, NEW certain, Outcome(ret, m, certain), ~ret.m.exhausted
  PROVE  /\ Sound(ret.m) /\ NoneFreed(ret.m, m) /\ Extends(ret.m, m)
         /\ certain /\ HasNodes(ret.m) => HandsNothing(ret, m) \/ Hands(ret, m)
<1>1. ~Flagged(ret.m)
  BY NotFlagged
<1>2. QED
  BY <1>1 DEF Outcome

\* The call of a step, and what it comes to.
Answer(ret, m, certain) == HandOver(ret) /\ Outcome(ret, m, certain)

LEMMA CallsHaveAnswers ==
  ASSUME Sound(mmu), MmuNext
  PROVE  /\ mmu.panicked = FALSE
         /\ \E ret, certain : Answer(ret, mmu, certain) /\ (ReservedFit => certain)
<1>1. mmu \in Machines
  BY DEF Sound, TablesLinked
<1>2. mmu.panicked \in BOOLEAN
  BY <1>1 DEF Machines
<1>3. ASSUME NEW n \in CallSizes, AllocatePages(n)
      PROVE  /\ mmu.panicked = FALSE
             /\ \E ret, certain : Answer(ret, mmu, certain) /\ (ReservedFit => certain)
  <2>1. n \in Nat \ {0}
    BY MmuAssumption
  <2>2. PICK ret : ret = allocate_pages(mmu, n)
    OBVIOUS
  <2>3. HandOver(ret) /\ mmu.panicked = FALSE
    BY <1>2, <1>3, <2>2 DEF AllocatePages, HandOver
  <2>4. Outcome(ret, mmu, TRUE)
    BY <2>1, <2>2, <2>3, AllocatePagesOutcome
  <2>5. Answer(ret, mmu, TRUE)
    BY <2>3, <2>4 DEF Answer
  <2>6. QED
    BY <2>3, <2>5, Zenon
<1>4. ASSUME NEW r \in Reserved, ReservePages(r[1], r[2])
      PROVE  /\ mmu.panicked = FALSE
             /\ \E ret, certain : Answer(ret, mmu, certain) /\ (ReservedFit => certain)
  <2>1. r[1] \in Regions /\ r[1].length > 0
    BY MmuAssumption
  <2>2. PICK ret : ret = reserve_page_region(mmu, r[1], r[2])
    OBVIOUS
  <2>3. HandOver(ret) /\ mmu.panicked = FALSE
    BY <1>2, <1>4, <2>2 DEF ReservePages, HandOver
  <2>4. PICK certain : certain = (r[2] = "Identity" \/ Sized(r[1]))
    OBVIOUS
  <2>5. Outcome(ret, mmu, certain)
    BY <2>1, <2>2, <2>3, <2>4, ReservePagesOutcome
  <2>6. Answer(ret, mmu, certain)
    BY <2>3, <2>5 DEF Answer
  <2>7. ReservedFit => certain
    BY <2>4 DEF ReservedFit
  <2>8. QED
    BY <2>3, <2>6, <2>7, Zenon
<1>5. QED
  BY <1>3, <1>4 DEF MmuNext

\* While no table is missing, a step keeps tables and brokers sound and what is translated.
LEMMA MmuStep ==
  ASSUME Sound(mmu), [MmuNext]_mmuVars, ~mmu'.exhausted
  PROVE  /\ Sound(mmu') /\ NoneFreed(mmu', mmu) /\ Extends(mmu', mmu)
         /\ code' = code /\ (calls \in 0 .. MaxCalls => calls' \in 0 .. MaxCalls)
         /\ mmu' = mmu \/ mmu.panicked = FALSE
<1>1. CASE UNCHANGED mmuVars
  BY <1>1 DEF mmuVars, NoneFreed, Extends
<1>2. CASE MmuNext
  <2>1. PICK ret, certain : Answer(ret, mmu, certain)
    BY <1>2, CallsHaveAnswers
  <2>2. HandOver(ret) /\ Outcome(ret, mmu, certain)
    BY <2>1 DEF Answer
  <2>3. mmu' = ret.m /\ code' = code /\ calls < MaxCalls /\ calls' = calls + 1
    BY <2>2 DEF HandOver
  <2>4. Sound(ret.m) /\ NoneFreed(ret.m, mmu) /\ Extends(ret.m, mmu)
    BY <2>2, <2>3, OutcomeIsSound
  <2>5. calls \in 0 .. MaxCalls => calls' \in 0 .. MaxCalls
    BY <2>3, MmuAssumption
  <2>6. QED
    BY <1>2, <2>3, <2>4, <2>5, CallsHaveAnswers
<1>3. QED
  BY <1>1, <1>2

LEMMA ExtendsWalks ==
  ASSUME NEW m, NEW c, Sound(m), Sound(c), Extends(c, m), NEW p \in Nat, Walk(m, p) # NoPage
  PROVE  Walk(c, p) = Walk(m, p)
<1>1. m \in Machines /\ c \in Machines
  BY DEF Sound, TablesLinked
<1>2. l1_index(p) \in L1s /\ l2_index(p) \in L2s
  BY Indexes
<1>3. /\ Walk(m, p) = At(m, l1_index(p), l2_index(p))
      /\ Walk(c, p) = At(c, l1_index(p), l2_index(p))
  BY <1>1, WalkIsAt
<1>4. QED
  BY <1>2, <1>3 DEF Extends

LEMMA SoundInvariant == MmuSpec /\ []TablesLast => []MmuIInv
<1>1. MmuInit /\ TablesLast => MmuIInv
  <2> SUFFICES ASSUME MmuInit, TablesLast PROVE MmuIInv
    OBVIOUS
  <2>1. code \in CodeSections /\ mmu = init_page_tables(code) /\ calls = 0
    BY DEF MmuInit
  <2>2. Booted(mmu)
    BY <2>1, BootSucceeds
  <2>3. Sound(mmu)
    BY <2>2, NotFlagged DEF Booted, TablesLast
  <2>4. calls \in 0 .. MaxCalls
    BY <2>1, MmuAssumption
  <2>5. QED
    BY <2>1, <2>3, <2>4 DEF MmuIInv
<1>2. MmuIInv /\ [MmuNext]_mmuVars /\ TablesLast' => MmuIInv'
  BY MmuStep DEF MmuIInv, TablesLast
<1>3. QED
  BY <1>1, <1>2, PTL DEF MmuSpec

LEMMA SoundIsMmuInv == MmuIInv => MmuInv
<1> SUFFICES ASSUME MmuIInv PROVE MmuInv
  OBVIOUS
<1>1. TablesLinked(mmu) /\ Layout(mmu.phys, {}) /\ Layout(mmu.virt, {})
  BY DEF MmuIInv, Sound
<1>2. DOMAIN mmu.l1 = L1s
  BY <1>1 DEF TablesLinked, Machines, L1s
<1>3. \A i \in DOMAIN mmu.l1 :
        mmu.l1[i].type = "L2Ptr" => mmu.l1[i].table \in mmu.l2.bits
  BY <1>1, <1>2 DEF TablesLinked
<1>4. PICK H : H = {}
  OBVIOUS
<1>5. /\ NodesAreInLists(mmu.phys) /\ ListsFitRegions(mmu.phys)
      /\ NodesAreInLists(mmu.virt) /\ ListsFitRegions(mmu.virt)
  BY <1>1, <1>4, LayoutIsStructure
<1>6. QED
  BY <1>1, <1>3, <1>5 DEF MmuInv, MmuIInv, TablesLinked

\* Whatever pages are allocated and reserved, tables and brokers are well-formed, and each
\* table that an L1 entry points to is marked as taken, until a table is missing.
THEOREM MmuInvariant == MmuSpec /\ []TablesLast => []MmuInv
BY SoundInvariant, SoundIsMmuInv, PTL

\* Until a table is missing, recording pages changes no translation that is there,
\* neither one of boot nor one of a page recorded before.
THEOREM TranslationsAreKept == MmuSpec /\ []TablesLast => TranslationsStay
<1>1. ASSUME MmuIInv, MmuIInv', ~mmu'.exhausted, [MmuNext]_mmuVars,
             NEW page \in 0 .. L1Entries * SectionPages - 1, Walk(mmu, page) # NoPage
      PROVE  Walk(mmu', page) = Walk(mmu, page)
  <2>1. Sound(mmu) /\ Sound(mmu')
    BY <1>1 DEF MmuIInv
  <2>2. Extends(mmu', mmu)
    BY <1>1, <2>1, MmuStep
  <2>3. page \in Nat
    BY <1>1, MmuSizes
  <2>4. QED
    BY <1>1, <2>1, <2>2, <2>3, ExtendsWalks
<1>2. MmuIInv /\ MmuIInv' /\ TablesLast' /\ [MmuNext]_mmuVars =>
        [\A page \in 0 .. L1Entries * SectionPages - 1 :
           Walk(mmu, page) # NoPage => Walk(mmu', page) = Walk(mmu, page)]_mmuVars
  BY <1>1 DEF TablesLast
<1>3. QED
  BY SoundInvariant, <1>2, PTL DEF MmuSpec, TranslationsStay

LEMMA BootSectionsAreNumbers ==
  ASSUME code \in CodeSections
  PROVE  BootSections(code) \subseteq Nat
<1>1. code \in Nat
  BY MmuAssumption
<1>2. \A r \in Regions : PagesOf(r) \subseteq Nat
  BY DEF PagesOf, EndOffset, Regions
<1>3. /\ CodeRegion(code) \in Regions /\ L1Region(code) \in Regions
      /\ ScratchRegion(code) \in Regions
  BY <1>1 DEF CodeRegion, L1Region, ScratchRegion, Region, Regions
<1>4. QED
  BY <1>2, <1>3, MmuAssumption DEF BootSections

\* When boot has mapped the kernel's own sections and the devices to themselves, they stay
\* so until a table is missing.
THEOREM BootStaysIdentity == MmuSpec /\ BootIsIdentity /\ []TablesLast => []BootIsIdentity
<1>1. ASSUME MmuIInv, MmuIInv', ~mmu'.exhausted, [MmuNext]_mmuVars, BootIsIdentity,
             ~mmu'.panicked,
             NEW s \in BootSections(code)', NEW i \in 0 .. SectionPages - 1
      PROVE  Walk(mmu', s * SectionPages + i) = s * SectionPages + i
  <2>1. Sound(mmu) /\ Sound(mmu') /\ code \in CodeSections
    BY <1>1 DEF MmuIInv
  <2>2. Extends(mmu', mmu) /\ code' = code /\ (mmu' = mmu \/ mmu.panicked = FALSE)
    BY <1>1, <2>1, MmuStep
  <2>3. s \in BootSections(code) /\ s \in Nat
    BY <1>1, <2>1, <2>2, BootSectionsAreNumbers DEF BootSections
  <2>4. PICK p \in Nat : p = s * SectionPages + i
    <3>1. PICK n \in Nat \ {0} : n = SectionPages
      BY MmuSizes
    <3>2. s * n \in Nat
      BY <2>3, <3>1
    <3>3. QED
      BY <3>1, <3>2
  <2>5. Walk(mmu, p) = p
    BY <1>1, <2>2, <2>3, <2>4 DEF BootIsIdentity
  <2>6. p # NoPage
    BY DEF NoPage
  <2>7. QED
    BY <2>1, <2>2, <2>4, <2>5, <2>6, ExtendsWalks
<1>2. MmuIInv /\ MmuIInv' /\ TablesLast' /\ [MmuNext]_mmuVars /\ BootIsIdentity =>
        BootIsIdentity'
  BY <1>1 DEF BootIsIdentity, TablesLast
<1>3. QED
  BY SoundInvariant, <1>2, PTL DEF MmuSpec
-----------------------------------------------------------------------------
(***************************************************************************)
(* The pages of callers.                                                   *)
(***************************************************************************)
\* Within the limits no free page is translated, and those of callers are theirs alone.
HandedIInv == MmuIInv /\ Clean(mmu) /\ Owned(mmu, handed)

LEMMA HandedAtFirst == MmuInit /\ WithinLimits => HandedIInv
<1> SUFFICES ASSUME MmuInit, WithinLimits PROVE HandedIInv
  OBVIOUS
<1>1. code \in CodeSections /\ mmu = init_page_tables(code) /\ calls = 0 /\ handed = {}
  BY DEF MmuInit
<1>2. ~mmu.exhausted /\ BeyondIsFree(mmu)
  BY DEF WithinLimits, TablesLast
<1>3. Sound(mmu) /\ Clean(mmu)
  BY <1>1, <1>2, BootSucceeds, NotFlagged DEF Booted
<1>4. calls \in 0 .. MaxCalls
  BY <1>1, MmuAssumption
<1>5. Owned(mmu, handed)
  BY <1>1 DEF Owned
<1>6. QED
  BY <1>1, <1>3, <1>4, <1>5 DEF HandedIInv, MmuIInv

\* What a step within the limits adds to the pages of callers was free.
AddsFree(added) ==
  handed' = handed \cup added /\ \A vp \in added : vp[2] \in FreeIn(mmu.phys)

LEMMA HandedStep ==
  ASSUME ReservedFit, HandedIInv, [MmuNext]_mmuVars, ~mmu'.exhausted, HasNodes(mmu'),
         BeyondIsFree(mmu')
  PROVE  HandedIInv' /\ code' = code /\ NoneFreed(mmu', mmu) /\ \E added : AddsFree(added)
<1>1. Sound(mmu) /\ Clean(mmu) /\ Owned(mmu, handed)
  BY DEF HandedIInv, MmuIInv
<1>2. /\ Sound(mmu') /\ NoneFreed(mmu', mmu) /\ Extends(mmu', mmu) /\ code' = code
      /\ calls' \in 0 .. MaxCalls
  BY <1>1, MmuStep DEF HandedIInv, MmuIInv
<1>3. MmuIInv'
  BY <1>2 DEF HandedIInv, MmuIInv
<1>4. CASE UNCHANGED mmuVars
  <2>1. mmu' = mmu /\ handed' = handed
    BY <1>4 DEF mmuVars
  <2>2. AddsFree({})
    BY <2>1 DEF AddsFree
  <2>3. Clean(mmu') /\ Owned(mmu', handed')
    BY <1>1, <2>1
  <2>4. QED
    BY <1>2, <1>3, <2>2, <2>3 DEF HandedIInv
<1>5. CASE MmuNext
  <2>1. PICK ret, certain : Answer(ret, mmu, certain) /\ (ReservedFit => certain)
    BY <1>1, <1>5, CallsHaveAnswers
  <2>2. /\ HandOver(ret) /\ Outcome(ret, mmu, certain) /\ certain
    BY <2>1 DEF Answer
  <2>3. /\ mmu' = ret.m
        /\ handed' = IF ret.m.panicked THEN handed ELSE handed \cup PairsOf(ret)
    BY <2>2 DEF HandOver, PairsOf
  <2>4. HandsNothing(ret, mmu) \/ Hands(ret, mmu)
    BY <2>2, <2>3, OutcomeIsSound
  <2>5. /\ Clean(ret.m) /\ Owned(ret.m, handed \cup PairsOf(ret))
        /\ \A vp \in PairsOf(ret) : vp[2] \in FreeIn(mmu.phys)
    <3>1. CASE HandsNothing(ret, mmu)
      <4>1. Clean(ret.m) /\ Owned(ret.m, handed) /\ PairsOf(ret) = {}
        BY <1>1, <1>2, <2>3, <3>1, NothingIsOwned
      <4>2. handed \cup PairsOf(ret) = handed
        BY <4>1
      <4>3. QED
        BY <4>1, <4>2
    <3>2. CASE Hands(ret, mmu)
      BY <1>1, <1>2, <2>3, <3>2, PagesAreOwned
    <3>3. QED
      BY <2>4, <3>1, <3>2
  <2>6. handed' = handed \cup PairsOf(ret)
    BY <2>3, <2>5 DEF Clean
  <2>7. AddsFree(PairsOf(ret))
    BY <2>5, <2>6 DEF AddsFree
  <2>8. Clean(mmu') /\ Owned(mmu', handed')
    BY <2>3, <2>5, <2>6
  <2>9. QED
    BY <1>2, <1>3, <2>7, <2>8 DEF HandedIInv
<1>6. QED
  BY <1>4, <1>5

LEMMA HandedInvariant ==
  ASSUME ReservedFit
  PROVE  MmuSpec /\ []WithinLimits => []HandedIInv
<1>1. HandedIInv /\ [MmuNext]_mmuVars /\ WithinLimits' => HandedIInv'
  BY HandedStep DEF WithinLimits, TablesLast
<1>2. QED
  BY HandedAtFirst, <1>1, PTL DEF MmuSpec

\* Allocations and reservations find no page recorded already, which would panic, and what
\* a caller has is translated to the physical pages that were taken for it.
THEOREM PagesAreMapped ==
  ASSUME ReservedFit
  PROVE  MmuSpec /\ []WithinLimits => []HandedIsMapped
<1>1. HandedIInv => HandedIsMapped
  BY DEF HandedIInv, Clean, Owned, HandedIsMapped
<1>2. QED
  BY HandedInvariant, <1>1, PTL

LEMMA LeftIsFree ==
  ASSUME NEW b, Layout(b, {})
  PROVE  PagesLeft(b) = FreeIn(b)
<1>1. PICK H : H = {}
  OBVIOUS
<1>2. BrokerInv(b)
  BY <1>1 DEF Layout
<1>3. ASSUME NEW m \in Places(b)
      PROVE  RegionAt(b, m) \in {b.region[s] : s \in Nodes(b)}
  BY <1>2, PlacesAndNodes DEF RegionAt
<1>4. ASSUME NEW s \in Nodes(b)
      PROVE  b.region[s] \in {RegionAt(b, m) : m \in Places(b)}
  <2>1. PICK m \in Places(b) : SlabAt(b, m) = s
    BY <1>2, PlacesAndNodes
  <2>2. QED
    BY <2>1 DEF RegionAt
<1>5. PagesLeft(b) = UNION {PagesOf(b.region[s]) : s \in Nodes(b)}
  BY <1>3, <1>4 DEF PagesLeft
<1>6. FreeIn(b) = UNION {PagesOf(b.region[s]) : s \in Nodes(b)}
  BY DEF FreeIn, PagesIn
<1>7. QED
  BY <1>5, <1>6

\* Neither a free page nor one of a caller belongs to the kernel or a device.
NotOfBoot ==
  /\ \A p \in FreeIn(mmu.phys) : p \div SectionPages \notin BootSections(code)
  /\ \A vp \in handed : vp[2] \div SectionPages \notin BootSections(code)

LEMMA NotOfBootStep ==
  ASSUME ReservedFit, HandedIInv, [MmuNext]_mmuVars, ~mmu'.exhausted, HasNodes(mmu'),
         BeyondIsFree(mmu'), NotOfBoot
  PROVE  NotOfBoot'
<1>1. code' = code /\ NoneFreed(mmu', mmu)
  BY HandedStep
<1>2. PICK added : AddsFree(added)
  BY HandedStep
<1>3. FreeIn(mmu'.phys) \subseteq FreeIn(mmu.phys)
  BY <1>1 DEF NoneFreed
<1>4. BootSections(code)' = BootSections(code)
  BY <1>1 DEF BootSections
<1>5. \A p \in FreeIn(mmu'.phys) : p \div SectionPages \notin BootSections(code)'
  BY <1>3, <1>4 DEF NotOfBoot
<1>6. \A vp \in handed' : vp[2] \div SectionPages \notin BootSections(code)'
  BY <1>2, <1>4 DEF NotOfBoot, AddsFree
<1>7. QED
  BY <1>5, <1>6 DEF NotOfBoot

\* A page that is not the kernel's own has a frame that is not either, if that lies below
\* the devices.
LEMMA FrameOutsideBoot ==
  ASSUME NEW c \in CodeSections, NEW p \in Nat, 4 * p < DeviceRegion.offset * SectionPages,
         p \div SectionPages \notin BootSections(c)
  PROVE  HardwareFrame(p) = 4 * p /\ HardwareFrame(p) \div SectionPages \notin BootSections(c)
<1>1. PICK n \in Nat \ {0} : n = SectionPages
  BY MmuSizes
<1>2. PICK o \in Nat, len \in Nat, l \in Nat, v \in Nat \ {0} :
        /\ o = DeviceRegion.offset /\ len = DeviceRegion.length /\ o + len <= l
        /\ l = L1Entries /\ v = VirtualPages /\ l * n <= v
  BY <1>1, MmuAssumption, SizesAreSpans DEF Regions, EndOffset
<1>3. PICK k \in Nat \ {0} : k = c
  BY MmuAssumption
<1>4. 4 * p < v
  <2>1. PICK z \in Nat : l = o + z
    <3>1. l - o \in Nat /\ l = o + (l - o)
      BY <1>2
    <3>2. QED
      BY <3>1
  <2>2. l * n = o * n + z * n /\ o * n \in Nat /\ z * n \in Nat
    BY <2>1
  <2>3. QED
    BY <1>1, <1>2, <2>2
<1>5. HardwareFrame(p) = 4 * p
  <2>1. PICK q \in Nat : q = 4 * p
    OBVIOUS
  <2>2. q \in 0 .. v - 1 /\ v * 0 + q = q
    BY <1>4, <2>1
  <2>3. q % v = q
    BY <2>2, QuotientIs
  <2>4. QED
    BY <1>2, <2>1, <2>3 DEF HardwareFrame
<1>6. BootSections(c) = 0 .. k + 1 \cup o .. o + len - 1
  <2>1. /\ PagesOf(CodeRegion(c)) = 0 .. k - 1 /\ PagesOf(L1Region(c)) = k .. k
        /\ PagesOf(ScratchRegion(c)) = k + 1 .. k + 1
        /\ PagesOf(DeviceRegion) = o .. o + len - 1
    <3>1. \A a, b \in Nat : PagesOf(Region(a, b)) = a .. a + b - 1
      BY DEF PagesOf, EndOffset, Region
    <3>2. 0 + k - 1 = k - 1 /\ k + 1 - 1 = k /\ k + 1 + 1 - 1 = k + 1 /\ k + 1 \in Nat
      OBVIOUS
    <3>3. /\ CodeRegion(c) = Region(0, k) /\ L1Region(c) = Region(k, 1)
          /\ ScratchRegion(c) = Region(k + 1, 1)
      BY <1>3 DEF CodeRegion, L1Region, ScratchRegion
    <3>4. /\ PagesOf(CodeRegion(c)) = 0 .. k - 1 /\ PagesOf(L1Region(c)) = k .. k
          /\ PagesOf(ScratchRegion(c)) = k + 1 .. k + 1
      <4>1. /\ PagesOf(Region(0, k)) = 0 .. 0 + k - 1
            /\ PagesOf(Region(k, 1)) = k .. k + 1 - 1
            /\ PagesOf(Region(k + 1, 1)) = k + 1 .. k + 1 + 1 - 1
        BY <3>1, <3>2
      <4>2. QED
        BY <3>2, <3>3, <4>1, Zenon
    <3>5. PagesOf(DeviceRegion) = o .. o + len - 1
      BY <1>2 DEF PagesOf, EndOffset
    <3>6. QED
      BY <3>4, <3>5
  <2>2. 0 .. k + 1 = (0 .. k - 1) \cup (k .. k) \cup (k + 1 .. k + 1)
    OBVIOUS
  <2>3. QED
    BY <2>1, <2>2, Zenon DEF BootSections
<1>7. PICK s, e : s = p \div n /\ e = p % n
  OBVIOUS
<1>8. PICK t, f : t = (4 * p) \div n /\ f = (4 * p) % n
  OBVIOUS
<1>9. /\ s \in Nat /\ e \in 0 .. n - 1 /\ p = n * s + e
      /\ t \in Nat /\ f \in 0 .. n - 1 /\ 4 * p = n * t + f
  <2>1. \A a \in Nat : /\ a = n * (a \div n) + (a % n)
                       /\ a \div n \in Nat /\ a % n \in 0 .. n - 1
    BY Quotient
  <2>2. 4 * p \in Nat
    OBVIOUS
  <2>3. t \in Nat /\ f \in 0 .. n - 1 /\ 4 * p = n * t + f
    BY <1>8, <2>1, <2>2, Zenon
  <2>4. QED
    BY <1>7, <2>1, <2>3
<1>10. s >= k + 2
  BY <1>1, <1>6, <1>7, <1>9
<1>11. t >= s
  <2>1. SUFFICES ASSUME t + 1 <= s PROVE FALSE
    BY <1>9
  <2>2. PICK z \in Nat : s = t + 1 + z
    <3>1. s - (t + 1) \in Nat /\ s = t + 1 + (s - (t + 1))
      BY <1>9, <2>1
    <3>2. QED
      BY <3>1
  <2>3. n * s = n * t + n + n * z /\ n * z \in Nat /\ n * t \in Nat
    BY <1>9, <2>2
  <2>4. 4 * p < n * t + n
    BY <1>9, <2>3
  <2>5. QED
    BY <1>9, <2>3, <2>4
<1>12. t < o
  <2>1. SUFFICES ASSUME o <= t PROVE FALSE
    BY <1>9
  <2>2. PICK z \in Nat : t = o + z
    <3>1. t - o \in Nat /\ t = o + (t - o)
      BY <1>9, <2>1
    <3>2. QED
      BY <3>1
  <2>3. n * t = o * n + n * z /\ n * z \in Nat /\ o * n \in Nat
    BY <2>2
  <2>4. QED
    BY <1>1, <1>2, <1>9, <2>3
<1>13. t \notin BootSections(c)
  BY <1>6, <1>9, <1>10, <1>11, <1>12
<1>14. QED
  BY <1>1, <1>5, <1>8, <1>13

LEMMA OwnedAreApart == HandedIInv /\ NotOfBoot => HandedApart
<1> SUFFICES ASSUME HandedIInv, NotOfBoot PROVE HandedApart
  OBVIOUS
<1>1. /\ Layout(mmu.phys, {}) /\ code \in CodeSections /\ Owned(mmu, handed)
  BY DEF HandedIInv, MmuIInv, Sound
<1>2. /\ \A vp \in handed : vp[1] \in 0 .. Reach - 1 /\ vp[2] \in Nat
      /\ \A vp, wq \in handed : vp = wq \/ (vp[1] # wq[1] /\ vp[2] # wq[2])
  BY <1>1 DEF Owned
<1>3. \A p \in PagesLeft(mmu.phys) : p \div SectionPages \notin BootSections(code)
  BY <1>1, LeftIsFree DEF NotOfBoot
<1>4. \A vp \in handed : vp[1] < L1Entries * SectionPages
  <2>1. Reach = L1Entries * SectionPages /\ Reach \in Nat
    BY MmuSizes DEF Reach
  <2>2. QED
    BY <1>2, <2>1
<1>5. FramesApart
  <2>1. ASSUME NEW vp \in handed, 4 * vp[2] < DeviceRegion.offset * SectionPages
        PROVE  /\ HardwareFrame(vp[2]) = 4 * vp[2]
               /\ HardwareFrame(vp[2]) \div SectionPages \notin BootSections(code)
    BY <1>1, <1>2, <2>1, FrameOutsideBoot DEF NotOfBoot
  <2>2. ASSUME NEW vp \in handed, 4 * vp[2] < DeviceRegion.offset * SectionPages,
               NEW wq \in handed, 4 * wq[2] < DeviceRegion.offset * SectionPages
        PROVE  vp = wq \/ HardwareFrame(vp[2]) # HardwareFrame(wq[2])
    BY <1>2, <2>1, <2>2
  <2>3. QED
    BY <2>1, <2>2 DEF FramesApart
<1>6. QED
  BY <1>2, <1>3, <1>4, <1>5 DEF HandedApart, NotOfBoot

\* When boot has left nobody the kernel's own sections, no call hands one of them out, and
\* no page or frame to two callers.
THEOREM PagesAreApart ==
  ASSUME ReservedFit
  PROVE  MmuSpec /\ HandedApart /\ []WithinLimits => []HandedApart
<1>1. MmuInit /\ WithinLimits /\ HandedApart => NotOfBoot
  <2> SUFFICES ASSUME MmuInit, WithinLimits, HandedApart PROVE NotOfBoot
    OBVIOUS
  <2>1. Layout(mmu.phys, {})
    BY HandedAtFirst DEF HandedIInv, MmuIInv, Sound
  <2>2. \A p \in FreeIn(mmu.phys) : p \div SectionPages \notin BootSections(code)
    BY <2>1, LeftIsFree DEF HandedApart, WithinLimits, TablesLast
  <2>3. QED
    BY <2>2 DEF NotOfBoot, MmuInit
<1>2. HandedIInv /\ [MmuNext]_mmuVars /\ WithinLimits' /\ NotOfBoot => NotOfBoot'
  BY NotOfBootStep DEF WithinLimits, TablesLast
<1>3. QED
  BY HandedInvariant, OwnedAreApart, <1>1, <1>2, PTL DEF MmuSpec
=============================================================================
