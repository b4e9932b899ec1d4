--------------------------- MODULE FreeListProofs ---------------------------
(***************************************************************************)
(* Proofs about module FreeList, for any header size, alignment, amount of *)
(* memory and sequence of requests; and in the last part about module      *)
(* UserHeap, for any formats.                                              *)
(***************************************************************************)
EXTENDS UserHeap, TLAPS, WellFoundedInduction

(***************************************************************************)
(* Arithmetic of alignment.                                                *)
(***************************************************************************)
LEMMA Multiples ==
  ASSUME NEW M \in Nat \ {0}, NEW x \in Int
  PROVE  (x % M = 0) <=> (\E m \in Int : x = M * m)
<1>1. M > 0
  OBVIOUS
<1>2. ASSUME x % M = 0 PROVE \E m \in Int : x = M * m
  <2>1. x \div M \in Int
    BY <1>1
  <2>2. x = M * (x \div M) + (x % M)
    BY <1>1, Z3T(60)
  <2>3. M * (x \div M) \in Int
    BY <2>1
  <2>4. x = M * (x \div M)
    BY <1>2, <2>2, <2>3
  <2>5. QED
    BY <2>1, <2>4
<1>3. ASSUME NEW m \in Int, x = M * m PROVE x % M = 0
  BY <1>1, <1>3, Z3T(60)
<1>4. QED
  BY <1>2, <1>3

LEMMA ProductIsMultiple ==
  ASSUME NEW M \in Nat \ {0}, NEW m \in Int
  PROVE  (M * m) % M = 0
<1>1. M * m \in Int
  OBVIOUS
<1>2. QED
  BY <1>1, Multiples

\* Sums and differences of multiples are multiples, and so are multiples of them.
LEMMA MultiplesClosed ==
  ASSUME NEW M \in Nat \ {0}, NEW x \in Int, NEW y \in Int,
         x % M = 0, y % M = 0
  PROVE  (x + y) % M = 0 /\ (x - y) % M = 0
<1>1. PICK p \in Int : x = M * p
  BY Multiples
<1>2. PICK q \in Int : y = M * q
  BY Multiples
<1>3. /\ M * p \in Int /\ M * q \in Int
      /\ M * p + M * q = M * (p + q) /\ M * p - M * q = M * (p - q)
  OBVIOUS
<1>4. x + y = M * (p + q) /\ x - y = M * (p - q) /\ p + q \in Int /\ p - q \in Int
      /\ x + y \in Int /\ x - y \in Int
  BY <1>1, <1>2, <1>3
<1>5. QED
  BY <1>4, Multiples

LEMMA MultipleOfMultiple ==
  ASSUME NEW M \in Nat \ {0}, NEW P \in Nat \ {0}, NEW x \in Int,
         P % M = 0, x % P = 0
  PROVE  x % M = 0
<1>1. PICK p \in Int : P = M * p
  BY Multiples
<1>2. PICK q \in Int : x = P * q
  BY Multiples
<1>3. (M * p) * q = M * (p * q) /\ p * q \in Int
  BY Z3T(60)
<1>4. x = M * (p * q)
  BY <1>1, <1>2, <1>3
<1>5. QED
  BY <1>3, <1>4, Multiples

LEMMA AlignDown ==
  ASSUME NEW v \in Nat, NEW a \in Nat \ {0}
  PROVE  /\ align_down_two(v, a) \in 0 .. v
         /\ v - align_down_two(v, a) \in 0 .. a - 1
         /\ align_down_two(v, a) % a = 0
<1>1. a > 0
  OBVIOUS
<1>2. v % a \in 0 .. a - 1
  BY <1>1, Z3T(60)
<1>3. v \div a \in Nat /\ v = a * (v \div a) + (v % a)
  BY <1>1, Z3T(60)
<1>4. a * (v \div a) \in Nat
  BY <1>3
<1>5. align_down_two(v, a) = a * (v \div a)
  BY <1>2, <1>3, <1>4 DEF align_down_two
<1>6. align_down_two(v, a) % a = 0
  <2>1. v \div a \in Int
    BY <1>3
  <2>2. (a * (v \div a)) % a = 0
    BY <2>1, ProductIsMultiple, Zenon
  <2>3. QED
    BY <1>5, <2>2, Zenon
<1>7. QED
  BY <1>2, <1>3, <1>4, <1>5, <1>6

LEMMA AlignUp ==
  ASSUME NEW v \in Nat, NEW a \in Nat \ {0}
  PROVE  /\ align_up_two(v, a) \in Nat
         /\ align_up_two(v, a) >= v
         /\ align_up_two(v, a) % a = 0
<1>1. CASE v = 0
  <2>1. a % a = 0
    <3>1. a = a * 1
      OBVIOUS
    <3>2. QED
      BY <3>1, Multiples
  <2>2. QED
    BY <1>1, <2>1 DEF align_up_two
<1>2. CASE v # 0
  <2>1. v + a - 1 \in Nat
    OBVIOUS
  <2>2. /\ align_down_two(v + a - 1, a) \in 0 .. v + a - 1
        /\ (v + a - 1) - align_down_two(v + a - 1, a) \in 0 .. a - 1
        /\ align_down_two(v + a - 1, a) % a = 0
    BY <2>1, AlignDown
  <2>3. QED
    BY <1>2, <2>2 DEF align_up_two
<1>3. QED
  BY <1>1, <1>2

\* The provers are given alignment as a predicate, without the division.
Aligned(x) == x % Alignment = 0

LEMMA Constants ==
  /\ Header \in Nat /\ Header > 0 /\ Aligned(Header)
  /\ MemSize \in Nat /\ MemSize > 0 /\ Aligned(MemSize)
  /\ Requests \subseteq Nat /\ FixedFallback \in BOOLEAN
BY FreeListAssumption DEF Aligned

LEMMA AlignedClosed ==
  ASSUME NEW x \in Int, NEW y \in Int, Aligned(x), Aligned(y)
  PROVE  Aligned(x + y) /\ Aligned(x - y)
BY MultiplesClosed, FreeListAssumption DEF Aligned

\* What the fallback allocator is asked for holds a header and the request.
LEMMA PreferredSize ==
  ASSUME NEW n \in Nat
  PROVE  /\ min_allocation_size(n) \in Nat /\ min_allocation_size(n) >= n + Header
         /\ preferred_size(n) \in Nat /\ preferred_size(n) >= n + Header
         /\ Aligned(preferred_size(n))
<1>1. /\ min_allocation_size(n) \in Nat /\ min_allocation_size(n) >= n + Header
  <2>1. Alignment \in Nat \ {0} /\ Header \in Nat
    BY FreeListAssumption
  <2>2. align_up_two(n, Alignment) \in Nat /\ align_up_two(n, Alignment) >= n
    BY <2>1, AlignUp, Zenon
  <2>3. QED
    BY <2>1, <2>2 DEF min_allocation_size
<1>2. /\ preferred_size(n) \in Nat /\ preferred_size(n) >= min_allocation_size(n)
      /\ preferred_size(n) % PageSize = 0
  BY <1>1, AlignUp, FreeListAssumption DEF preferred_size
<1>3. Aligned(preferred_size(n))
  BY <1>2, MultipleOfMultiple, FreeListAssumption DEF Aligned
<1>4. QED
  BY <1>1, <1>2, <1>3, FreeListAssumption
-----------------------------------------------------------------------------
(***************************************************************************)
(* Lists without duplicates.                                               *)
(***************************************************************************)
Injective(list) ==
  \A i, j \in DOMAIN list : list[i] = list[j] => i = j

LEMMA AppendNode ==
  ASSUME NEW S, NEW list \in Seq(S), Injective(list),
         NEW x \in S, x \notin Range(list)
  PROVE  /\ Append(list, x) \in Seq(S)
         /\ Injective(Append(list, x))
         /\ Range(Append(list, x)) = Range(list) \cup {x}
<1> DEFINE l == Append(list, x)
<1>1. /\ Len(list) \in Nat /\ DOMAIN list = 1 .. Len(list)
      /\ l \in Seq(S) /\ DOMAIN l = 1 .. Len(list) + 1
      /\ \A k \in 1 .. Len(list) : l[k] = list[k]
      /\ l[Len(list) + 1] = x
  OBVIOUS
<1> HIDE DEF l
<1>2. \A k \in 1 .. Len(list) : list[k] # x
  BY <1>1 DEF Range
<1>3. Injective(l)
  <2> SUFFICES ASSUME NEW i \in DOMAIN l, NEW j \in DOMAIN l, l[i] = l[j]
               PROVE  i = j
    BY DEF Injective
  <2>1. CASE i = Len(list) + 1
    BY <1>1, <1>2, <2>1
  <2>2. CASE j = Len(list) + 1
    BY <1>1, <1>2, <2>2
  <2>3. CASE i \in 1 .. Len(list) /\ j \in 1 .. Len(list)
    BY <1>1, <2>3 DEF Injective
  <2>4. QED
    BY <1>1, <2>1, <2>2, <2>3
<1>4. ASSUME NEW y \in Range(l) PROVE y \in Range(list) \cup {x}
  <2>1. PICK k \in 1 .. Len(list) + 1 : y = l[k]
    BY <1>1 DEF Range
  <2>2. CASE k \in 1 .. Len(list)
    BY <1>1, <2>1, <2>2 DEF Range
  <2>3. CASE k = Len(list) + 1
    BY <1>1, <2>1, <2>3
  <2>4. QED
    BY <1>1, <2>2, <2>3
<1>5. ASSUME NEW y \in Range(list) PROVE y \in Range(l)
  <2>1. PICK k \in 1 .. Len(list) : y = list[k]
    BY <1>1 DEF Range
  <2>2. k \in DOMAIN l /\ y = l[k]
    BY <1>1, <2>1
  <2>3. QED
    BY <2>2 DEF Range
<1>6. x \in Range(l)
  <2>1. Len(list) + 1 \in DOMAIN l
    BY <1>1
  <2>2. QED
    BY <1>1, <2>1 DEF Range
<1>7. QED
  BY <1>1, <1>3, <1>4, <1>5, <1>6 DEF l

LEMMA RemoveNodeFromList ==
  ASSUME NEW S, NEW list \in Seq(S), Injective(list), NEW a \in Range(list)
  PROVE  /\ RemoveNode(list, a) \in Seq(S)
         /\ Injective(RemoveNode(list, a))
         /\ Range(RemoveNode(list, a)) = Range(list) \ {a}
<1> DEFINE i == CHOOSE i \in DOMAIN list : list[i] = a
           l == RemoveNode(list, a)
           n == Len(list)
           up(k) == IF k < i THEN k ELSE k + 1
<1>1. i \in DOMAIN list /\ list[i] = a
  BY DEF Range
<1>2. n \in Nat /\ DOMAIN list = 1 .. n /\ i \in 1 .. n /\ n - 1 \in Nat
  BY <1>1
<1>3. l = [k \in 1 .. n - 1 |-> IF k < i THEN list[k] ELSE list[k + 1]]
  BY DEF RemoveNode
<1> HIDE DEF i, l
<1>4. \A k \in 1 .. n - 1 : up(k) \in 1 .. n /\ up(k) # i
  BY <1>2
<1>5. DOMAIN l = 1 .. n - 1 /\ \A k \in 1 .. n - 1 : l[k] = list[up(k)]
  BY <1>3
<1>6. \A k \in 1 .. n - 1 : l[k] \in S
  BY <1>2, <1>4, <1>5
<1>7. l \in Seq(S)
  BY <1>2, <1>3, <1>5, <1>6
<1>8. ASSUME NEW p \in DOMAIN l, NEW q \in DOMAIN l, l[p] = l[q] PROVE p = q
  <2>1. p \in 1 .. n - 1 /\ q \in 1 .. n - 1 /\ list[up(p)] = list[up(q)]
    BY <1>5, <1>8
  <2>2. up(p) = up(q)
    BY <1>2, <1>4, <2>1 DEF Injective
  <2>3. QED
    BY <1>2, <2>1, <2>2
<1>9. ASSUME NEW y \in Range(l) PROVE y \in Range(list) \ {a}
  <2>1. PICK k \in 1 .. n - 1 : y = list[up(k)]
    BY <1>5 DEF Range
  <2>2. up(k) \in DOMAIN list /\ up(k) # i
    BY <1>2, <1>4
  <2>3. list[up(k)] # list[i]
    BY <1>1, <2>2 DEF Injective
  <2>4. QED
    BY <1>1, <2>1, <2>2, <2>3 DEF Range
<1>10. ASSUME NEW y \in Range(list) \ {a} PROVE y \in Range(l)
  <2>1. PICK k \in 1 .. n : y = list[k]
    BY <1>2 DEF Range
  <2>2. k # i
    BY <1>1, <2>1
  <2>3. PICK m \in 1 .. n - 1 : up(m) = k
    <3>1. CASE k < i
      <4>1. k \in 1 .. n - 1 /\ up(k) = k
        BY <1>2, <3>1
      <4>2. QED
        BY <4>1
    <3>2. CASE k > i
      <4>1. k - 1 \in 1 .. n - 1 /\ up(k - 1) = k
        BY <1>2, <3>2
      <4>2. QED
        BY <4>1
    <3>3. QED
      BY <1>2, <2>2, <3>1, <3>2
  <2>4. m \in DOMAIN l /\ y = l[m]
    BY <1>5, <2>1, <2>3
  <2>5. QED
    BY <2>4 DEF Range
<1>11. Injective(l) /\ Range(l) = Range(list) \ {a}
  BY <1>8, <1>9, <1>10 DEF Injective
<1>12. QED
  BY <1>7, <1>11 DEF l
-----------------------------------------------------------------------------
(***************************************************************************)
(* How nodes lie in memory, and how they are made and joined.              *)
(***************************************************************************)
Layout(N, sz, w) ==
  /\ N \subseteq Addresses
  /\ sz \in [Addresses -> 0 .. MemSize]
  /\ w \in 0 .. MemSize /\ Aligned(w)
  /\ \A a \in N : EndOf(a, sz) <= w /\ Aligned(a) /\ Aligned(sz[a])
  /\ \A a, b \in N : a < b => EndOf(a, sz) <= b

GoodList(list, taken) ==
  /\ list \in Seq(Addresses)
  /\ Injective(list)
  /\ Range(list) \cap taken = {}

LEMMA InvAsLayout ==
  FreeListInv <=> GoodList(m_free_list, allocated) /\ Layout(Nodes, size, watermark)
<1>1. FreeListInv => GoodList(m_free_list, allocated)
  BY DEF FreeListInv, TypeOK, ListIsSet, GoodList, Injective, FreeNodes
<1>2. m_free_list \in Seq(Addresses) => FreeNodes \subseteq Addresses
  BY DEF FreeNodes, Range
<1>3. FreeListInv => Layout(Nodes, size, watermark)
  BY <1>2 DEF FreeListInv, TypeOK, NodesDisjoint, NodesAligned, Layout, Nodes, Aligned
<1>4. GoodList(m_free_list, allocated) /\ Layout(Nodes, size, watermark) => FreeListInv
  BY DEF FreeListInv, TypeOK, ListIsSet, NodesDisjoint, NodesAligned,
         GoodList, Layout, Injective, FreeNodes, Nodes, Aligned
<1>5. QED
  BY <1>1, <1>3, <1>4

LEMMA AddressArithmetic ==
  ASSUME NEW N, NEW sz, NEW w, Layout(N, sz, w), NEW a \in N
  PROVE  /\ a \in Nat /\ sz[a] \in Nat /\ w \in Nat /\ a \in Addresses
         /\ EndOf(a, sz) = a + Header + sz[a]
         /\ EndOf(a, sz) \in Nat /\ EndOf(a, sz) > a /\ EndOf(a, sz) <= w
         /\ Aligned(a) /\ Aligned(sz[a])
         /\ Aligned(EndOf(a, sz))
<1>1. /\ a \in Addresses /\ a \in Nat /\ sz[a] \in Nat /\ w \in Nat
      /\ Aligned(a) /\ Aligned(sz[a]) /\ EndOf(a, sz) <= w
  BY Constants DEF Layout, Addresses
<1>2. EndOf(a, sz) = a + Header + sz[a]
  BY DEF EndOf, to_user_ptr
<1>3. a + Header \in Int /\ Aligned(a + Header)
  BY <1>1, AlignedClosed, Constants
<1>4. Aligned(a + Header + sz[a])
  <2>1. sz[a] \in Int
    BY <1>1
  <2>2. QED
    BY <1>1, <1>3, <2>1, AlignedClosed, Zenon
<1>5. QED
  BY <1>1, <1>2, <1>4, Constants

\* The headers after a split, and after a new node.
SplitSize(sz, a, kept, new, left) == [sz EXCEPT ![a] = kept, ![new] = left]
NewSize(sz, a, left) == [sz EXCEPT ![a] = left]

\* What a split of node a leaves: the node new behind it, everything else in place.
IsSplit(N, sz, w, a, kept, new, sz2) ==
  /\ new \in Addresses /\ new \notin N
  /\ new > a /\ new < EndOf(a, sz)
  /\ Layout(N \cup {new}, sz2, w)
  /\ sz2[a] = kept /\ EndOf(a, sz2) = new /\ EndOf(new, sz2) = EndOf(a, sz)
  /\ \A c \in N : c # a => sz2[c] = sz[c] /\ EndOf(c, sz2) = EndOf(c, sz)

\* Splitting node a: the part that is kept, and a new node behind it.
LEMMA SplitNode ==
  ASSUME NEW N, NEW sz, NEW w, Layout(N, sz, w), NEW a \in N,
         NEW rem \in Nat, rem <= sz[a], rem >= Header, Aligned(rem),
         NEW kept, kept = sz[a] - rem,
         NEW new, new = to_user_ptr(a) + kept,
         NEW sz2, sz2 = SplitSize(sz, a, kept, new, rem - Header)
  PROVE  IsSplit(N, sz, w, a, kept, new, sz2)
<1>1. /\ a \in Nat /\ sz[a] \in Nat /\ w \in Nat /\ a \in Addresses
      /\ EndOf(a, sz) = a + Header + sz[a] /\ EndOf(a, sz) <= w
      /\ Aligned(a) /\ Aligned(sz[a])
  BY AddressArithmetic
<1>2. w <= MemSize /\ sz \in [Addresses -> 0 .. MemSize] /\ N \subseteq Addresses
      /\ w \in 0 .. MemSize /\ Aligned(w)
  BY DEF Layout
<1>3. Header \in Nat /\ Header > 0 /\ MemSize \in Nat /\ Aligned(Header)
  BY Constants
<1>4. kept \in 0 .. MemSize /\ rem - Header \in 0 .. MemSize
  <2>1. sz[a] \in 0 .. MemSize
    BY <1>1, <1>2
  <2>2. QED
    BY <1>3, <2>1
<1>5. /\ new = a + Header + kept /\ new \in Nat /\ new > a
      /\ new + Header + (rem - Header) = EndOf(a, sz) /\ new < EndOf(a, sz)
  <2>1. new = a + Header + kept /\ kept = sz[a] - rem /\ rem >= Header
    BY DEF to_user_ptr
  <2>2. /\ a \in Nat /\ sz[a] \in Nat /\ rem \in Nat /\ kept \in Nat
        /\ EndOf(a, sz) = a + Header + sz[a]
    BY <1>1, <1>4
  <2>3. QED
    BY <1>3, <2>1, <2>2
<1>6. new \in Addresses
  <2>1. new \in Nat /\ new < EndOf(a, sz) /\ EndOf(a, sz) <= w /\ w <= MemSize
    BY <1>1, <1>2, <1>5
  <2>2. w \in Nat /\ MemSize \in Nat /\ EndOf(a, sz) \in Nat
    <3>1. EndOf(a, sz) = a + Header + sz[a] /\ a \in Nat /\ sz[a] \in Nat
      BY <1>1
    <3>2. QED
      BY <1>1, <1>3, <3>1
  <2>3. new \in Nat /\ new < MemSize
    BY <2>1, <2>2
  <2>4. QED
    BY <2>2, <2>3 DEF Addresses
<1>7. Aligned(kept) /\ Aligned(rem - Header)
  <2>1. sz[a] \in Int /\ rem \in Int /\ Header \in Int
    BY <1>1, <1>3
  <2>2. Aligned(sz[a] - rem) /\ Aligned(rem - Header)
    BY <1>1, <1>3, <2>1, AlignedClosed, Zenon
  <2>3. QED
    BY <2>2
<1>8. Aligned(new)
  <2>1. a + Header \in Int /\ Aligned(a + Header)
    BY <1>1, <1>3, AlignedClosed
  <2>2. kept \in Int
    BY <1>3, <1>4
  <2>3. Aligned(a + Header + kept)
    BY <1>7, <2>1, <2>2, AlignedClosed, Zenon
  <2>4. QED
    BY <1>5, <2>3, Zenon
<1>9. /\ sz2 \in [Addresses -> 0 .. MemSize]
      /\ sz2[a] = kept /\ sz2[new] = rem - Header
      /\ \A c \in Addresses : c # a /\ c # new => sz2[c] = sz[c]
  BY <1>1, <1>2, <1>4, <1>5, <1>6 DEF SplitSize
<1>10. ASSUME NEW c \in N, c # a
       PROVE  /\ c \in Nat /\ EndOf(c, sz) \in Nat /\ EndOf(c, sz) > c
              /\ EndOf(c, sz) <= a \/ c >= EndOf(a, sz)
  <2>1. c \in Nat /\ EndOf(c, sz) \in Nat /\ EndOf(c, sz) > c
    BY AddressArithmetic
  <2>2. (c < a => EndOf(c, sz) <= a) /\ (a < c => EndOf(a, sz) <= c)
    BY DEF Layout
  <2>3. QED
    BY <1>1, <1>3, <1>10, <2>1, <2>2
<1>11. new \notin N
  <2> SUFFICES ASSUME new \in N PROVE FALSE
    OBVIOUS
  <2>1. new # a
    BY <1>1, <1>5
  <2>2. /\ EndOf(new, sz) \in Nat /\ EndOf(new, sz) > new
        /\ EndOf(new, sz) <= a \/ new >= EndOf(a, sz)
    BY <1>10, <2>1
  <2>3. QED
    BY <1>1, <1>3, <1>5, <2>2
<1>12. \A c \in N : c # a => sz2[c] = sz[c] /\ EndOf(c, sz2) = EndOf(c, sz)
  BY <1>2, <1>9, <1>11 DEF EndOf
<1>13. EndOf(a, sz2) = new /\ EndOf(new, sz2) = EndOf(a, sz)
  BY <1>5, <1>9 DEF EndOf, to_user_ptr
<1>14. ASSUME NEW c \in N \cup {new}
       PROVE  EndOf(c, sz2) <= w /\ Aligned(c) /\ Aligned(sz2[c])
  <2>1. CASE c = new
    BY <1>1, <1>7, <1>8, <1>9, <1>13, <2>1
  <2>2. CASE c = a
    <3>1. new <= w
      BY <1>1, <1>3, <1>5
    <3>2. QED
      BY <1>1, <1>7, <1>9, <1>13, <2>2, <3>1
  <2>3. CASE c \in N /\ c # a
    BY <1>12, <2>3 DEF Layout
  <2>4. QED
    BY <2>1, <2>2, <2>3
<1>15. ASSUME NEW c \in N \cup {new}, NEW d \in N \cup {new}, c < d
       PROVE  EndOf(c, sz2) <= d
  <2>1. CASE c = new /\ d = new
    BY <1>5, <1>15, <2>1
  <2>2. CASE c = new /\ d \in N
    BY <1>1, <1>3, <1>5, <1>10, <1>13, <1>15, <2>2
  <2>3. CASE c \in N /\ d = new
    BY <1>1, <1>3, <1>5, <1>10, <1>12, <1>13, <1>15, <2>3
  <2>4. CASE c = a /\ d \in N
    BY <1>1, <1>3, <1>5, <1>10, <1>13, <1>15, <2>4
  <2>5. CASE c \in N /\ c # a /\ d \in N
    <3>1. EndOf(c, sz) <= d
      BY <1>15, <2>5 DEF Layout
    <3>2. QED
      BY <1>12, <2>5, <3>1
  <2>6. QED
    BY <2>1, <2>2, <2>3, <2>4, <2>5
<1>16. Layout(N \cup {new}, sz2, w)
  BY <1>2, <1>6, <1>9, <1>14, <1>15 DEF Layout
<1>17. QED
  BY <1>5, <1>6, <1>9, <1>11, <1>12, <1>13, <1>16 DEF IsSplit

\* What a new node at w leaves: everything else in place.
IsAdded(N, sz, w, given, sz2) ==
  /\ w \in Addresses /\ w \notin N
  /\ Layout(N \cup {w}, sz2, w + given)
  /\ \A c \in N : sz2[c] = sz[c]

\* A node in memory that the fallback allocator has just given.
LEMMA NewNode ==
  ASSUME NEW N, NEW sz, NEW w, Layout(N, sz, w),
         NEW given \in Nat, given >= Header, Aligned(given),
         w + given <= MemSize,
         NEW sz2, sz2 = NewSize(sz, w, given - Header)
  PROVE  IsAdded(N, sz, w, given, sz2)
<1>1. /\ Header \in Nat /\ Header > 0 /\ MemSize \in Nat /\ Aligned(Header)
  BY Constants
<1>2. /\ w \in 0 .. MemSize /\ w \in Addresses /\ Aligned(w)
      /\ sz \in [Addresses -> 0 .. MemSize] /\ N \subseteq Addresses
  BY DEF Layout, Addresses
<1>3. \A c \in N : c \in Nat /\ EndOf(c, sz) \in Nat /\ EndOf(c, sz) > c /\ EndOf(c, sz) <= w
  BY AddressArithmetic
<1>4. w \notin N
  BY <1>2, <1>3
<1>5. given - Header \in 0 .. MemSize /\ Aligned(given - Header)
  BY <1>1, <1>2, AlignedClosed
<1>6. Aligned(w + given) /\ w + given \in 0 .. MemSize
  BY <1>1, <1>2, AlignedClosed
<1>7. /\ sz2 \in [Addresses -> 0 .. MemSize] /\ sz2[w] = given - Header
      /\ \A c \in Addresses : c # w => sz2[c] = sz[c]
  BY <1>2, <1>5 DEF NewSize
<1>8. EndOf(w, sz2) = w + given
  BY <1>1, <1>2, <1>7 DEF EndOf, to_user_ptr
<1>9. \A c \in N : sz2[c] = sz[c] /\ EndOf(c, sz2) = EndOf(c, sz)
  BY <1>2, <1>4, <1>7 DEF EndOf
<1>10. ASSUME NEW c \in N \cup {w}
       PROVE  EndOf(c, sz2) <= w + given /\ Aligned(c) /\ Aligned(sz2[c])
  <2>1. CASE c = w
    BY <1>2, <1>5, <1>7, <1>8, <2>1
  <2>2. CASE c \in N
    <3>1. Aligned(c) /\ Aligned(sz[c])
      BY <2>2 DEF Layout
    <3>2. QED
      BY <1>2, <1>3, <1>9, <2>2, <3>1
  <2>3. QED
    BY <2>1, <2>2
<1>11. ASSUME NEW c \in N \cup {w}, NEW d \in N \cup {w}, c < d
       PROVE  EndOf(c, sz2) <= d
  <2>1. CASE c = w
    BY <1>2, <1>3, <1>11, <2>1
  <2>2. CASE c \in N /\ d = w
    BY <1>3, <1>9, <2>2
  <2>3. CASE c \in N /\ d \in N
    <3>1. EndOf(c, sz) <= d
      BY <1>11, <2>3 DEF Layout
    <3>2. QED
      BY <1>9, <2>3, <3>1
  <2>4. QED
    BY <2>1, <2>2, <2>3
<1>12. Layout(N \cup {w}, sz2, w + given)
  BY <1>2, <1>6, <1>7, <1>10, <1>11 DEF Layout
<1>13. QED
  BY <1>2, <1>4, <1>7, <1>9, <1>12 DEF IsAdded

\* What is left when node l has adopted r: r is gone, l ends before r did, no node begins
\* between them, everything else is in place.
IsAdopted(N, sz, w, l, r, sz2) ==
  /\ Layout(N \ {r}, sz2, w)
  /\ EndOf(l, sz2) < EndOf(r, sz)
  /\ \A c \in N \ {r} : c > l => c >= EndOf(r, sz)
  /\ \A c \in N : c # l /\ c # r => sz2[c] = sz[c] /\ EndOf(c, sz2) = EndOf(c, sz)

\* Node l adopts the next node r, all but the bytes of the header of r.
LEMMA AdoptNode ==
  ASSUME NEW N, NEW sz, NEW w, Layout(N, sz, w), NEW l \in N, NEW r \in N,
         l < r, EndOf(l, sz) <= r, \A c \in N : c > l => c >= r,
         NEW sz2, sz2 = adopt_right_node_size(sz, l, r)
  PROVE  IsAdopted(N, sz, w, l, r, sz2)
<1>1. /\ Header \in Nat /\ Header > 0 /\ MemSize \in Nat /\ Aligned(Header)
  BY Constants
<1>2. /\ w \in 0 .. MemSize /\ Aligned(w)
      /\ sz \in [Addresses -> 0 .. MemSize] /\ N \subseteq Addresses
  BY DEF Layout
<1>3. \A c \in N : /\ c \in Nat /\ sz[c] \in Nat /\ EndOf(c, sz) \in Nat
                   /\ EndOf(c, sz) > c /\ EndOf(c, sz) <= w
                   /\ EndOf(c, sz) = c + Header + sz[c]
                   /\ Aligned(sz[c]) /\ Aligned(c)
  BY AddressArithmetic
<1>4. l \in Addresses /\ r \in Addresses /\ l # r
  BY <1>2, <1>3
<1>5. /\ sz[l] + sz[r] \in 0 .. MemSize /\ Aligned(sz[l] + sz[r])
      /\ l + Header + (sz[l] + sz[r]) < EndOf(r, sz)
  <2>1. /\ l \in Nat /\ r \in Nat /\ sz[l] \in Int /\ sz[r] \in Int
        /\ sz[l] >= 0 /\ sz[r] >= 0 /\ Aligned(sz[l]) /\ Aligned(sz[r])
        /\ r >= l + Header + sz[l]
        /\ EndOf(r, sz) = r + Header + sz[r] /\ EndOf(r, sz) <= MemSize
    BY <1>1, <1>2, <1>3
  <2>2. Aligned(sz[l] + sz[r])
    BY <2>1, AlignedClosed, Zenon
  <2>3. QED
    BY <1>1, <2>1, <2>2
<1>6. /\ sz2 \in [Addresses -> 0 .. MemSize] /\ sz2[l] = sz[l] + sz[r]
      /\ \A c \in Addresses : c # l /\ c # r => sz2[c] = sz[c]
  BY <1>1, <1>2, <1>4, <1>5 DEF adopt_right_node_size
<1>7. EndOf(l, sz2) < EndOf(r, sz) /\ EndOf(l, sz2) \in Nat
  BY <1>1, <1>3, <1>5, <1>6 DEF EndOf, to_user_ptr
<1>8. \A c \in N : c # l /\ c # r => sz2[c] = sz[c] /\ EndOf(c, sz2) = EndOf(c, sz)
  BY <1>2, <1>6 DEF EndOf
<1>9. ASSUME NEW c \in N \ {r}
      PROVE  EndOf(c, sz2) <= w /\ Aligned(c) /\ Aligned(sz2[c])
  <2>1. CASE c = l
    <3>1. EndOf(l, sz2) <= w
      BY <1>1, <1>2, <1>3, <1>7
    <3>2. QED
      BY <1>3, <1>5, <1>6, <2>1, <3>1
  <2>2. CASE c # l
    BY <1>3, <1>8, <2>2
  <2>3. QED
    BY <2>1, <2>2
<1>10. ASSUME NEW d \in N \ {r}, d > l PROVE d >= EndOf(r, sz)
  <2>1. d > r
    BY <1>3, <1>10
  <2>2. EndOf(r, sz) <= d
    BY <2>1 DEF Layout
  <2>3. QED
    BY <1>3, <2>2
<1>11. ASSUME NEW c \in N \ {r}, NEW d \in N \ {r}, c < d
       PROVE  EndOf(c, sz2) <= d
  <2>1. EndOf(c, sz) <= d
    BY <1>11 DEF Layout
  <2>2. CASE c = l
    BY <1>3, <1>7, <1>10, <1>11, <2>2
  <2>3. CASE c # l
    BY <1>8, <2>1, <2>3
  <2>4. QED
    BY <2>2, <2>3
<1>12. Layout(N \ {r}, sz2, w)
  BY <1>2, <1>6, <1>9, <1>11 DEF Layout
<1>13. QED
  BY <1>7, <1>8, <1>10, <1>12 DEF IsAdopted
-----------------------------------------------------------------------------
(***************************************************************************)
(* Allocation.                                                             *)
(***************************************************************************)

\* No two nodes of F lie side by side.
NoNeighbours(F, sz) == \A a, b \in F : EndOf(a, sz) # b

LEMMA FirstFitNode ==
  ASSUME NEW list, NEW sz, NEW n, NEW a \in FirstFit(list, sz, n)
  PROVE  a \in Range(list) /\ sz[a] >= n
BY DEF FirstFit, Range

\* Taking a node, split or whole, out of the list.
LEMMA AllocateFrom ==
  ASSUME NEW list, NEW sz, NEW w, NEW n \in Nat,
         GoodList(list, allocated), Layout(Range(list) \cup allocated, sz, w),
         allocate_from(list, sz, n)
  PROVE  /\ GoodList(m_free_list', allocated')
         /\ Layout(Range(m_free_list') \cup allocated', size', w)
         /\ \E a \in Range(list) :
              /\ allocated' = allocated \cup {a}
              /\ size'[a] >= n
              /\ \A c \in allocated : size'[c] = sz[c]
         /\ NoNeighbours(Range(list), sz) => NoNeighbours(Range(m_free_list'), size')
<1>1. PICK a \in FirstFit(list, sz, n) :
        split(list, sz, a, n) /\ allocated' = allocated \cup {a}
  BY DEF allocate_from
<1>2. a \in Range(list) /\ sz[a] >= n /\ a \notin allocated
  BY <1>1, FirstFitNode DEF GoodList
<1> DEFINE N == Range(list) \cup allocated
           remaining == align_down_two(sz[a] - n, Alignment)
           kept == sz[a] - remaining
           new == to_user_ptr(a) + kept
<1>3. /\ Layout(N, sz, w) /\ a \in N
      /\ a \in Nat /\ sz[a] \in Nat /\ EndOf(a, sz) \in Nat /\ EndOf(a, sz) > a
  BY <1>2, AddressArithmetic
<1>4. remaining \in 0 .. sz[a] - n /\ Aligned(remaining)
  <2>1. sz[a] - n \in Nat
    BY <1>2, <1>3
  <2>2. QED
    BY <2>1, AlignDown, FreeListAssumption DEF Aligned
<1>5. Range(list) \subseteq N /\ allocated \subseteq N
  OBVIOUS
<1>6. CASE remaining > min_allocation_size(Alignment)
  <2> DEFINE sz2 == [sz EXCEPT ![a] = kept, ![new] = remaining - Header]
  <2>1. m_free_list' = RemoveNode(Append(list, new), a) /\ size' = sz2
    BY <1>1, <1>6 DEF split
  <2>2. min_allocation_size(Alignment) >= Header /\ min_allocation_size(Alignment) \in Nat
    BY PreferredSize, FreeListAssumption
  <2>3. remaining \in Nat /\ remaining <= sz[a] /\ remaining >= Header /\ kept >= n
    BY <1>2, <1>3, <1>4, <1>6, <2>2, Constants
  <2>a. kept = sz[a] - remaining /\ new = to_user_ptr(a) + kept
        /\ sz2 = SplitSize(sz, a, kept, new, remaining - Header)
    BY DEF SplitSize
  <2> HIDE DEF N, remaining, kept, new, sz2
  <2>4. /\ new \in Addresses /\ new \notin N
        /\ new > a /\ new < EndOf(a, sz)
        /\ Layout(N \cup {new}, sz2, w)
        /\ sz2[a] = kept /\ EndOf(a, sz2) = new /\ EndOf(new, sz2) = EndOf(a, sz)
        /\ \A c \in N : c # a => sz2[c] = sz[c] /\ EndOf(c, sz2) = EndOf(c, sz)
    <3>1. IsSplit(N, sz, w, a, kept, new, sz2)
      BY <1>3, <1>4, <2>3, <2>a, SplitNode
    <3>2. QED
      BY <3>1 DEF IsSplit
  <2>5. /\ Append(list, new) \in Seq(Addresses) /\ Injective(Append(list, new))
        /\ Range(Append(list, new)) = Range(list) \cup {new}
    BY <1>5, <2>4, AppendNode DEF GoodList
  <2>6. /\ m_free_list' \in Seq(Addresses) /\ Injective(m_free_list')
        /\ Range(m_free_list') = (Range(list) \cup {new}) \ {a}
    <3> DEFINE l == Append(list, new)
    <3>1. m_free_list' = RemoveNode(l, a) /\ l \in Seq(Addresses) /\ Injective(l)
          /\ Range(l) = Range(list) \cup {new} /\ a \in Range(l)
      BY <1>2, <2>1, <2>5
    <3> HIDE DEF l
    <3>2. QED
      BY <3>1, RemoveNodeFromList
  <2>7. Range(m_free_list') \cup allocated' = N \cup {new}
    BY <1>1, <1>2, <2>6 DEF N
  <2>8. new # a /\ new \notin allocated
    BY <1>3, <1>5, <2>4
  <2>9. GoodList(m_free_list', allocated')
    BY <1>1, <2>6, <2>8 DEF GoodList
  <2>10. \A c \in allocated : size'[c] = sz[c]
    BY <1>2, <1>5, <2>1, <2>4
  <2>11. ASSUME NoNeighbours(Range(list), sz)
         PROVE  NoNeighbours(Range(m_free_list'), size')
    <3> SUFFICES ASSUME NEW c \in Range(m_free_list'), NEW d \in Range(m_free_list'),
                        EndOf(c, sz2) = d
                 PROVE  FALSE
      BY <2>1 DEF NoNeighbours
    <3>1. CASE c = new /\ d \in Range(list)
      BY <1>2, <2>4, <2>11, <3>1 DEF NoNeighbours
    <3>2. CASE c = new /\ d = new
      BY <1>3, <2>4, <3>2 DEF Addresses
    <3>3. CASE c \in Range(list) /\ d = new /\ c # a
      <4>1. c \in N /\ c \in Nat /\ EndOf(c, sz) \in Nat /\ EndOf(c, sz) > c
            /\ EndOf(c, sz) = new
        BY <1>3, <1>5, <2>4, <3>3, AddressArithmetic
      <4>2. (c < a => EndOf(c, sz) <= a) /\ (a < c => EndOf(a, sz) <= c)
        BY <1>3, <4>1 DEF Layout
      <4>3. QED
        BY <1>3, <2>4, <3>3, <4>1, <4>2
    <3>4. CASE c \in Range(list) /\ d \in Range(list) /\ c # a
      BY <1>5, <2>4, <2>11, <3>4 DEF NoNeighbours
    <3>5. QED
      BY <2>6, <3>1, <3>2, <3>3, <3>4
  <2>12. QED
    BY <1>1, <1>2, <2>1, <2>3, <2>4, <2>7, <2>9, <2>10, <2>11
<1>7. CASE ~(remaining > min_allocation_size(Alignment))
  <2>1. m_free_list' = RemoveNode(list, a) /\ size' = sz
    BY <1>1, <1>7 DEF split
  <2> HIDE DEF N, remaining, kept, new
  <2>2. /\ m_free_list' \in Seq(Addresses) /\ Injective(m_free_list')
        /\ Range(m_free_list') = Range(list) \ {a}
    BY <1>2, <2>1, RemoveNodeFromList DEF GoodList
  <2>3. Range(m_free_list') \cup allocated' = N
    BY <1>1, <1>2, <2>2 DEF N
  <2>4. GoodList(m_free_list', allocated')
    BY <1>1, <2>2 DEF GoodList
  <2>5. NoNeighbours(Range(list), sz) => NoNeighbours(Range(m_free_list'), size')
    BY <2>1, <2>2 DEF NoNeighbours
  <2>6. QED
    BY <1>1, <1>2, <1>3, <2>1, <2>3, <2>4, <2>5
<1>8. QED
  BY <1>6, <1>7

\* What the fallback allocator gives.
LEMMA Given ==
  ASSUME NEW n \in Nat, watermark \in 0 .. MemSize,
         NEW given \in FallbackAllocate(preferred_size(n))
  PROVE  /\ given \in Nat /\ given >= Header + n /\ Aligned(given)
         /\ watermark + given <= MemSize
         /\ FixedFallback => watermark = 0
<1>1. /\ preferred_size(n) \in Nat /\ preferred_size(n) >= n + Header
      /\ Aligned(preferred_size(n))
  BY PreferredSize
<1>2. CASE FixedFallback
  <2>1. given = MemSize /\ watermark = 0 /\ preferred_size(n) <= MemSize
    BY <1>2 DEF FallbackAllocate, FixedAllocate
  <2>2. QED
    BY <1>1, <2>1, Constants
<1>3. CASE ~FixedFallback
  <2>1. given = preferred_size(n) /\ watermark + preferred_size(n) <= MemSize
    BY <1>3 DEF FallbackAllocate, WatermarkAllocate
  <2>2. QED
    BY <1>1, <1>3, <2>1, Constants
<1>4. QED
  BY <1>2, <1>3

\* What the caller of malloc sees: a node it did not have, with room for the request,
\* and the nodes it has as they were.
Handed(n) ==
  /\ watermark' \in Nat /\ watermark' >= watermark
  /\ \E a \in Addresses \ allocated :
       /\ allocated' = allocated \cup {a}
       /\ size'[a] >= n
       /\ \A c \in allocated : size'[c] = size[c]

LEMMA CoalescedAsNoNeighbours ==
  Coalesced <=> (FixedFallback => NoNeighbours(FreeNodes, size))
BY DEF Coalesced, NoNeighbours, are_nodes_contiguous

LEMMA AllocateFromListStep ==
  ASSUME FreeListInv, NEW n \in Nat, AllocateFromList(n)
  PROVE  FreeListInv' /\ (Coalesced => Coalesced') /\ Handed(n)
<1>1. GoodList(m_free_list, allocated) /\ Layout(Nodes, size, watermark)
      /\ watermark' = watermark /\ allocate_from(m_free_list, size, n)
  BY InvAsLayout DEF AllocateFromList
<1>2. Layout(Range(m_free_list) \cup allocated, size, watermark)
  BY <1>1 DEF Nodes, FreeNodes
<1>3. /\ GoodList(m_free_list', allocated')
      /\ Layout(Range(m_free_list') \cup allocated', size', watermark)
      /\ \E a \in Range(m_free_list) :
           /\ allocated' = allocated \cup {a}
           /\ size'[a] >= n
           /\ \A c \in allocated : size'[c] = size[c]
      /\ NoNeighbours(Range(m_free_list), size) => NoNeighbours(Range(m_free_list'), size')
  BY <1>1, <1>2, AllocateFrom
<1>4. FreeListInv'
  <2>1. Layout(Nodes', size', watermark')
    BY <1>1, <1>3 DEF Nodes, FreeNodes
  <2>2. (GoodList(m_free_list, allocated) /\ Layout(Nodes, size, watermark))'
    BY <1>3, <2>1
  <2>3. QED
    BY <2>2, InvAsLayout, PTL
<1>5. Coalesced => Coalesced'
  <2>1. (FixedFallback => NoNeighbours(FreeNodes, size))
          => (FixedFallback => NoNeighbours(FreeNodes, size))'
    BY <1>3 DEF FreeNodes
  <2>2. QED
    BY <2>1, CoalescedAsNoNeighbours, PTL
<1>6. Handed(n)
  <2>1. Range(m_free_list) \subseteq Addresses \ allocated
    BY <1>1 DEF GoodList, Range
  <2>2. watermark \in Nat
    BY <1>1, Constants DEF Layout
  <2>3. QED
    BY <1>1, <1>3, <2>1, <2>2 DEF Handed
<1>7. QED
  BY <1>4, <1>5, <1>6

LEMMA AllocateFromFallbackStep ==
  ASSUME FreeListInv, NEW n \in Nat, AllocateFromFallback(n)
  PROVE  FreeListInv' /\ (Coalesced => Coalesced') /\ Handed(n)
<1>1. GoodList(m_free_list, allocated) /\ Layout(Nodes, size, watermark)
  BY InvAsLayout
<1>2. /\ watermark \in 0 .. MemSize /\ watermark \in Nat /\ watermark \in Addresses
      /\ FreeNodes \subseteq Nodes /\ allocated \subseteq Nodes
      /\ Nodes \subseteq Addresses
  BY <1>1, Constants DEF Layout, Nodes, Addresses
<1>3. PICK given \in FallbackAllocate(preferred_size(n)) :
        /\ watermark' = watermark + given
        /\ allocate_from(Append(m_free_list, watermark),
                         [size EXCEPT ![watermark] = given - Header], n)
  BY DEF AllocateFromFallback
<1> DEFINE list == Append(m_free_list, watermark)
           sz == [size EXCEPT ![watermark] = given - Header]
<1>4. /\ given \in Nat /\ given >= Header + n /\ Aligned(given)
      /\ watermark + given <= MemSize
      /\ FixedFallback => watermark = 0
  BY <1>2, Given
<1>5. given >= Header
  BY <1>4, Constants
<1>6. sz = NewSize(size, watermark, given - Header)
  BY DEF NewSize
<1>7. allocate_from(list, sz, n)
  BY <1>3
<1> HIDE DEF sz, list
<1>8. /\ watermark \notin Nodes
      /\ Layout(Nodes \cup {watermark}, sz, watermark + given)
      /\ \A c \in Nodes : sz[c] = size[c]
  <2>1. IsAdded(Nodes, size, watermark, given, sz)
    BY <1>1, <1>4, <1>5, <1>6, NewNode
  <2>2. QED
    BY <2>1 DEF IsAdded
<1>9. /\ list \in Seq(Addresses) /\ Injective(list)
      /\ Range(list) = FreeNodes \cup {watermark}
  BY <1>1, <1>2, <1>8, AppendNode DEF GoodList, list, FreeNodes
<1>10. /\ GoodList(list, allocated)
       /\ Layout(Range(list) \cup allocated, sz, watermark + given)
  <2>1. Range(list) \cup allocated = Nodes \cup {watermark}
    BY <1>9 DEF Nodes
  <2>2. Range(list) \cap allocated = {}
    BY <1>1, <1>2, <1>8, <1>9 DEF GoodList, FreeNodes
  <2>3. QED
    BY <1>8, <1>9, <2>1, <2>2 DEF GoodList
<1>11. /\ GoodList(m_free_list', allocated')
       /\ Layout(Range(m_free_list') \cup allocated', size', watermark + given)
       /\ \E a \in Range(list) :
            /\ allocated' = allocated \cup {a}
            /\ size'[a] >= n
            /\ \A c \in allocated : size'[c] = sz[c]
       /\ NoNeighbours(Range(list), sz) => NoNeighbours(Range(m_free_list'), size')
  BY <1>7, <1>10, AllocateFrom
<1>12. FreeListInv'
  <2>1. Layout(Nodes', size', watermark')
    BY <1>3, <1>11 DEF Nodes, FreeNodes
  <2>2. (GoodList(m_free_list, allocated) /\ Layout(Nodes, size, watermark))'
    BY <1>11, <2>1
  <2>3. QED
    BY <2>2, InvAsLayout, PTL
<1>13. ASSUME FixedFallback PROVE NoNeighbours(Range(list), sz)
  <2>1. ASSUME NEW c \in Nodes PROVE FALSE
    BY <1>1, <1>4, <1>13, <2>1, AddressArithmetic
  <2>2. Range(list) = {watermark}
    BY <1>2, <1>9, <2>1
  <2>3. watermark \in Nodes \cup {watermark}
    OBVIOUS
  <2>4. EndOf(watermark, sz) > watermark /\ EndOf(watermark, sz) \in Nat
    BY <1>8, <2>3, AddressArithmetic
  <2>5. QED
    BY <1>2, <2>2, <2>4 DEF NoNeighbours
<1>14. Coalesced'
  <2>1. (FixedFallback => NoNeighbours(FreeNodes, size))'
    BY <1>11, <1>13 DEF FreeNodes
  <2>2. QED
    BY <2>1, CoalescedAsNoNeighbours, PTL
<1>15. Handed(n)
  <2>1. Range(list) \subseteq Addresses \ allocated
    BY <1>2, <1>9, <1>10 DEF GoodList
  <2>2. \A c \in allocated : sz[c] = size[c]
    BY <1>2, <1>8
  <2>3. watermark' \in Nat /\ watermark' >= watermark
    BY <1>2, <1>3, <1>4
  <2>4. QED
    BY <1>11, <2>1, <2>2, <2>3 DEF Handed
<1>16. QED
  BY <1>12, <1>14, <1>15
-----------------------------------------------------------------------------
(***************************************************************************)
(* Giving back.                                                            *)
(***************************************************************************)
LEMMA FreeStep ==
  ASSUME FreeListInv, NEW a \in allocated, free(a)
  PROVE  /\ FreeListInv' /\ (Coalesced => Coalesced')
         /\ \A c \in allocated' : size'[c] = size[c]
<1> DEFINE left == LeftNodes(a)
           right == RightNodes(a)
           node == IF left = {} THEN a ELSE CHOOSE f \in left : TRUE
           adopted == IF left = {} THEN size ELSE adopt_right_node_size(size, node, a)
           r == CHOOSE f \in right : TRUE
           list == IF right = {} THEN m_free_list ELSE RemoveNode(m_free_list, r)
           e == EndOf(a, size)
           N1 == IF left = {} THEN Nodes ELSE Nodes \ {a}
<1>1. /\ allocated' = allocated \ {a}
      /\ size' = IF right = {} THEN adopted ELSE adopt_right_node_size(adopted, node, r)
      /\ m_free_list' = IF left = {} THEN Append(list, a) ELSE list
      /\ watermark' = watermark
  BY DEF free
<1>2. GoodList(m_free_list, allocated) /\ Layout(Nodes, size, watermark)
  BY InvAsLayout
<1>3. /\ Nodes = FreeNodes \cup allocated /\ FreeNodes \cap allocated = {}
      /\ a \in Nodes /\ a \notin FreeNodes /\ Nodes \subseteq Addresses
      /\ FreeNodes \subseteq Nodes /\ allocated \subseteq Nodes
  BY <1>2 DEF Nodes, GoodList, FreeNodes, Layout
<1>4. \A c \in Nodes : c \in Nat /\ EndOf(c, size) \in Nat /\ EndOf(c, size) > c
  BY <1>2, AddressArithmetic
<1>5. \A c, d \in Nodes : c < d => EndOf(c, size) <= d
  BY <1>2 DEF Layout
<1>6. /\ left = {f \in FreeNodes : f < a /\ EndOf(f, size) = a}
      /\ right = {f \in FreeNodes : f > a /\ f = e}
  BY DEF LeftNodes, RightNodes, are_nodes_contiguous
<1>7. left # {} => node \in left
  OBVIOUS
<1>8. right # {} => r \in right
  OBVIOUS
<1>9. /\ left = {} => node = a
      /\ left = {} => adopted = size
      /\ left # {} => adopted = adopt_right_node_size(size, node, a)
      /\ N1 = IF left = {} THEN Nodes ELSE Nodes \ {a}
      /\ list = IF right = {} THEN m_free_list ELSE RemoveNode(m_free_list, r)
  OBVIOUS
<1> HIDE DEF left, right, node, adopted, r, list, N1
<1>10. e \in Nat /\ e > a /\ a \in Nat
  BY <1>3, <1>4
<1> HIDE DEF e

\* After the left neighbour has adopted the node, if there is one.
<1>11. /\ Layout(N1, adopted, watermark) /\ node \in N1
       /\ node < e /\ EndOf(node, adopted) <= e
       /\ left # {} => EndOf(node, adopted) < e
       /\ left = {} => EndOf(node, adopted) = e
       /\ \A c \in N1 : c > node => c >= e
       /\ \A c \in N1 : c # node => adopted[c] = size[c] /\ EndOf(c, adopted) = EndOf(c, size)
  <2>1. CASE left = {}
    <3>1. N1 = Nodes /\ adopted = size /\ node = a
      BY <1>9, <2>1
    <3>2. \A c \in Nodes : c > a => c >= e
      BY <1>3, <1>4, <1>5 DEF e
    <3>3. QED
      BY <1>2, <1>3, <1>10, <2>1, <3>1, <3>2 DEF e
  <2>2. CASE left # {}
    <3>1. node \in Nodes /\ node < a /\ EndOf(node, size) = a /\ node # a
      BY <1>3, <1>4, <1>6, <1>7, <2>2
    <3>2. \A c \in Nodes : c > node => c >= a
      BY <1>4, <1>5, <3>1
    <3>3. IsAdopted(Nodes, size, watermark, node, a, adopted)
      <4>1. EndOf(node, size) <= a
        BY <1>10, <3>1
      <4>2. QED
        BY <1>2, <1>3, <1>9, <2>2, <3>1, <3>2, <4>1, AdoptNode
    <3>4. N1 = Nodes \ {a} /\ node \in N1
      BY <1>9, <2>2, <3>1
    <3>5. /\ Layout(N1, adopted, watermark) /\ EndOf(node, adopted) < e
          /\ \A c \in N1 : c > node => c >= e
          /\ \A c \in N1 : c # node => adopted[c] = size[c] /\ EndOf(c, adopted) = EndOf(c, size)
      BY <3>3, <3>4 DEF IsAdopted, e
    <3>6. EndOf(node, adopted) \in Nat /\ EndOf(node, adopted) > node /\ node \in Nat
      BY <3>4, <3>5, AddressArithmetic
    <3>7. node < e /\ EndOf(node, adopted) <= e
      BY <1>10, <3>5, <3>6
    <3>8. QED
      BY <2>2, <3>4, <3>5, <3>7
  <2>3. QED
    BY <2>1, <2>2

\* After the right neighbour has been adopted too, if there is one.
<1>12. /\ Layout(N1 \ right, size', watermark) /\ node \in N1 \ right
       /\ EndOf(node, size') \in Nat /\ EndOf(node, size') > node
       /\ left = {} /\ right = {} => EndOf(node, size') = e
       /\ left # {} \/ right # {} =>
            \A c \in N1 \ right : c > node => c > EndOf(node, size')
       /\ \A c \in N1 \ right : c # node =>
            size'[c] = size[c] /\ EndOf(c, size') = EndOf(c, size)
  <2>1. /\ node \in Nat /\ EndOf(node, adopted) \in Nat /\ EndOf(node, adopted) > node
        /\ \A c \in N1 : c \in Nat
    BY <1>11, AddressArithmetic
  <2>2. CASE right = {}
    <3>1. size' = adopted /\ N1 \ right = N1
      BY <1>1, <2>2
    <3>2. QED
      BY <1>10, <1>11, <2>1, <2>2, <3>1
  <2>3. CASE right # {}
    <3>1. r = e /\ r \in FreeNodes /\ right = {r} /\ r # a
      BY <1>6, <1>8, <1>10, <2>3
    <3>2. r \in N1 /\ node < r
      BY <1>3, <1>9, <1>11, <3>1
    <3>3. size' = adopt_right_node_size(adopted, node, r)
      BY <1>1, <2>3
    <3>4. IsAdopted(N1, adopted, watermark, node, r, size')
      BY <1>11, <3>1, <3>2, <3>3, AdoptNode
    <3>5. r # node /\ EndOf(r, adopted) \in Nat /\ EndOf(r, adopted) > r
      BY <1>11, <2>1, <3>2, AddressArithmetic
    <3>6. Layout(N1 \ right, size', watermark) /\ node \in N1 \ right
      BY <1>11, <3>1, <3>4, <3>5 DEF IsAdopted
    <3>7. EndOf(node, size') \in Nat /\ EndOf(node, size') > node
      BY <3>6, AddressArithmetic
    <3>8. \A c \in N1 \ right : c > node => c > EndOf(node, size')
      BY <2>1, <3>1, <3>4, <3>5, <3>7 DEF IsAdopted
    <3>9. QED
      BY <1>11, <2>3, <3>1, <3>4, <3>6, <3>7, <3>8 DEF IsAdopted
  <2>4. QED
    BY <2>2, <2>3

\* The list.
<1>13. /\ list \in Seq(Addresses) /\ Injective(list)
       /\ Range(list) = FreeNodes \ right
  <2>1. CASE right = {}
    BY <1>2, <1>9, <2>1 DEF GoodList, FreeNodes
  <2>2. CASE right # {}
    <3>1. r \in Range(m_free_list) /\ right = {r}
      BY <1>6, <1>8, <2>2 DEF FreeNodes
    <3>2. list = RemoveNode(m_free_list, r)
      BY <1>9, <2>2
    <3>3. QED
      BY <1>2, <3>1, <3>2, RemoveNodeFromList DEF GoodList, FreeNodes
  <2>3. QED
    BY <2>1, <2>2
<1>14. /\ m_free_list' \in Seq(Addresses) /\ Injective(m_free_list')
       /\ Range(m_free_list') = (FreeNodes \ right) \cup (IF left = {} THEN {a} ELSE {})
  <2>1. CASE left = {}
    <3>1. m_free_list' = Append(list, a) /\ a \notin Range(list) /\ a \in Addresses
      BY <1>1, <1>3, <1>13, <2>1
    <3>2. QED
      BY <1>13, <2>1, <3>1, AppendNode
  <2>2. CASE left # {}
    BY <1>1, <1>13, <2>2
  <2>3. QED
    BY <2>1, <2>2
<1>15. /\ Nodes' = N1 \ right
       /\ Range(m_free_list') \cap allocated' = {}
       /\ Range(m_free_list') \subseteq N1 \ right
       /\ allocated' \subseteq (N1 \ right) \ {node}
  <2>1. right \subseteq FreeNodes /\ left \subseteq FreeNodes
    BY <1>6
  <2>2. node = a \/ node \in FreeNodes
    BY <1>7, <1>9, <2>1
  <2>3. Nodes' = Range(m_free_list') \cup allocated'
    BY DEF Nodes, FreeNodes
  <2>4. CASE left = {}
    BY <1>1, <1>3, <1>9, <1>14, <2>1, <2>3, <2>4
  <2>5. CASE left # {}
    BY <1>1, <1>3, <1>9, <1>14, <2>1, <2>2, <2>3, <2>5
  <2>6. QED
    BY <2>4, <2>5
<1>16. FreeListInv'
  <2>1. (GoodList(m_free_list, allocated) /\ Layout(Nodes, size, watermark))'
    BY <1>1, <1>12, <1>14, <1>15 DEF GoodList
  <2>2. QED
    BY <2>1, InvAsLayout, PTL
<1>17. \A c \in allocated' : size'[c] = size[c]
  BY <1>12, <1>15
<1>18. ASSUME NoNeighbours(FreeNodes, size)
       PROVE  NoNeighbours(Range(m_free_list'), size')
  <2> SUFFICES ASSUME NEW c \in Range(m_free_list'), NEW d \in Range(m_free_list'),
                      EndOf(c, size') = d
               PROVE  FALSE
    BY DEF NoNeighbours
  <2>1. c \in N1 \ right /\ d \in N1 \ right
    BY <1>15
  <2>2. CASE c = node /\ (left # {} \/ right # {})
    BY <1>11, <1>12, <2>1, <2>2, AddressArithmetic
  <2>3. CASE c = node /\ left = {} /\ right = {}
    <3>1. d = e /\ d \in FreeNodes \cup {a}
      BY <1>12, <1>14, <2>3
    <3>2. d \in right
      BY <1>6, <1>10, <3>1
    <3>3. QED
      BY <2>3, <3>2
  <2>4. CASE c # node
    <3>1. EndOf(c, size) = d /\ c \in FreeNodes
      BY <1>9, <1>12, <1>14, <2>1, <2>4
    <3>2. CASE d \in FreeNodes
      BY <1>18, <3>1, <3>2 DEF NoNeighbours
    <3>3. CASE d = a /\ left = {}
      <4>1. c < a
        BY <1>3, <1>4, <3>1, <3>3
      <4>2. c \in left
        BY <1>6, <3>1, <3>3, <4>1
      <4>3. QED
        BY <3>3, <4>2
    <3>4. QED
      BY <1>14, <3>2, <3>3
  <2>5. QED
    BY <2>2, <2>3, <2>4
<1>19. Coalesced => Coalesced'
  <2>1. (FixedFallback => NoNeighbours(FreeNodes, size))
          => (FixedFallback => NoNeighbours(FreeNodes, size))'
    BY <1>18 DEF FreeNodes
  <2>2. QED
    BY <2>1, CoalescedAsNoNeighbours, PTL
<1>20. QED
  BY <1>16, <1>17, <1>19
-----------------------------------------------------------------------------
(***************************************************************************)
(* The theorems.                                                           *)
(***************************************************************************)
LEMMA InitEstablishes == Init => FreeListInv /\ Coalesced
<1> SUFFICES ASSUME Init PROVE FreeListInv /\ Coalesced
  OBVIOUS
<1>1. <<>> \in Seq(Addresses)
  OBVIOUS
<1>2. /\ m_free_list = <<>> /\ size = [a \in Addresses |-> 0]
      /\ allocated = {} /\ watermark = 0
  BY DEF Init
<1>3. FreeNodes = {} /\ Nodes = {}
  BY <1>2 DEF FreeNodes, Nodes, Range
<1>4. 0 % Alignment = 0
  BY Multiples, FreeListAssumption
<1>5. TypeOK
  <2>1. 0 \in 0 .. MemSize
    BY Constants
  <2>2. QED
    BY <1>1, <1>2, <2>1 DEF TypeOK
<1>6. QED
  BY <1>2, <1>3, <1>4, <1>5
     DEF FreeListInv, ListIsSet, NodesDisjoint, NodesAligned, Coalesced

LEMMA NextPreserves ==
  FreeListInv /\ [Next]_vars => FreeListInv' /\ (Coalesced => Coalesced')
<1> SUFFICES ASSUME FreeListInv, [Next]_vars
             PROVE  FreeListInv' /\ (Coalesced => Coalesced')
  OBVIOUS
<1>1. ASSUME UNCHANGED vars PROVE FreeListInv' /\ (Coalesced => Coalesced')
  BY <1>1 DEF vars, FreeListInv, TypeOK, ListIsSet, NodesDisjoint, NodesAligned,
              Coalesced, Nodes, FreeNodes, are_nodes_contiguous
<1>2. ASSUME NEW n \in Requests, AllocateFromList(n)
      PROVE  FreeListInv' /\ (Coalesced => Coalesced')
  BY <1>2, AllocateFromListStep, Constants
<1>3. ASSUME NEW n \in Requests, AllocateFromFallback(n)
      PROVE  FreeListInv' /\ (Coalesced => Coalesced')
  BY <1>3, AllocateFromFallbackStep, Constants
<1>4. ASSUME NEW n \in Requests, AllocateFails(n)
      PROVE  FreeListInv' /\ (Coalesced => Coalesced')
  BY <1>1, <1>4 DEF AllocateFails
<1>5. ASSUME NEW a \in allocated, free(a)
      PROVE  FreeListInv' /\ (Coalesced => Coalesced')
  BY <1>5, FreeStep
<1>6. QED
  BY <1>1, <1>2, <1>3, <1>4, <1>5 DEF Next

\* However a program allocates and frees, nodes stay inside the memory of the fallback
\* allocator, aligned, and apart from one another.
THEOREM FreeListInvariant == Spec => []FreeListInv
<1>1. Init => FreeListInv
  BY InitEstablishes
<1>2. FreeListInv /\ [Next]_vars => FreeListInv'
  BY NextPreserves
<1>3. QED
  BY <1>1, <1>2, PTL DEF Spec

\* The kernel's free list never holds two nodes side by side: free joins a block with both
\* of its neighbours.
THEOREM FreeNodesAreCoalesced == Spec => []Coalesced
<1>1. Init => FreeListInv /\ Coalesced
  BY InitEstablishes
<1>2. FreeListInv /\ Coalesced /\ [Next]_vars => (FreeListInv /\ Coalesced)'
  BY NextPreserves
<1>3. QED
  BY <1>1, <1>2, PTL DEF Spec

\* A step of the free list is a step of the abstract allocator, or none that it sees.
LEMMA StepRefines == FreeListInv /\ FreeListInv' /\ [Next]_vars => [A!Next]_(A!vars)
<1> SUFFICES ASSUME FreeListInv, FreeListInv', [Next]_vars
             PROVE  [A!Next]_(A!vars)
  OBVIOUS
<1>1. ASSUME UNCHANGED vars PROVE UNCHANGED A!vars
  BY <1>1 DEF vars, A!vars, Blocks
<1>2. ASSUME NEW n \in Requests, Handed(n) PROVE A!Allocate(n)
  <2>1. PICK a \in Addresses \ allocated :
          /\ allocated' = allocated \cup {a}
          /\ size'[a] >= n
          /\ \A c \in allocated : size'[c] = size[c]
    BY <1>2 DEF Handed
  <2> DEFINE b == [ptr |-> to_user_ptr(a), size |-> size'[a]]
  <2>2. Blocks' = Blocks \cup {b}
    BY <2>1 DEF Blocks
  <2>3. Layout(Nodes, size, watermark)' /\ allocated' \subseteq Nodes'
    <3>1. (GoodList(m_free_list, allocated) /\ Layout(Nodes, size, watermark))'
      BY InvAsLayout, PTL
    <3>2. QED
      BY <3>1 DEF Nodes
  <2>4. ASSUME NEW c \in allocated'
        PROVE  /\ c \in Nat /\ size'[c] \in Nat /\ watermark' \in Nat
               /\ c + Header + size'[c] <= watermark'
    BY <2>3, <2>4, AddressArithmetic
  <2>5. b \in [ptr : Nat, size : Nat] /\ b.size >= n /\ b.ptr + b.size <= watermark'
        /\ b.ptr = a + Header /\ b.size = size'[a]
    BY <2>1, <2>4, Constants DEF to_user_ptr
  <2>6. ASSUME NEW d \in Blocks PROVE A!Apart(b, d)
    <3>1. PICK c \in allocated : d = [ptr |-> to_user_ptr(c), size |-> size[c]]
      BY DEF Blocks
    <3>2. d.ptr = c + Header /\ d.size = size'[c] /\ c # a /\ c \in allocated' /\ a \in allocated'
      BY <2>1, <3>1 DEF to_user_ptr
    <3>3. (a < c => a + Header + size'[a] <= c) /\ (c < a => c + Header + size'[c] <= a)
      <4>1. /\ a < c => EndOf(a, size') <= c
            /\ c < a => EndOf(c, size') <= a
        BY <2>3, <3>2 DEF Layout
      <4>2. QED
        BY <4>1 DEF EndOf, to_user_ptr
    <3>4. /\ c \in Nat /\ a \in Nat /\ size'[a] \in Nat /\ size'[c] \in Nat
          /\ Header \in Nat
      BY <2>4, <3>2, Constants
    <3>5. /\ a + Header # c + Header
          /\ a + Header + size'[a] <= c + Header \/ c + Header + size'[c] <= a + Header
      BY <3>2, <3>3, <3>4
    <3>6. QED
      BY <2>5, <3>2, <3>5 DEF A!Apart
  <2>7. watermark' \in Nat /\ watermark' >= watermark
    BY <1>2 DEF Handed
  <2>8. QED
    BY <2>2, <2>5, <2>6, <2>7 DEF A!Allocate
<1>3. ASSUME NEW n \in Requests, AllocateFromList(n) PROVE A!Allocate(n)
  BY <1>2, <1>3, AllocateFromListStep, Constants
<1>4. ASSUME NEW n \in Requests, AllocateFromFallback(n) PROVE A!Allocate(n)
  BY <1>2, <1>4, AllocateFromFallbackStep, Constants
<1>5. ASSUME NEW n \in Requests, AllocateFails(n) PROVE UNCHANGED A!vars
  BY <1>1, <1>5 DEF AllocateFails
<1>6. ASSUME NEW a \in allocated, free(a) PROVE \E b \in Blocks : A!Free(b)
  <2> DEFINE b == [ptr |-> to_user_ptr(a), size |-> size[a]]
  <2>1. allocated' = allocated \ {a} /\ watermark' = watermark
    BY <1>6 DEF free
  <2>2. \A c \in allocated' : size'[c] = size[c]
    BY <1>6, FreeStep
  <2>3. \A c \in allocated : c \in Nat
    BY Constants DEF FreeListInv, TypeOK, Addresses
  <2>4. \A c \in allocated' : [ptr |-> to_user_ptr(c), size |-> size[c]] # b
    BY <2>1, <2>3, Constants DEF to_user_ptr
  <2>5. Blocks' = Blocks \ {b} /\ b \in Blocks
    BY <2>1, <2>2, <2>4 DEF Blocks
  <2>6. QED
    BY <2>1, <2>5 DEF A!Free
<1>7. QED
  BY <1>1, <1>3, <1>4, <1>5, <1>6 DEF Next, A!Next

\* The free list implements the abstract allocator: a block handed out is large enough,
\* inside the memory the allocator owns, and apart from every block not yet given back.
THEOREM FreeListImplementsAllocator == Spec => ImplementsAllocator
<1>1. Init => A!Init
  BY DEF Init, A!Init, Blocks
<1>2. FreeListInv /\ FreeListInv' /\ [Next]_vars => [A!Next]_(A!vars)
  BY StepRefines
<1>3. QED
  BY <1>1, <1>2, FreeListInvariant, PTL DEF Spec, ImplementsAllocator, A!Spec
-----------------------------------------------------------------------------
\* The least-number principle, for a set.
LEMMA LeastElement ==
  ASSUME NEW S, S \subseteq Nat, S # {}
  PROVE  \E m \in S : \A k \in S : m <= k
<1>1. PICK m \in S : \A k \in S : ~(<<k, m>> \in OpToRel(<, Nat))
  BY NatLessThanWellFounded, WFMin
<1>2. \A k \in S : ~(k < m)
  BY <1>1 DEF OpToRel
<1>3. QED
  BY <1>2
(***************************************************************************)
(* Sums.  The function of the partial sums exists, because the ones that   *)
(* go less far do.                                                         *)
(***************************************************************************)
Sums(n, number, sum) ==
  sum = [i \in 0 .. n |-> IF i = 0 THEN 0 ELSE sum[i - 1] + number[i]]

LEMMA SumsExist == \A n \in Nat : \A number : \E sum : Sums(n, number, sum)
<1> SUFFICES ASSUME NEW number PROVE \A n \in Nat : \E sum : Sums(n, number, sum)
  OBVIOUS
<1> DEFINE Bad == {n \in Nat : ~(\E sum : Sums(n, number, sum))}
<1>1. ASSUME NEW n \in Bad, \A k \in Bad : n <= k PROVE FALSE
  <2>1. CASE n = 0
    <3>1. [i \in 0 .. 0 |-> 0] =
            [i \in 0 .. 0 |-> IF i = 0 THEN 0 ELSE [j \in 0 .. 0 |-> 0][i - 1] + number[i]]
      OBVIOUS
    <3>2. QED
      BY <2>1, <3>1 DEF Sums
  <2>2. CASE n # 0
    <3>1. n - 1 \in Nat /\ n - 1 \notin Bad
      BY <1>1, <2>2
    <3>2. PICK g : Sums(n - 1, number, g)
      BY <3>1
    <3> DEFINE h == [i \in 0 .. n |-> IF i = n THEN g[n - 1] + number[n] ELSE g[i]]
    <3>3. \A i \in 0 .. n - 1 : h[i] = g[i]
      BY <3>1
    <3>4. \A i \in 0 .. n - 1 : g[i] = IF i = 0 THEN 0 ELSE g[i - 1] + number[i]
      BY <3>2 DEF Sums
    <3>5. \A i \in 0 .. n : h[i] = IF i = 0 THEN 0 ELSE h[i - 1] + number[i]
      <4> TAKE i \in 0 .. n
      <4>1. CASE i = n
        BY <2>2, <3>1, <3>3, <4>1
      <4>2. CASE i # n
        <5>1. i \in 0 .. n - 1 /\ (i # 0 => i - 1 \in 0 .. n - 1)
          BY <3>1, <4>2
        <5>2. QED
          BY <3>3, <3>4, <5>1
      <4>3. QED
        BY <4>1, <4>2
    <3>6. h = [i \in 0 .. n |-> h[i]]
      OBVIOUS
    <3> HIDE DEF h
    <3>7. Sums(n, number, h)
      BY <3>5, <3>6 DEF Sums
    <3>8. QED
      BY <3>7
  <2>3. QED
    BY <2>1, <2>2
<1>2. Bad = {}
  BY <1>1, LeastElement
<1>3. QED
  BY <1>2

\* The partial sums behind a sum.
PartialSums(n, number, sum) ==
  /\ sum[0] = 0
  /\ \A i \in 1 .. n : sum[i] = sum[i - 1] + number[i]
  /\ \A i \in 0 .. n : sum[i] \in Nat

LEMMA SumOfIs ==
  ASSUME NEW n \in Nat, NEW number, \A i \in 1 .. n : number[i] \in Nat
  PROVE  \E sum : PartialSums(n, number, sum) /\ SumOf(n, number) = sum[n]
<1>1. PICK sum : sum = CHOOSE g : Sums(n, number, g)
  OBVIOUS
<1>2. Sums(n, number, sum)
  BY <1>1, SumsExist
<1>3. SumOf(n, number) = sum[n]
  BY <1>1, Zenon DEF SumOf, Sums
<1>4. \A i \in 0 .. n : sum[i] = IF i = 0 THEN 0 ELSE sum[i - 1] + number[i]
  BY <1>2 DEF Sums
<1>5. sum[0] = 0 /\ \A i \in 1 .. n : sum[i] = sum[i - 1] + number[i]
  <2>1. 0 \in 0 .. n
    OBVIOUS
  <2>2. ASSUME NEW i \in 1 .. n PROVE sum[i] = sum[i - 1] + number[i]
    <3>1. i \in 0 .. n /\ i # 0
      OBVIOUS
    <3>2. QED
      BY <1>4, <3>1
  <2>3. QED
    BY <1>4, <2>1, <2>2
<1> DEFINE Bad == {i \in 0 .. n : sum[i] \notin Nat}
<1>6. ASSUME NEW i \in Bad, \A k \in Bad : i <= k PROVE FALSE
  <2>1. i # 0 /\ i \in 0 .. n
    BY <1>5, <1>6
  <2>2. i - 1 \in 0 .. n /\ i - 1 \notin Bad /\ i \in 1 .. n
    BY <1>6, <2>1
  <2>3. sum[i - 1] \in Nat /\ number[i] \in Nat /\ sum[i] = sum[i - 1] + number[i]
    BY <1>5, <2>2
  <2>4. QED
    BY <1>6, <2>3
<1>7. Bad = {}
  <2>1. Bad \subseteq Nat
    OBVIOUS
  <2>2. QED
    BY <1>6, <2>1, LeastElement
<1>8. QED
  BY <1>3, <1>5, <1>7 DEF PartialSums

LEMMA SumOfType ==
  ASSUME NEW n \in Nat, NEW number, \A i \in 1 .. n : number[i] \in Nat
  PROVE  SumOf(n, number) \in Nat
<1>1. PICK sum : PartialSums(n, number, sum) /\ SumOf(n, number) = sum[n]
  BY SumOfIs
<1>2. n \in 0 .. n
  OBVIOUS
<1>3. QED
  BY <1>1, <1>2 DEF PartialSums

\* When one of the numbers changes, the sum changes by as much.
LEMMA SumOfChanged ==
  ASSUME NEW n \in Nat, NEW number, NEW changed, NEW k \in 1 .. n,
         \A i \in 1 .. n : number[i] \in Nat /\ changed[i] \in Nat,
         \A i \in 1 .. n : i # k => changed[i] = number[i]
  PROVE  SumOf(n, changed) = SumOf(n, number) + changed[k] - number[k]
<1>1. PICK s : PartialSums(n, number, s) /\ SumOf(n, number) = s[n]
  BY SumOfIs
<1>2. PICK t : PartialSums(n, changed, t) /\ SumOf(n, changed) = t[n]
  BY SumOfIs
<1>3. PICK d \in Int : d = changed[k] - number[k]
  OBVIOUS
<1> DEFINE Bad == {i \in 0 .. n : t[i] # s[i] + (IF i < k THEN 0 ELSE d)}
<1>4. ASSUME NEW i \in Bad, \A j \in Bad : i <= j PROVE FALSE
  <2>1. CASE i = 0
    BY <1>1, <1>2, <1>4, <2>1 DEF PartialSums
  <2>2. CASE i # 0
    <3>1. PICK j \in 0 .. n : j = i - 1 /\ j \notin Bad /\ i \in 1 .. n
      <4>1. i - 1 \in 0 .. n /\ i - 1 \notin Bad /\ i \in 1 .. n
        BY <1>4, <2>2
      <4>2. QED
        BY <4>1
    <3>2. t[j] = s[j] + (IF j < k THEN 0 ELSE d)
      BY <3>1
    <3>3. s[i] = s[j] + number[i] /\ t[i] = t[j] + changed[i] /\ s[j] \in Nat /\ t[j] \in Nat
      BY <1>1, <1>2, <3>1 DEF PartialSums
    <3>4. number[i] \in Nat /\ changed[i] \in Nat
      BY <3>1
    <3>5. CASE i = k
      BY <1>3, <1>4, <3>1, <3>2, <3>3, <3>4, <3>5
    <3>6. CASE i # k
      <4>1. changed[i] = number[i] /\ (j < k <=> i < k)
        BY <3>1, <3>6
      <4>2. QED
        BY <1>3, <1>4, <3>2, <3>3, <3>4, <4>1
    <3>7. QED
      BY <3>5, <3>6
  <2>3. QED
    BY <2>1, <2>2
<1>5. Bad = {}
  <2>1. Bad \subseteq Nat
    OBVIOUS
  <2>2. QED
    BY <1>4, <2>1, LeastElement
<1>6. n \in 0 .. n /\ ~(n < k) /\ s[n] \in Nat /\ number[k] \in Nat /\ changed[k] \in Nat
  BY <1>1 DEF PartialSums
<1>7. t[n] = s[n] + d
  BY <1>5, <1>6
<1>8. QED
  BY <1>1, <1>2, <1>3, <1>6, <1>7

LEMMA SumOfNothing ==
  ASSUME NEW n \in Nat, NEW number, \A i \in 1 .. n : number[i] = 0
  PROVE  SumOf(n, number) = 0
<1>1. PICK s : PartialSums(n, number, s) /\ SumOf(n, number) = s[n]
  <2>1. \A i \in 1 .. n : number[i] \in Nat
    OBVIOUS
  <2>2. QED
    BY <2>1, SumOfIs
<1> DEFINE Bad == {i \in 0 .. n : s[i] # 0}
<1>2. ASSUME NEW i \in Bad, \A j \in Bad : i <= j PROVE FALSE
  <2>1. i # 0 /\ i \in 0 .. n
    BY <1>1, <1>2 DEF PartialSums
  <2>2. i - 1 \in 0 .. n /\ i - 1 \notin Bad /\ i \in 1 .. n
    BY <1>2, <2>1
  <2>3. s[i - 1] = 0 /\ number[i] = 0 /\ s[i] = s[i - 1] + number[i]
    BY <1>1, <2>2 DEF PartialSums
  <2>4. QED
    BY <1>2, <2>3
<1>3. Bad = {}
  <2>1. Bad \subseteq Nat
    OBVIOUS
  <2>2. QED
    BY <1>2, <2>1, LeastElement
<1>4. n \in 0 .. n
  OBVIOUS
<1>5. QED
  BY <1>1, <1>3, <1>4
-----------------------------------------------------------------------------
(***************************************************************************)
(* The heap of a task, and printf.  All but the innermost call of printf   *)
(* wait for their buffer to be replaced, and have none.                    *)
(***************************************************************************)
Call ==
  [rest : Seq(Piece), bufsize : Nat, print_buf : Int, print_alloc : Int,
   print_buf_pos : Nat, at : {"malloc", "add", "realloc"}]

\* A call that adds its message has had a buffer, and the one it has is large enough.
GoodCall(call, taken, sz) ==
  /\ call.at = "malloc" => call.print_alloc = NoBlock
  /\ call.at # "malloc" => call.print_buf \in Addresses
  /\ call.at = "realloc" => call.rest # <<>>
  /\ call.at = "add" => \/ call.print_alloc = NoBlock
                        \/ /\ call.print_alloc \in taken
                           /\ sz[call.print_alloc] >= call.bufsize

Suspended(call) ==
  call.at = "add" /\ call.print_alloc = NoBlock /\ call.print_buf \in Addresses

CallsInv ==
  /\ calls \in Seq(Call)
  /\ calls # <<>> => GoodCall(Top, allocated, size)
  /\ \A i \in DOMAIN calls : i > 1 => Suspended(calls[i])

BrokenInv == broken = "corrupted" => calls # <<>> /\ Top.print_buf # Top.print_alloc

HeapInv == FreeListInv /\ CallsInv /\ BrokenInv /\ (~FixedFallback => HeapSizeIsGiven)

\* What is rounded already stays as it is.
LEMMA AlignUpOfAligned ==
  ASSUME NEW v \in Nat \ {0}, NEW a \in Nat \ {0}, v % a = 0
  PROVE  align_up_two(v, a) = v
<1> DEFINE d == align_down_two(v + a - 1, a)
<1>1. v + a - 1 \in Nat
  OBVIOUS
<1>2. d \in 0 .. v + a - 1 /\ (v + a - 1) - d \in 0 .. a - 1 /\ d % a = 0
  BY <1>1, AlignDown
<1>3. align_up_two(v, a) = d
  BY DEF align_up_two
<1> HIDE DEF d
<1>4. (d - v) % a = 0 /\ d - v \in 0 .. a - 1
  <2>1. d \in Int /\ v \in Int /\ d % a = 0
    BY <1>2
  <2>2. (d - v) % a = 0
    BY <2>1, MultiplesClosed
  <2>3. d >= v
    BY <1>3, AlignUp
  <2>4. QED
    BY <1>2, <2>2, <2>3
<1>5. \A x \in 0 .. a - 1 : x % a = x
  BY Z3T(60)
<1>6. d - v = 0
  BY <1>4, <1>5
<1>7. QED
  BY <1>2, <1>3, <1>6

\* HeapExtender asks sbrk for what malloc asks HeapExtender for.
LEMMA IncreaseIsPreferred ==
  ASSUME NEW n \in Nat
  PROVE  increase(n) = preferred_size(n)
<1>1. preferred_size(n) \in Nat \ {0}
  BY PreferredSize, Constants
<1>2. min_allocation_size(n) \in Nat
  BY PreferredSize
<1>3. preferred_size(n) % PageSize = 0
  BY <1>2, AlignUp, FreeListAssumption DEF preferred_size
<1>4. QED
  BY <1>1, <1>3, AlignUpOfAligned, FreeListAssumption DEF increase

\* A block that malloc hands out.
LEMMA GetsStep ==
  ASSUME FreeListInv, NEW n \in Nat, NEW block \in Addresses, Gets(n, block)
  PROVE  /\ FreeListInv' /\ broken' = broken
         /\ allocated' = allocated \cup {block}
         /\ size'[block] >= n
         /\ \A c \in allocated : size'[c] = size[c]
         /\ ~FixedFallback /\ HeapSizeIsGiven => HeapSizeIsGiven'
<1>1. FreeListInv' /\ Handed(n)
  BY AllocateFromListStep, AllocateFromFallbackStep DEF Gets, Extend
<1>2. /\ allocated' = allocated \cup {block}
      /\ size'[block] >= n
      /\ \A c \in allocated : size'[c] = size[c]
  BY <1>1 DEF Handed, Gets
<1>3. ASSUME ~FixedFallback, HeapSizeIsGiven PROVE HeapSizeIsGiven'
  <2>1. CASE AllocateFromList(n) /\ UNCHANGED heap_size
    BY <1>3, <2>1 DEF AllocateFromList, HeapSizeIsGiven
  <2>2. CASE Extend(n)
    <3>1. watermark' = watermark + preferred_size(n)
      BY <1>3, <2>2 DEF Extend, AllocateFromFallback, FallbackAllocate, WatermarkAllocate
    <3>2. heap_size' = heap_size + preferred_size(n)
      BY <2>2, IncreaseIsPreferred DEF Extend
    <3>3. QED
      BY <1>3, <3>1, <3>2 DEF HeapSizeIsGiven
  <2>3. QED
    BY <2>1, <2>2 DEF Gets
<1>4. QED
  BY <1>1, <1>2, <1>3 DEF Gets

\* A block that is given back.
LEMMA GivesStep ==
  ASSUME FreeListInv, NEW a \in allocated, Gives(a)
  PROVE  /\ FreeListInv' /\ broken' = broken
         /\ allocated' = allocated \ {a}
         /\ \A c \in allocated' : size'[c] = size[c]
         /\ HeapSizeIsGiven => HeapSizeIsGiven'
<1>1. free(a)
  BY DEF Gives
<1>2. FreeListInv' /\ \A c \in allocated' : size'[c] = size[c]
  BY <1>1, FreeStep
<1>3. QED
  BY <1>1, <1>2 DEF Gives, free, HeapSizeIsGiven

\* The stack of calls.
LEMMA Stack ==
  ASSUME NEW call \in Call, NEW callers \in Seq(Call)
  PROVE  /\ <<call>> \o callers \in Seq(Call) /\ <<call>> \o callers # <<>>
         /\ Head(<<call>> \o callers) = call
         /\ DOMAIN (<<call>> \o callers) = 1 .. Len(callers) + 1
         /\ \A i \in 2 .. Len(callers) + 1 : (<<call>> \o callers)[i] = callers[i - 1]
OBVIOUS

LEMMA Callers ==
  ASSUME NEW stack \in Seq(Call), stack # <<>>
  PROVE  /\ Head(stack) \in Call /\ Tail(stack) \in Seq(Call)
         /\ DOMAIN Tail(stack) = 1 .. Len(stack) - 1
         /\ \A i \in 1 .. Len(stack) - 1 : Tail(stack)[i] = stack[i + 1]
         /\ Len(Tail(stack)) = Len(stack) - 1
         /\ Tail(stack) # <<>> => Head(Tail(stack)) = Tail(stack)[1]
OBVIOUS

\* Those that wait for the innermost call.
AllSuspended(stack) == \A i \in DOMAIN stack : Suspended(stack[i])

LEMMA CallersAreSuspended ==
  ASSUME CallsInv, calls # <<>>
  PROVE  Top \in Call /\ Tail(calls) \in Seq(Call) /\ AllSuspended(Tail(calls))
<1>1. calls \in Seq(Call) /\ \A i \in DOMAIN calls : i > 1 => Suspended(calls[i])
  BY DEF CallsInv
<1>2. ASSUME NEW i \in DOMAIN Tail(calls) PROVE Suspended(Tail(calls)[i])
  <2>1. i \in 1 .. Len(calls) - 1 /\ Tail(calls)[i] = calls[i + 1]
    BY <1>1, <1>2, Callers
  <2>2. i + 1 \in DOMAIN calls /\ i + 1 > 1
    BY <1>1, <2>1
  <2>3. QED
    BY <1>1, <2>1, <2>2
<1>3. QED
  BY <1>1, <1>2, Callers DEF AllSuspended, Top

\* A step after which call is the innermost one.
LEMMA CallOnTop ==
  ASSUME NEW call \in Call, NEW callers \in Seq(Call), AllSuspended(callers),
         GoodCall(call, allocated', size'), calls' = <<call>> \o callers
  PROVE  CallsInv' /\ calls' # <<>> /\ Top' = call
<1>1. /\ calls' \in Seq(Call) /\ calls' # <<>> /\ Head(calls') = call
      /\ DOMAIN calls' = 1 .. Len(callers) + 1
      /\ \A i \in 2 .. Len(callers) + 1 : calls'[i] = callers[i - 1]
  BY Stack
<1>2. ASSUME NEW i \in DOMAIN calls', i > 1 PROVE Suspended(calls'[i])
  <2>1. i \in 2 .. Len(callers) + 1 /\ i - 1 \in DOMAIN callers
    BY <1>1, <1>2
  <2>2. QED
    BY <1>1, <2>1 DEF AllSuspended
<1>3. QED
  BY <1>1, <1>2 DEF CallsInv, Top

\* A step after which the caller is the innermost call.
LEMMA CallerOnTop ==
  ASSUME NEW callers \in Seq(Call), AllSuspended(callers), calls' = callers
  PROVE  CallsInv'
<1>1. ASSUME callers # <<>> PROVE GoodCall(Head(callers), allocated', size')
  <2>1. Head(callers) = callers[1] /\ 1 \in DOMAIN callers
    BY <1>1
  <2>2. Suspended(Head(callers))
    BY <2>1 DEF AllSuspended
  <2>3. QED
    BY <2>2 DEF Suspended, GoodCall
<1>2. QED
  BY <1>1 DEF CallsInv, Top, AllSuspended

\* What is left of a format can be cut short.
LEMMA WithRest ==
  ASSUME NEW call \in Call, NEW rest \in Seq(Piece)
  PROVE  /\ [call EXCEPT !.rest = rest] \in Call
         /\ [call EXCEPT !.rest = rest].rest = rest
         /\ [call EXCEPT !.rest = rest].at = call.at
         /\ [call EXCEPT !.rest = rest].bufsize = call.bufsize
         /\ [call EXCEPT !.rest = rest].print_buf = call.print_buf
         /\ [call EXCEPT !.rest = rest].print_alloc = call.print_alloc
         /\ [call EXCEPT !.rest = rest].print_buf_pos = call.print_buf_pos
<1> DEFINE Q == Seq(Piece)
<1>1. call \in [rest : Q, bufsize : Nat, print_buf : Int, print_alloc : Int,
                print_buf_pos : Nat, at : {"malloc", "add", "realloc"}] /\ rest \in Q
  BY DEF Call
<1> HIDE DEF Q
<1>2. [call EXCEPT !.rest = rest]
        \in [rest : Q, bufsize : Nat, print_buf : Int, print_alloc : Int,
             print_buf_pos : Nat, at : {"malloc", "add", "realloc"}]
  BY <1>1
<1>3. QED
  BY <1>1, <1>2 DEF Call, Q

LEMMA WithPosition ==
  ASSUME NEW call \in Call, NEW pos \in Nat
  PROVE  /\ [call EXCEPT !.print_buf_pos = pos] \in Call
         /\ [call EXCEPT !.print_buf_pos = pos].at = call.at
         /\ [call EXCEPT !.print_buf_pos = pos].bufsize = call.bufsize
         /\ [call EXCEPT !.print_buf_pos = pos].print_buf = call.print_buf
         /\ [call EXCEPT !.print_buf_pos = pos].print_alloc = call.print_alloc
<1> DEFINE Q == Seq(Piece)
<1>1. call \in [rest : Q, bufsize : Nat, print_buf : Int, print_alloc : Int,
                print_buf_pos : Nat, at : {"malloc", "add", "realloc"}]
  BY DEF Call
<1> HIDE DEF Q
<1>2. [call EXCEPT !.print_buf_pos = pos]
        \in [rest : Q, bufsize : Nat, print_buf : Int, print_alloc : Int,
             print_buf_pos : Nat, at : {"malloc", "add", "realloc"}]
  BY <1>1
<1>3. QED
  BY <1>1, <1>2 DEF Call, Q

\* A larger buffer is asked for.
LEMMA WithLargerSize ==
  ASSUME NEW call \in Call, NEW n \in Nat
  PROVE  /\ [call EXCEPT !.bufsize = n, !.at = "realloc"] \in Call
         /\ [call EXCEPT !.bufsize = n, !.at = "realloc"].at = "realloc"
         /\ [call EXCEPT !.bufsize = n, !.at = "realloc"].rest = call.rest
         /\ [call EXCEPT !.bufsize = n, !.at = "realloc"].print_buf = call.print_buf
<1> DEFINE Q == Seq(Piece)
<1>1. call \in [rest : Q, bufsize : Nat, print_buf : Int, print_alloc : Int,
                print_buf_pos : Nat, at : {"malloc", "add", "realloc"}]
  BY DEF Call
<1> HIDE DEF Q
<1>2. [call EXCEPT !.bufsize = n, !.at = "realloc"]
        \in [rest : Q, bufsize : Nat, print_buf : Int, print_alloc : Int,
             print_buf_pos : Nat, at : {"malloc", "add", "realloc"}]
  BY <1>1
<1>3. QED
  BY <1>1, <1>2 DEF Call, Q

\* A call of printf begins with a size.
LEMMA NewCallIsGood ==
  ASSUME NEW format \in Formats \cup {NoFreeSpace}, NEW taken, NEW sz
  PROVE  NewCall(format) \in Call /\ GoodCall(NewCall(format), taken, sz)
         /\ NewCall(format).print_alloc = NoBlock
<1>1. format \in Seq(Piece)
  <2>1. Literal \in Piece
    BY DEF Literal, Piece
  <2>2. \A s \in Seq({Literal}) : s \in Seq(Piece)
    BY <2>1
  <2>3. QED
    BY <2>2, UserHeapAssumption
<1>2. 2 * strlen(format) \in Nat /\ NoBlock \in Int
  <2>1. Len(format) \in Nat /\ \A i \in 1 .. Len(format) : format[i].chars \in Nat
    <3>1. Len(format) \in Nat /\ \A i \in 1 .. Len(format) : format[i] \in Piece
      <4> HIDE DEF Piece
      <4>1. QED
        BY <1>1
    <3>2. \A piece \in Piece : piece.chars \in Nat
      BY DEF Piece
    <3>3. QED
      BY <3>1, <3>2, Zenon
  <2>2. PICK chars : chars = [i \in 1 .. Len(format) |-> format[i].chars]
    OBVIOUS
  <2>3. \A i \in 1 .. Len(format) : chars[i] \in Nat
    BY <2>1, <2>2
  <2>4. SumOf(Len(format), chars) \in Nat
    BY <2>1, <2>3, SumOfType
  <2>5. strlen(format) \in Nat
    BY <2>2, <2>4, Zenon DEF strlen
  <2>6. QED
    BY <2>5 DEF NoBlock
<1> HIDE DEF NoBlock
<1>3. QED
  BY <1>1, <1>2 DEF NewCall, Call, GoodCall

\* malloc finds no memory, and prints.
LEMMA GetsNothingStep ==
  ASSUME HeapInv, broken = "no", NEW n, NEW callers \in Seq(Call), AllSuspended(callers),
         GetsNothing(n, callers)
  PROVE  HeapInv'
<1>1. UNCHANGED vars /\ heap_size' = heap_size /\ broken' # "corrupted"
  BY DEF GetsNothing, AllocateFails
<1>2. FreeListInv'
  BY <1>1, NextPreserves DEF HeapInv
<1>3. CallsInv'
  <2>1. calls' = <<NewCall(NoFreeSpace)>> \o callers
    BY DEF GetsNothing
  <2>2. /\ NewCall(NoFreeSpace) \in Call
        /\ GoodCall(NewCall(NoFreeSpace), allocated', size')
    BY NewCallIsGood
  <2>3. QED
    BY <2>1, <2>2, CallOnTop
<1>4. HeapSizeIsGiven => HeapSizeIsGiven'
  BY <1>1 DEF HeapSizeIsGiven, vars
<1>5. QED
  BY <1>1, <1>2, <1>3, <1>4 DEF HeapInv, BrokenInv

\* The calls of the program.
LEMMA ProgramStep ==
  ASSUME HeapInv, broken = "no", calls = <<>>,
         \/ \E n \in Requests : Malloc(n)
         \/ \E a \in allocated : Free(a)
         \/ \E format \in Formats : Printf(format)
  PROVE  HeapInv'
<1>1. calls \in Seq(Call) /\ AllSuspended(calls) /\ (calls' = calls => CallsInv')
  <2>1. calls \in Seq(Call)
    BY DEF HeapInv, CallsInv
  <2>2. DOMAIN calls = {}
    OBVIOUS
  <2>3. QED
    BY <2>1, <2>2, Zenon DEF AllSuspended, CallsInv
<1>2. ASSUME NEW n \in Requests, Malloc(n) PROVE HeapInv'
  <2>1. n \in Nat
    BY Constants
  <2>2. CASE GetsNothing(n, calls)
    BY <1>1, <2>2, GetsNothingStep
  <2>3. ASSUME NEW block \in Addresses, Gets(n, block), UNCHANGED calls PROVE HeapInv'
    BY <1>1, <2>1, <2>3, GetsStep DEF HeapInv, BrokenInv
  <2>4. QED
    BY <1>2, <2>2, <2>3 DEF Malloc
<1>3. ASSUME NEW a \in allocated, Free(a) PROVE HeapInv'
  BY <1>1, <1>3, GivesStep DEF Free, HeapInv, BrokenInv
<1>4. ASSUME NEW format \in Formats, Printf(format) PROVE HeapInv'
  <2>1. /\ calls' = <<NewCall(format)>> /\ UNCHANGED <<vars, heap_size>>
        /\ broken' = broken
    BY <1>4 DEF Printf
  <2>2. /\ NewCall(format) \in Call /\ GoodCall(NewCall(format), allocated', size')
    BY NewCallIsGood
  <2>3. calls' = <<NewCall(format)>> \o calls
    BY <2>1
  <2>4. CallsInv'
    BY <1>1, <2>2, <2>3, CallOnTop
  <2>5. FreeListInv'
    BY <2>1, NextPreserves DEF HeapInv
  <2>6. QED
    BY <2>1, <2>4, <2>5 DEF HeapInv, BrokenInv, HeapSizeIsGiven, vars
<1>5. QED
  BY <1>2, <1>3, <1>4

\* printf gets its buffer, or none.
LEMMA GetBufferStep ==
  ASSUME HeapInv, GetBuffer
  PROVE  HeapInv'
<1>1. /\ broken = "no" /\ calls # <<>> /\ Top.at = "malloc"
      /\ Top \in Call /\ Tail(calls) \in Seq(Call) /\ AllSuspended(Tail(calls))
  BY CallersAreSuspended DEF GetBuffer, At, HeapInv
<1>2. Top.bufsize \in Nat
  BY <1>1 DEF Call
<1>3. CASE GetsNothing(Top.bufsize, Tail(calls))
  BY <1>1, <1>3, GetsNothingStep
<1>4. ASSUME NEW block \in Addresses, Gets(Top.bufsize, block),
             Becomes([Top EXCEPT !.print_buf = block, !.print_alloc = block, !.at = "add"])
      PROVE  HeapInv'
  <2> DEFINE call == [Top EXCEPT !.print_buf = block, !.print_alloc = block, !.at = "add"]
  <2>1. /\ FreeListInv' /\ broken' = broken /\ block \in allocated'
        /\ size'[block] >= Top.bufsize
        /\ ~FixedFallback /\ HeapSizeIsGiven => HeapSizeIsGiven'
    BY <1>2, <1>4, GetsStep DEF HeapInv
  <2>2. block \in Int
    BY Constants DEF Addresses
  <2>3. call \in Call /\ call.print_buf = block /\ call.print_alloc = block
        /\ call.at = "add" /\ call.bufsize = Top.bufsize
    BY <1>1, <2>2 DEF Call
  <2>4. calls' = <<call>> \o Tail(calls)
    BY <1>4 DEF Becomes
  <2> HIDE DEF call
  <2>5. GoodCall(call, allocated', size')
    BY <2>1, <2>3 DEF GoodCall
  <2>6. CallsInv'
    BY <1>1, <2>3, <2>4, <2>5, CallOnTop
  <2>7. QED
    BY <1>1, <2>1, <2>6 DEF HeapInv, BrokenInv
<1>5. QED
  BY <1>3, <1>4 DEF GetBuffer

\* vfnprintf gives up.
LEMMA BailStep ==
  ASSUME HeapInv, Bail
  PROVE  HeapInv'
<1>1. /\ broken = "no" /\ calls # <<>> /\ Top.at = "add" /\ GoodCall(Top, allocated, size)
      /\ Top \in Call /\ Tail(calls) \in Seq(Call) /\ AllSuspended(Tail(calls))
  BY CallersAreSuspended DEF Bail, At, HeapInv, CallsInv
<1> DEFINE call == [Top EXCEPT !.rest = <<>>]
<1>2. /\ UNCHANGED <<vars, heap_size>> /\ broken' = broken
      /\ calls' = <<call>> \o Tail(calls)
  BY DEF Bail, GivesUp, Becomes
<1>3. /\ call \in Call /\ call.at = "add" /\ call.bufsize = Top.bufsize
      /\ call.print_buf = Top.print_buf /\ call.print_alloc = Top.print_alloc
  <2>1. <<>> \in Seq(Piece)
    OBVIOUS
  <2>2. QED
    BY <1>1, <2>1, WithRest
<1> HIDE DEF call
<1>4. GoodCall(call, allocated', size')
  BY <1>1, <1>2, <1>3 DEF GoodCall, vars
<1>5. CallsInv'
  BY <1>1, <1>2, <1>3, <1>4, CallOnTop
<1>6. FreeListInv'
  BY <1>2, NextPreserves DEF HeapInv
<1>7. QED
  BY <1>1, <1>2, <1>5, <1>6 DEF HeapInv, BrokenInv, HeapSizeIsGiven, vars

\* The bytes from the start of a caller's block to its end are the caller's alone.
LEMMA OwnBytes ==
  ASSUME FreeListInv, NEW own \in allocated,
         NEW x \in Int, x >= to_user_ptr(own), x < EndOf(own, size)
  PROVE  ~IsForeign(x, own)
<1>1. Layout(Nodes, size, watermark) /\ own \in Nodes
  BY InvAsLayout DEF Nodes
<1>2. /\ own \in Nat /\ EndOf(own, size) \in Nat /\ EndOf(own, size) <= watermark
      /\ watermark \in Nat /\ x < watermark
  BY <1>1, AddressArithmetic
<1>3. ASSUME NEW a \in Nodes, a # own
      PROVE  x < a \/ x >= EndOf(a, size)
  <2>1. a \in Nat /\ EndOf(a, size) \in Nat
    BY <1>1, AddressArithmetic
  <2>2. CASE own < a
    <3>1. EndOf(own, size) <= a
      BY <1>1, <2>2 DEF Layout
    <3>2. QED
      BY <1>2, <2>1, <3>1
  <2>3. CASE a < own
    <3>1. EndOf(a, size) <= own
      BY <1>1, <2>3 DEF Layout
    <3>2. QED
      BY <1>2, <2>1, <3>1, Constants DEF to_user_ptr
  <2>4. QED
    BY <1>2, <1>3, <2>1, <2>2, <2>3
<1>4. ASSUME NEW a \in Nodes
      PROVE  x \notin a .. to_user_ptr(a) - 1
  <2>1. /\ a \in Nat /\ EndOf(a, size) = a + Header + size[a] /\ size[a] \in Nat
        /\ to_user_ptr(a) = a + Header
    BY <1>1, AddressArithmetic DEF to_user_ptr
  <2>2. QED
    BY <1>3, <2>1, Constants
<1>5. ASSUME NEW a \in allocated \ {own}
      PROVE  x \notin to_user_ptr(a) .. EndOf(a, size) - 1
  <2>1. /\ a \in Nodes /\ a \in Nat /\ EndOf(a, size) = a + Header + size[a]
        /\ size[a] \in Nat /\ to_user_ptr(a) = a + Header
    BY <1>1, AddressArithmetic DEF to_user_ptr, Nodes
  <2>2. QED
    BY <1>3, <2>1, Constants
<1>6. QED
  BY <1>2, <1>4, <1>5 DEF IsForeign

\* A message that fits is put into the buffer.
LEMMA AddPieceStep ==
  ASSUME HeapInv, AddPiece
  PROVE  HeapInv'
<1>1. /\ broken = "no" /\ calls # <<>> /\ Top.at = "add" /\ GoodCall(Top, allocated, size)
      /\ Top \in Call /\ Tail(calls) \in Seq(Call) /\ AllSuspended(Tail(calls))
  BY CallersAreSuspended DEF AddPiece, At, HeapInv, CallsInv
<1>2. PICK bytes \in Nat : bytes = Head(Top.rest).bytes
  <2>1. Top.rest \in Seq(Piece) /\ Top.rest # <<>>
    BY <1>1 DEF AddPiece, Call
  <2>2. Head(Top.rest) \in Piece
    BY <2>1
  <2>3. QED
    BY <2>2 DEF Piece
<1> DEFINE shorter == [Top EXCEPT !.rest = Tail(Top.rest)]
           call == [Top EXCEPT !.rest = Tail(@), !.print_buf_pos = @ + bytes]
<1>3. /\ ~IsFull(Top, bytes) /\ UNCHANGED <<vars, heap_size>>
      /\ calls' = <<call>> \o Tail(calls)
      /\ broken' = IF \E x \in Copied(Top) : IsForeign(x, Top.print_alloc)
                   THEN "corrupted" ELSE broken
  BY <1>2 DEF AddPiece, Becomes
<1>4. /\ Top.print_buf_pos \in Nat /\ Top.bufsize \in Nat /\ Top.print_buf \in Int
  BY <1>1 DEF Call
<1>5. /\ call \in Call /\ call.at = "add" /\ call.bufsize = Top.bufsize
      /\ call.print_buf = Top.print_buf /\ call.print_alloc = Top.print_alloc
  <2>1. Tail(Top.rest) \in Seq(Piece)
    <3>1. Top.rest \in Seq(Piece) /\ Top.rest # <<>>
      BY <1>1 DEF AddPiece, Call
    <3>2. QED
      BY <3>1
  <2>2. /\ shorter \in Call /\ shorter.at = "add" /\ shorter.bufsize = Top.bufsize
        /\ shorter.print_buf = Top.print_buf /\ shorter.print_alloc = Top.print_alloc
        /\ shorter.print_buf_pos = Top.print_buf_pos
    BY <1>1, <2>1, WithRest
  <2>3. call = [shorter EXCEPT !.print_buf_pos = Top.print_buf_pos + bytes]
    BY <1>1 DEF Call
  <2> HIDE DEF shorter, call
  <2>4. Top.print_buf_pos + bytes \in Nat
    BY <1>4
  <2>5. QED
    BY <2>2, <2>3, <2>4, WithPosition
<1> HIDE DEF call, shorter
<1>6. GoodCall(call, allocated', size')
  BY <1>1, <1>3, <1>5 DEF GoodCall, vars
<1>7. CallsInv' /\ calls' # <<>> /\ Top' = call
  BY <1>1, <1>3, <1>5, <1>6, CallOnTop
<1>8. FreeListInv'
  BY <1>3, NextPreserves DEF HeapInv
<1>9. ASSUME Top.print_buf = Top.print_alloc, NEW x \in Copied(Top)
      PROVE  ~IsForeign(x, Top.print_alloc)
  <2>1. /\ Top.print_alloc \in allocated /\ size[Top.print_alloc] >= Top.bufsize
        /\ Top.print_alloc \in Nat
    BY <1>1, <1>9, Constants DEF GoodCall, Addresses, NoBlock
  <2>2. size[Top.print_alloc] \in Nat
    BY <2>1, Constants DEF HeapInv, FreeListInv, TypeOK
  <2>3. Top.print_buf_pos + bytes < Top.bufsize
    BY <1>3, <1>4 DEF IsFull
  <2>4. /\ x \in Int /\ x >= to_user_ptr(Top.print_alloc) + Top.print_buf_pos
        /\ x <= to_user_ptr(Top.print_alloc) + Top.print_buf_pos + bytes
    BY <1>2, <1>4, <1>9, <2>1, Constants DEF Copied, to_user_ptr
  <2>5. x >= to_user_ptr(Top.print_alloc) /\ x < EndOf(Top.print_alloc, size)
    BY <1>4, <2>1, <2>2, <2>3, <2>4, Constants DEF to_user_ptr, EndOf
  <2>6. QED
    BY <2>1, <2>4, <2>5, OwnBytes DEF HeapInv
<1>10. BrokenInv'
  BY <1>1, <1>3, <1>5, <1>7, <1>9 DEF BrokenInv
<1>11. QED
  BY <1>3, <1>7, <1>8, <1>10 DEF HeapInv, HeapSizeIsGiven, vars

\* A step that only notes what went wrong.
LEMMA BreaksStep ==
  ASSUME HeapInv, broken = "no", Breaks("null")
  PROVE  HeapInv'
<1>1. UNCHANGED <<vars, heap_size, calls>> /\ broken' = "null"
  BY DEF Breaks
<1>2. FreeListInv'
  BY <1>1, NextPreserves DEF HeapInv
<1>3. CallsInv'
  BY <1>1 DEF HeapInv, CallsInv, GoodCall, Top, vars
<1>4. QED
  BY <1>1, <1>2, <1>3 DEF HeapInv, BrokenInv, HeapSizeIsGiven, vars

\* A message that does not fit: the buffer is given back.
LEMMA FreeBufferStep ==
  ASSUME HeapInv, FreeBuffer
  PROVE  HeapInv'
<1>1. /\ broken = "no" /\ calls # <<>> /\ Top.at = "add" /\ GoodCall(Top, allocated, size)
      /\ Top.rest # <<>>
      /\ Top \in Call /\ Tail(calls) \in Seq(Call) /\ AllSuspended(Tail(calls))
  BY CallersAreSuspended DEF FreeBuffer, At, HeapInv, CallsInv
<1>2. PICK bytes \in Nat : bytes = Head(Top.rest).bytes
  <2>1. Top.rest \in Seq(Piece)
    BY <1>1 DEF Call
  <2>2. Head(Top.rest) \in Piece
    BY <1>1, <2>1
  <2>3. QED
    BY <2>2 DEF Piece
<1>3. CASE Top.print_alloc = NoBlock
  BY <1>1, <1>3, BreaksStep DEF FreeBuffer
<1>4. CASE Top.print_alloc # NoBlock
  <2>1. PICK grown \in Nat : grown = Top.bufsize + bytes + Growth
    <3>1. Top.bufsize \in Nat /\ Growth \in Nat
      BY <1>1, UserHeapAssumption DEF Call
    <3>2. QED
      BY <3>1
  <2> DEFINE call == [Top EXCEPT !.bufsize = grown, !.at = "realloc"]
  <2>2. Top.print_alloc \in allocated /\ Gives(Top.print_alloc)
    BY <1>1, <1>4 DEF GoodCall, FreeBuffer
  <2>3. /\ FreeListInv' /\ broken' = broken /\ (HeapSizeIsGiven => HeapSizeIsGiven')
    BY <2>2, GivesStep DEF HeapInv
  <2>4. calls' = <<call>> \o Tail(calls)
    BY <1>2, <1>4, <2>1 DEF FreeBuffer, Becomes
  <2>5. /\ call \in Call /\ call.at = "realloc" /\ call.rest = Top.rest
        /\ call.print_buf = Top.print_buf
    BY <1>1, WithLargerSize
  <2> HIDE DEF call
  <2>6. GoodCall(call, allocated', size')
    BY <1>1, <2>5 DEF GoodCall
  <2>7. CallsInv'
    BY <1>1, <2>4, <2>5, <2>6, CallOnTop
  <2>8. QED
    BY <1>1, <2>3, <2>7 DEF HeapInv, BrokenInv
<1>5. QED
  BY <1>3, <1>4

\* The larger buffer, or none.
LEMMA LargerBufferStep ==
  ASSUME HeapInv, LargerBuffer
  PROVE  HeapInv'
<1>1. /\ broken = "no" /\ calls # <<>> /\ Top.at = "realloc"
      /\ GoodCall(Top, allocated, size) /\ Top.rest # <<>>
      /\ Top \in Call /\ Tail(calls) \in Seq(Call) /\ AllSuspended(Tail(calls))
  BY CallersAreSuspended DEF LargerBuffer, At, HeapInv, CallsInv, GoodCall
<1>2. Top.bufsize \in Nat /\ Top.rest \in Seq(Piece) /\ Top.print_buf \in Addresses
  BY <1>1 DEF Call, GoodCall
<1>3. ASSUME NEW block \in Addresses, Gets(Top.bufsize, block),
             Becomes([Top EXCEPT !.print_alloc = block, !.at = "add"])
      PROVE  HeapInv'
  <2> DEFINE call == [Top EXCEPT !.print_alloc = block, !.at = "add"]
  <2>1. /\ FreeListInv' /\ broken' = broken /\ block \in allocated'
        /\ size'[block] >= Top.bufsize
        /\ ~FixedFallback /\ HeapSizeIsGiven => HeapSizeIsGiven'
    BY <1>2, <1>3, GetsStep DEF HeapInv
  <2>2. block \in Int
    BY Constants DEF Addresses
  <2>3. call \in Call /\ call.print_buf = Top.print_buf /\ call.print_alloc = block
        /\ call.at = "add" /\ call.bufsize = Top.bufsize
    BY <1>1, <2>2 DEF Call
  <2>4. calls' = <<call>> \o Tail(calls)
    BY <1>3 DEF Becomes
  <2> HIDE DEF call
  <2>5. GoodCall(call, allocated', size')
    BY <1>2, <2>1, <2>3 DEF GoodCall
  <2>6. CallsInv'
    BY <1>1, <2>3, <2>4, <2>5, CallOnTop
  <2>7. QED
    BY <1>1, <2>1, <2>6 DEF HeapInv, BrokenInv
<1> DEFINE call == [NotAdded(Top) EXCEPT !.print_alloc = NoBlock, !.at = "add"]
<1>4. CASE GetsNothing(Top.bufsize, <<call>> \o Tail(calls))
  <2>1. NotAdded(Top) \in Call /\ NotAdded(Top).print_buf = Top.print_buf
    <3>1. <<>> \in Seq(Piece) /\ Tail(Top.rest) \in Seq(Piece)
      BY <1>1, <1>2
    <3>2. \A rest \in Seq(Piece) : /\ [Top EXCEPT !.rest = rest] \in Call
                                   /\ [Top EXCEPT !.rest = rest].print_buf = Top.print_buf
      BY <1>1, WithRest
    <3>3. NotAdded(Top) \in {[Top EXCEPT !.rest = Tail(Top.rest)],
                            [Top EXCEPT !.rest = <<>>]}
      BY Zenon DEF NotAdded, GivesUp
    <3>4. /\ [Top EXCEPT !.rest = Tail(Top.rest)] \in Call
          /\ [Top EXCEPT !.rest = Tail(Top.rest)].print_buf = Top.print_buf
          /\ [Top EXCEPT !.rest = <<>>] \in Call
          /\ [Top EXCEPT !.rest = <<>>].print_buf = Top.print_buf
      BY <3>1, <3>2, Zenon
    <3>5. QED
      BY <3>3, <3>4, Zenon
  <2>2. NoBlock \in Int
    BY DEF NoBlock
  <2>3. /\ call \in Call /\ call.at = "add" /\ call.print_alloc = NoBlock
        /\ call.print_buf = Top.print_buf
    BY <2>1, <2>2 DEF Call
  <2> HIDE DEF call
  <2>4. Suspended(call)
    BY <1>2, <2>3 DEF Suspended
  <2> DEFINE callers == <<call>> \o Tail(calls)
  <2>5. callers \in Seq(Call) /\ AllSuspended(callers)
    <3>1. /\ callers \in Seq(Call) /\ DOMAIN callers = 1 .. Len(Tail(calls)) + 1
          /\ callers # <<>> /\ Head(callers) = call
          /\ \A i \in 2 .. Len(Tail(calls)) + 1 : callers[i] = Tail(calls)[i - 1]
      BY <1>1, <2>3, Stack
    <3> HIDE DEF callers
    <3>2. callers[1] = call
      BY <3>1
    <3>3. ASSUME NEW i \in DOMAIN callers PROVE Suspended(callers[i])
      <4>1. CASE i = 1
        BY <2>4, <3>2, <4>1
      <4>2. CASE i # 1
        <5>1. i \in 2 .. Len(Tail(calls)) + 1 /\ i - 1 \in DOMAIN Tail(calls)
          BY <1>1, <3>1, <4>2
        <5>2. QED
          BY <1>1, <3>1, <5>1 DEF AllSuspended
      <4>3. QED
        BY <4>1, <4>2
    <3>4. QED
      BY <3>1, <3>3 DEF AllSuspended
  <2> HIDE DEF callers
  <2>6. GetsNothing(Top.bufsize, callers)
    BY <1>4 DEF callers
  <2>7. QED
    BY <1>1, <2>5, <2>6, GetsNothingStep
<1>5. QED
  BY <1>3, <1>4 DEF LargerBuffer

\* The message is written, and the buffer given back.
LEMMA FinishStep ==
  ASSUME HeapInv, Finish
  PROVE  HeapInv'
<1>1. /\ broken = "no" /\ calls # <<>> /\ Top.at = "add" /\ GoodCall(Top, allocated, size)
      /\ Tail(calls) \in Seq(Call) /\ AllSuspended(Tail(calls))
  BY CallersAreSuspended DEF Finish, At, HeapInv, CallsInv
<1>2. CASE Top.print_alloc = NoBlock
  BY <1>1, <1>2, BreaksStep DEF Finish
<1>3. CASE Top.print_alloc # NoBlock
  <2>1. Top.print_alloc \in allocated /\ Gives(Top.print_alloc) /\ calls' = Tail(calls)
    BY <1>1, <1>3 DEF GoodCall, Finish
  <2>2. CallsInv'
    BY <1>1, <2>1, CallerOnTop
  <2>3. QED
    BY <1>1, <2>1, <2>2, GivesStep DEF HeapInv, BrokenInv
<1>4. QED
  BY <1>2, <1>3

LEMMA HeapInitEstablishes == HeapInit => HeapInv
<1> SUFFICES ASSUME HeapInit PROVE HeapInv
  OBVIOUS
<1>1. FreeListInv
  BY InitEstablishes DEF HeapInit
<1>2. calls = <<>> /\ broken = "no" /\ heap_size = watermark
  BY DEF HeapInit, Init
<1>3. CallsInv
  <2>1. <<>> \in Seq(Call) /\ DOMAIN <<>> = {}
    OBVIOUS
  <2>2. QED
    BY <1>2, <2>1, Zenon DEF CallsInv
<1>4. QED
  BY <1>1, <1>2, <1>3 DEF HeapInv, BrokenInv, HeapSizeIsGiven

LEMMA HeapNextPreserves == HeapInv /\ [HeapNext]_heapVars => HeapInv'
<1> SUFFICES ASSUME HeapInv, [HeapNext]_heapVars PROVE HeapInv'
  OBVIOUS
<1>1. CASE UNCHANGED heapVars
  <2>1. UNCHANGED <<vars, heap_size, calls, broken>>
    BY <1>1 DEF heapVars
  <2>2. FreeListInv'
    BY <2>1, NextPreserves DEF HeapInv
  <2>3. CallsInv' /\ BrokenInv'
    BY <2>1 DEF HeapInv, CallsInv, BrokenInv, GoodCall, Top, vars
  <2>4. QED
    BY <2>1, <2>2, <2>3 DEF HeapInv, HeapSizeIsGiven, vars
<1>2. CASE \/ \E n \in Requests : Malloc(n)
           \/ \E a \in allocated : Free(a)
           \/ \E format \in Formats : Printf(format)
  <2>1. broken = "no" /\ calls = <<>>
    BY <1>2 DEF Malloc, Free, Printf
  <2>2. QED
    BY <1>2, <2>1, ProgramStep
<1>3. CASE GetBuffer
  BY <1>3, GetBufferStep
<1>4. CASE Bail
  BY <1>4, BailStep
<1>5. CASE AddPiece
  BY <1>5, AddPieceStep
<1>6. CASE FreeBuffer
  BY <1>6, FreeBufferStep
<1>7. CASE LargerBuffer
  BY <1>7, LargerBufferStep
<1>8. CASE Finish
  BY <1>8, FinishStep
<1>9. QED
  BY <1>1, <1>2, <1>3, <1>4, <1>5, <1>6, <1>7, <1>8 DEF HeapNext

\* The inductive invariant: of the calls of printf, those that wait for another have no
\* buffer, the innermost one has a buffer of its own of at least bufsize bytes, and the
\* list of free blocks around them is in order.
THEOREM HeapInvariant == HeapSpec => []HeapInv
BY HeapInitEstablishes, HeapNextPreserves, PTL DEF HeapSpec

\* printf writes inside its buffer: however the pieces of a format fill it, and whatever
\* the program has allocated around it, the bytes and the zero behind them go to no
\* header, no block of another and no memory beyond the heap, as long as the buffer was
\* not replaced by one at another address.
THEOREM PrintfStaysInItsBlock == HeapSpec => []PrintsInItsBlock
<1>1. HeapInv => PrintsInItsBlock
  BY DEF HeapInv, BrokenInv, PrintsInItsBlock
<1>2. QED
  BY <1>1, HeapInvariant, PTL

\* The list stays a free list when the calls of malloc and free are those of printf, which
\* replaces its buffer and is called by malloc; and what printf frees is what it has.
THEOREM HeapUnderPrintf == HeapSpec => [](FreeListInv /\ BuffersAreHeld)
<1>1. ASSUME HeapInv PROVE BuffersAreHeld
  <2> SUFFICES ASSUME NEW i \in DOMAIN calls, calls[i].at # "realloc"
               PROVE  calls[i].print_alloc \in allocated \cup {NoBlock}
    BY DEF BuffersAreHeld
  <2>1. /\ calls \in Seq(Call) /\ i \in 1 .. Len(calls)
        /\ (calls # <<>> => GoodCall(Top, allocated, size))
        /\ (i > 1 => Suspended(calls[i]))
    BY <1>1 DEF HeapInv, CallsInv
  <2>2. CASE i > 1
    BY <2>1, <2>2 DEF Suspended
  <2>3. CASE i = 1
    <3>1. calls # <<>>
      BY <2>1, <2>3
    <3>2. Top = calls[1] /\ Top \in Call
      BY <2>1, <3>1 DEF Top
    <3>3. GoodCall(Top, allocated, size)
      BY <2>1, <3>1
    <3>4. Top.at \in {"malloc", "add"}
      BY <2>3, <3>2 DEF Call
    <3>5. QED
      BY <2>3, <3>2, <3>3, <3>4 DEF GoodCall
  <2>4. i > 1 \/ i = 1
    BY <2>1
  <2>5. QED
    BY <2>2, <2>3, <2>4
<1>2. HeapInv => FreeListInv
  BY DEF HeapInv
<1>3. QED
  BY <1>1, <1>2, HeapInvariant, PTL

\* memstats reports the size that sbrk gave.
THEOREM HeapSizeIsReported == ASSUME ~FixedFallback PROVE HeapSpec => []HeapSizeIsGiven
<1>1. HeapInv => HeapSizeIsGiven
  BY DEF HeapInv
<1>2. QED
  BY <1>1, HeapInvariant, PTL
-----------------------------------------------------------------------------
(***************************************************************************)
(* The used size.                                                          *)
(***************************************************************************)
\* What an address adds to the bytes of some blocks.
Contribution(blocks, sz) ==
  [i \in 1 .. MemSize + 1 |-> IF i - 1 \in blocks THEN sz[i - 1] ELSE 0]

LEMMA BytesOfIs ==
  ASSUME NEW blocks, NEW sz, blocks \subseteq Addresses, \A a \in blocks : sz[a] \in Nat
  PROVE  /\ MemSize + 1 \in Nat
         /\ \A i \in 1 .. MemSize + 1 :
              /\ Contribution(blocks, sz)[i] \in Nat
              /\ Contribution(blocks, sz)[i] = IF i - 1 \in blocks THEN sz[i - 1] ELSE 0
         /\ BytesOf(blocks, sz) = SumOf(MemSize + 1, Contribution(blocks, sz))
<1>1. MemSize + 1 \in Nat
  BY FreeListAssumption
<1>2. BytesOf(blocks, sz) = SumOf(MemSize + 1, Contribution(blocks, sz))
  BY Zenon DEF BytesOf, Contribution
<1>3. ASSUME NEW i \in 1 .. MemSize + 1
      PROVE  /\ Contribution(blocks, sz)[i] \in Nat
             /\ Contribution(blocks, sz)[i] = IF i - 1 \in blocks THEN sz[i - 1] ELSE 0
  BY DEF Contribution
<1>4. QED
  BY <1>1, <1>2, <1>3

\* One block more.
LEMMA BytesOfOneMore ==
  ASSUME NEW blocks, NEW block \in Addresses \ blocks, NEW sz, NEW new,
         blocks \subseteq Addresses, new[block] \in Nat,
         \A a \in blocks : sz[a] \in Nat /\ new[a] = sz[a]
  PROVE  BytesOf(blocks \cup {block}, new) = BytesOf(blocks, sz) + new[block]
         /\ BytesOf(blocks, sz) \in Nat
<1>1. PICK more : more = blocks \cup {block}
  OBVIOUS
<1>2. PICK v : v = Contribution(blocks, sz)
  OBVIOUS
<1>3. PICK w : w = Contribution(more, new)
  OBVIOUS
<1>4. PICK n \in Nat : n = MemSize + 1
  BY BytesOfIs
<1>5. /\ \A i \in 1 .. n : v[i] \in Nat /\ v[i] = IF i - 1 \in blocks THEN sz[i - 1] ELSE 0
      /\ BytesOf(blocks, sz) = SumOf(n, v)
  BY <1>2, <1>4, BytesOfIs
<1>6. /\ \A i \in 1 .. n : w[i] \in Nat /\ w[i] = IF i - 1 \in more THEN new[i - 1] ELSE 0
      /\ BytesOf(more, new) = SumOf(n, w)
  <2>1. more \subseteq Addresses /\ \A a \in more : new[a] \in Nat
    BY <1>1
  <2>2. QED
    BY <1>3, <1>4, <2>1, BytesOfIs
<1>7. PICK k \in 1 .. n : k - 1 = block
  <2>1. block + 1 \in 1 .. n /\ (block + 1) - 1 = block
    BY <1>4, FreeListAssumption DEF Addresses
  <2>2. QED
    BY <2>1
<1>8. v[k] = 0 /\ w[k] = new[block]
  BY <1>1, <1>5, <1>6, <1>7
<1>9. \A i \in 1 .. n : i # k => w[i] = v[i]
  <2> SUFFICES ASSUME NEW i \in 1 .. n, i # k PROVE w[i] = v[i]
    OBVIOUS
  <2>1. i - 1 # block
    BY <1>7
  <2>2. i - 1 \in more <=> i - 1 \in blocks
    BY <1>1, <2>1
  <2>3. QED
    BY <1>5, <1>6, <2>2
<1>10. SumOf(n, w) = SumOf(n, v) + w[k] - v[k]
  BY <1>5, <1>6, <1>9, SumOfChanged
<1>11. SumOf(n, v) \in Nat
  BY <1>5, SumOfType
<1>12. QED
  BY <1>1, <1>5, <1>6, <1>8, <1>10, <1>11

\* malloc counts the block it returns, and free the block it gets; sizes in the headers of
\* other blocks stay.
LEMMA GetsCounts ==
  ASSUME FreeListInv, UsedSizeIsHeld, NEW n \in Nat, NEW block \in Addresses, Gets(n, block)
  PROVE  UsedSizeIsHeld'
<1>1. /\ allocated' = allocated \cup {block} /\ FreeListInv'
      /\ \A c \in allocated : size'[c] = size[c]
  BY GetsStep
<1>2. block \notin allocated /\ used_size' = used_size + size'[block]
  BY DEF Gets
<1>3. allocated \subseteq Addresses /\ \A a \in allocated : size[a] \in Nat
  BY FreeListAssumption DEF FreeListInv, TypeOK
<1>4. size'[block] \in Nat
  BY <1>1, FreeListAssumption DEF FreeListInv, TypeOK
<1>5. PICK new : new = size'
  OBVIOUS
<1>6. PICK taken : taken = allocated
  OBVIOUS
<1>7. /\ block \in Addresses \ taken /\ taken \subseteq Addresses /\ new[block] \in Nat
      /\ \A a \in taken : size[a] \in Nat /\ new[a] = size[a]
  BY <1>1, <1>2, <1>3, <1>4, <1>5, <1>6
<1>8. BytesOf(taken \cup {block}, new) = BytesOf(taken, size) + new[block]
      /\ BytesOf(taken, size) \in Nat
  BY <1>7, BytesOfOneMore
<1>9. QED
  BY <1>1, <1>2, <1>5, <1>6, <1>8 DEF UsedSizeIsHeld

LEMMA GivesCounts ==
  ASSUME FreeListInv, UsedSizeIsHeld, NEW a \in allocated, Gives(a)
  PROVE  UsedSizeIsHeld'
<1>1. allocated' = allocated \ {a} /\ \A c \in allocated' : size'[c] = size[c]
  BY GivesStep
<1>2. used_size' = used_size - size[a]
  BY DEF Gives, Freed
<1>3. allocated \subseteq Addresses /\ \A c \in allocated : size[c] \in Nat
  BY FreeListAssumption DEF FreeListInv, TypeOK
<1>4. PICK kept : kept = allocated \ {a}
  OBVIOUS
<1>5. PICK new : new = size'
  OBVIOUS
<1>6. kept \cup {a} = allocated /\ a \in Addresses \ kept /\ kept \subseteq Addresses
  BY <1>3, <1>4
<1>7. \A c \in kept : new[c] \in Nat /\ size[c] = new[c]
  BY <1>1, <1>3, <1>4, <1>5
<1>8. BytesOf(kept \cup {a}, size) = BytesOf(kept, new) + size[a] /\ BytesOf(kept, new) \in Nat
  BY <1>3, <1>6, <1>7, BytesOfOneMore
<1>9. used_size = BytesOf(kept, new) + size[a] /\ size[a] \in Nat
  BY <1>3, <1>6, <1>8 DEF UsedSizeIsHeld
<1>10. used_size' = BytesOf(kept, new)
  BY <1>2, <1>8, <1>9
<1>11. QED
  BY <1>1, <1>4, <1>5, <1>10 DEF UsedSizeIsHeld

\* Every other step leaves the blocks and the statistics alone.
LEMMA UsedSizeStep == HeapInv /\ UsedSizeIsHeld /\ [HeapNext]_heapVars => UsedSizeIsHeld'
<1> SUFFICES ASSUME HeapInv, UsedSizeIsHeld, [HeapNext]_heapVars PROVE UsedSizeIsHeld'
  OBVIOUS
<1>1. FreeListInv
  BY DEF HeapInv
<1>2. ASSUME UNCHANGED <<vars, used_size>> PROVE UsedSizeIsHeld'
  BY <1>2 DEF vars, UsedSizeIsHeld
<1>3. ASSUME NEW n, NEW callers, GetsNothing(n, callers) PROVE UsedSizeIsHeld'
  <2>1. UNCHANGED <<vars, used_size>>
    BY <1>3 DEF GetsNothing, AllocateFails
  <2>2. QED
    BY <1>2, <2>1
<1>4. ASSUME NEW n \in Requests, Malloc(n) PROVE UsedSizeIsHeld'
  <2>1. n \in Nat
    BY Constants
  <2>2. QED
    BY <1>1, <1>3, <1>4, <2>1, GetsCounts DEF Malloc
<1>5. ASSUME NEW a \in allocated, Free(a) PROVE UsedSizeIsHeld'
  BY <1>1, <1>5, GivesCounts DEF Free
<1>6. ASSUME NEW format \in Formats, Printf(format) PROVE UsedSizeIsHeld'
  BY <1>2, <1>6 DEF Printf
<1>7. ASSUME calls # <<>> PROVE Top.bufsize \in Nat
  BY <1>7, CallersAreSuspended DEF HeapInv, Call
<1>8. CASE GetBuffer
  <2>1. Top.bufsize \in Nat
    BY <1>7, <1>8 DEF GetBuffer, At
  <2>2. QED
    BY <1>1, <1>3, <1>8, <2>1, GetsCounts DEF GetBuffer
<1>9. CASE LargerBuffer
  <2>1. Top.bufsize \in Nat
    BY <1>7, <1>9 DEF LargerBuffer, At
  <2>2. QED
    BY <1>1, <1>3, <1>9, <2>1, GetsCounts DEF LargerBuffer
<1>10. CASE Bail \/ AddPiece
  BY <1>2, <1>10 DEF Bail, AddPiece
<1>11. ASSUME calls # <<>>, Top.at = "add", Top.print_alloc # NoBlock
       PROVE  Top.print_alloc \in allocated
  BY <1>11 DEF HeapInv, CallsInv, GoodCall
<1>12. CASE FreeBuffer
  <2>1. CASE Top.print_alloc = NoBlock
    BY <1>2, <1>12, <2>1 DEF FreeBuffer, Breaks
  <2>2. CASE Top.print_alloc # NoBlock
    BY <1>1, <1>11, <1>12, <2>2, GivesCounts DEF FreeBuffer, At
  <2>3. QED
    BY <2>1, <2>2
<1>13. CASE Finish
  <2>1. CASE Top.print_alloc = NoBlock
    BY <1>2, <1>13, <2>1 DEF Finish, Breaks
  <2>2. CASE Top.print_alloc # NoBlock
    BY <1>1, <1>11, <1>13, <2>2, GivesCounts DEF Finish, At
  <2>3. QED
    BY <2>1, <2>2
<1>14. CASE UNCHANGED heapVars
  BY <1>2, <1>14 DEF heapVars
<1>15. QED
  BY <1>4, <1>5, <1>6, <1>8, <1>9, <1>10, <1>12, <1>13, <1>14 DEF HeapNext

LEMMA UsedSizeStarts == HeapInit => UsedSizeIsHeld
<1> SUFFICES ASSUME HeapInit PROVE UsedSizeIsHeld
  OBVIOUS
<1>1. allocated = {} /\ used_size = 0
  BY DEF HeapInit, Init
<1>2. /\ MemSize + 1 \in Nat
      /\ \A i \in 1 .. MemSize + 1 : Contribution(allocated, size)[i] = 0
      /\ BytesOf(allocated, size) = SumOf(MemSize + 1, Contribution(allocated, size))
  BY <1>1, BytesOfIs
<1>3. PICK w : w = Contribution(allocated, size)
  OBVIOUS
<1>4. SumOf(MemSize + 1, w) = 0
  BY <1>2, <1>3, SumOfNothing
<1>5. QED
  BY <1>1, <1>2, <1>3, <1>4 DEF UsedSizeIsHeld

\* memstats is right about what a task uses: whatever its program and printf allocate and
\* free, and wherever nodes are split and joined behind their blocks, the used size is the
\* bytes of the blocks that callers have.
THEOREM UsedSizeIsReported == HeapSpec => []UsedSizeIsHeld
<1>1. HeapInv /\ UsedSizeIsHeld /\ [HeapNext]_heapVars => UsedSizeIsHeld'
  BY UsedSizeStep
<1>2. QED
  BY <1>1, UsedSizeStarts, HeapInvariant, PTL DEF HeapSpec

\* The whole invariant of a task's heap.
THEOREM UserHeapInvariant == ASSUME ~FixedFallback PROVE HeapSpec => []UserHeapInv
<1>1. FreeListInv /\ BuffersAreHeld /\ UsedSizeIsHeld /\ HeapSizeIsGiven => UserHeapInv
  BY DEF UserHeapInv
<1>2. QED
  BY <1>1, HeapUnderPrintf, UsedSizeIsReported, HeapSizeIsReported, PTL
=============================================================================
