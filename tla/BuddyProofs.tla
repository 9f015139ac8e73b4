---------------------------- MODULE BuddyProofs ----------------------------
(***************************************************************************)
(* The buddy allocator is correct for every range of pages and every       *)
(* MAX_ORDER.                                                              *)
(*                                                                         *)
(* The blocks on the free lists, in the hands of alloc_pages or free_pages *)
(* and with callers always tile the pages that page_init has added.  A     *)
(* split and a merge replace tiles by tiles of the same pages (Retile,     *)
(* Halves).  The step that needs an argument is the merge: that a struct   *)
(* page which says "free, of this order" is the head of a listed block     *)
(* and not a leftover inside a merged one (MergesWithListed); it rests on  *)
(* the alignment of the tiles alone (InPair).                              *)
(***************************************************************************)
EXTENDS Buddy, Numbers, TLAPS

-----------------------------------------------------------------------------
(* Multiples: what % and \div mean for sizes that are powers of two.       *)

Multiple(a, n) == \E u \in Nat : a = u * n

LEMMA Sizes ==
    /\ \A o \in Orders : Size[o] \in Nat /\ Size[o] >= 1
    /\ \A o \in Orders : o < MAX_ORDER => o + 1 \in Orders /\ Size[o + 1] = 2 * Size[o]
    /\ \A o \in Orders : o > 0 => o - 1 \in Orders /\ Size[o] = 2 * Size[o - 1]
    /\ MAX_ORDER \in Nat /\ Orders \subseteq Nat
BY BuddyAssumption DEF Orders

(* A product of a positive number is at least the other factor.            *)
LEMMA Product ==
    ASSUME NEW n \in Nat, n >= 1, NEW d \in Int
    PROVE  (d >= 1 => d * n >= n) /\ (d <= -1 => d * n <= -n)
OBVIOUS

LEMMA Quotient ==
    ASSUME NEW n \in Nat, n >= 1, NEW u \in Nat, NEW a, a = u * n
    PROVE  a \div n = u /\ a % n = 0
<1>1. a \in Nat
  OBVIOUS
<1>2. PICK v \in Int : v = a \div n
  BY <1>1
<1>3. PICK r \in Int : r = a % n
  BY <1>1
<1>4. a = n * v + r /\ 0 <= r /\ r < n
  BY <1>1, <1>2, <1>3
<1>5. PICK d \in Int : d = u - v
  OBVIOUS
<1>6. d * n = r
  BY <1>1, <1>4, <1>5
<1>7. d = 0
  BY <1>4, <1>5, <1>6, Product
<1> QED  BY <1>2, <1>3, <1>5, <1>6, <1>7

LEMMA Aligned ==
    ASSUME NEW a \in Nat, NEW n \in Nat, n >= 1
    PROVE  a % n = 0 <=> Multiple(a, n)
<1>1. ASSUME a % n = 0 PROVE Multiple(a, n)
  <2>1. a \div n \in Nat /\ a = (a \div n) * n
    BY <1>1
  <2> QED  BY <2>1 DEF Multiple
<1>2. ASSUME Multiple(a, n) PROVE a % n = 0
  BY <1>2, Quotient DEF Multiple
<1> QED  BY <1>1, <1>2

LEMMA NextMultiple ==
    ASSUME NEW a \in Nat, NEW b \in Nat, NEW n \in Nat, n >= 1,
           Multiple(a, n), Multiple(b, n), a < b + n
    PROVE  a <= b
<1>1. PICK u \in Nat : a = u * n
  BY Zenon DEF Multiple
<1>2. PICK v \in Nat : b = v * n
  BY Zenon DEF Multiple
<1>3. PICK d \in Int : d = u - v
  OBVIOUS
<1>4. d * n = a - b
  BY <1>1, <1>2, <1>3
<1> QED  BY <1>4, Product

LEMMA AddMultiples ==
    ASSUME NEW a \in Nat, NEW b \in Nat, NEW n \in Nat,
           Multiple(a, n), Multiple(b, n)
    PROVE  Multiple(a + b, n)
<1>1. PICK u \in Nat : a = u * n
  BY Zenon DEF Multiple
<1>2. PICK v \in Nat : b = v * n
  BY Zenon DEF Multiple
<1>3. a + b = (u + v) * n /\ u + v \in Nat
  BY <1>1, <1>2
<1> QED  BY <1>3 DEF Multiple

LEMMA ChainMultiples ==
    ASSUME NEW a \in Nat, NEW m \in Nat, NEW n \in Nat,
           Multiple(a, m), Multiple(m, n)
    PROVE  Multiple(a, n)
<1>1. PICK u \in Nat : a = u * m
  BY DEF Multiple
<1>2. PICK v \in Nat : m = v * n
  BY Zenon DEF Multiple
<1>3. a = (u * v) * n /\ u * v \in Nat
  BY <1>1, <1>2
<1> QED  BY <1>3, Zenon DEF Multiple

(* The smaller of two sizes divides the larger one.                        *)
LEMMA SizesDivide ==
    ASSUME WellOrdered, NEW o \in Orders, NEW k \in Orders, o <= k
    PROVE  Multiple(Size[k], Size[o])
<1> DEFINE T == {j \in Orders : o <= j /\ ~Multiple(Size[j], Size[o])}
<1>1. T = {}
  <2> SUFFICES ASSUME T # {} PROVE FALSE
    OBVIOUS
  <2>1. T \in SUBSET Nat
    BY Sizes, Zenon
  <2>2. PICK j \in T : \A i \in T : j <= i
    BY <2>1, Zenon DEF WellOrdered
  <2>3. Multiple(Size[o], Size[o])
    BY Sizes DEF Multiple
  <2>4. j > o /\ j \in Nat /\ o \in Nat
    BY <2>2, <2>3, Sizes
  <2>5. j - 1 \in Orders /\ Size[j] = 2 * Size[j - 1] /\ Size[j - 1] \in Nat
        /\ Size[o] \in Nat /\ Size[j] \in Nat
    BY <2>2, <2>4, Sizes
  <2>6. Multiple(Size[j - 1], Size[o])
    BY <2>2, <2>4, <2>5
  <2>7. Multiple(Size[j], Size[j - 1])
    BY <2>5 DEF Multiple
  <2>8. Multiple(Size[j], Size[o])
    BY <2>5, <2>6, <2>7, ChainMultiples
  <2> QED  BY <2>2, <2>8
<1> QED  BY <1>1

-----------------------------------------------------------------------------
(* Buddies.                                                                *)

(* Two aligned blocks of order o are buddies when they are the halves of   *)
(* one of order o + 1; find_buddy goes from either to the other.           *)
LEMMA Halved ==
    ASSUME NEW o \in Orders, o < MAX_ORDER, NEW p \in Nat, Multiple(p, Size[o])
    PROVE  /\ \/ find_buddy(p, o) = p + Size[o] /\ Multiple(p, Size[o + 1])
              \/ find_buddy(p, o) = p - Size[o] /\ Multiple(p - Size[o], Size[o + 1])
           /\ find_buddy(p, o) \in Nat /\ Multiple(find_buddy(p, o), Size[o])
           /\ find_buddy(find_buddy(p, o), o) = p
<1>1. PICK n \in Nat : n = Size[o] /\ n >= 1
  BY Sizes
<1>2. Size[o + 1] = 2 * n
  BY <1>1, Sizes
<1>3. PICK u \in Nat : p = u * n
  BY <1>1 DEF Multiple
<1>4. p \div n = u
  BY <1>1, <1>3, Quotient
<1>5. CASE u % 2 = 0
  <2>1. find_buddy(p, o) = p + n
    BY <1>1, <1>4, <1>5 DEF find_buddy
  <2>2. PICK v \in Nat : u = 2 * v
    BY <1>5
  <2>3. p = v * (2 * n)
    BY <1>3, <2>2
  <2>4. p + n = (u + 1) * n /\ u + 1 \in Nat
    BY <1>3
  <2>5. (p + n) \div n = u + 1
    BY <1>1, <2>4, Quotient, Zenon
  <2>6. (u + 1) % 2 # 0
    BY <2>2
  <2>7. find_buddy(p + n, o) = p
    BY <1>1, <2>5, <2>6 DEF find_buddy
  <2>8. Multiple(p, Size[o + 1])
    BY <1>2, <2>2, <2>3 DEF Multiple
  <2>9. Multiple(p + n, n)
    BY <2>4, Zenon DEF Multiple
  <2> QED  BY <1>1, <2>1, <2>7, <2>8, <2>9
<1>6. CASE u % 2 # 0
  <2>1. find_buddy(p, o) = p - n
    BY <1>1, <1>4, <1>6 DEF find_buddy
  <2>2. PICK v \in Nat : u = 2 * v + 1
    BY <1>6
  <2>3. p - n = v * (2 * n) /\ p - n \in Nat
    BY <1>3, <2>2
  <2>4. p - n = (2 * v) * n /\ 2 * v \in Nat
    BY <2>2, <2>3
  <2>5. (p - n) \div n = 2 * v
    BY <1>1, <2>4, Quotient
  <2>6. (2 * v) % 2 = 0
    BY <2>2
  <2>7. find_buddy(p - n, o) = p
    BY <1>1, <2>5, <2>6 DEF find_buddy
  <2>8. Multiple(p - n, Size[o + 1])
    BY <1>2, <2>2, <2>3 DEF Multiple
  <2>9. Multiple(p - n, n)
    BY <2>4, Zenon DEF Multiple
  <2> QED  BY <1>1, <2>1, <2>3, <2>7, <2>8, <2>9
<1> QED  BY <1>5, <1>6

(* An aligned block that holds the buddy's first page and is apart from    *)
(* the block itself starts there and is no larger.                         *)
LEMMA InPair ==
    ASSUME WellOrdered, NEW o \in Orders, o < MAX_ORDER,
           NEW p \in Nat, Multiple(p, Size[o]),
           NEW k \in Orders, NEW h \in Nat, Multiple(h, Size[k]),
           h <= find_buddy(p, o), find_buddy(p, o) < h + Size[k],
           p < h \/ h + Size[k] <= p
    PROVE  h = find_buddy(p, o) /\ k <= o
<1>1. PICK b \in Nat : b = find_buddy(p, o)
  BY Halved
<1>2. /\ Size[o] \in Nat /\ Size[o] >= 1 /\ Size[k] \in Nat /\ Size[k] >= 1
      /\ o + 1 \in Orders /\ Size[o + 1] = 2 * Size[o]
      /\ o \in Nat /\ k \in Nat
  BY Sizes
<1>3. Multiple(b, Size[o])
  BY <1>1, Halved
<1>4. CASE k <= o
  <2>1. Multiple(b, Size[k])
    BY <1>2, <1>3, <1>4, SizesDivide, ChainMultiples
  <2>2. b <= h
    BY <1>1, <1>2, <2>1, NextMultiple
  <2> QED  BY <1>1, <1>4, <2>2
<1>5. CASE k > o
  <2>1. PICK n \in Nat : n = 2 * Size[o]
    BY <1>2
  <2>2. PICK low \in Nat : /\ Multiple(low, n) /\ low <= b /\ b < low + n
                           /\ low <= p /\ p < low + n
    <3>1. CASE b = p + Size[o] /\ Multiple(p, n)
      BY <1>2, <2>1, <3>1
    <3>2. CASE b = p - Size[o] /\ Multiple(b, n)
      BY <1>2, <2>1, <3>2
    <3> QED  BY <1>1, <1>2, <2>1, <3>1, <3>2, Halved
  <2>3. Multiple(Size[k], n)
    BY <1>2, <1>5, <2>1, SizesDivide
  <2>4. Multiple(h, n)
    BY <1>2, <2>3, ChainMultiples
  <2>5. Multiple(h + Size[k], n)
    BY <1>2, <2>3, <2>4, AddMultiples
  <2>6. h <= low
    BY <1>1, <1>2, <2>1, <2>2, <2>4, NextMultiple
  <2>7. low + n <= h + Size[k]
    <3>1. Multiple(low + n, n)
      <4>1. n = 1 * n
        OBVIOUS
      <4>2. Multiple(n, n)
        BY <4>1 DEF Multiple
      <4> QED  BY <2>2, <4>2, AddMultiples
    <3>2. low + n < (h + Size[k]) + n
      BY <1>1, <1>2, <2>2
    <3> QED  BY <1>2, <2>1, <2>5, <3>1, <3>2, NextMultiple
  <2> QED  BY <1>2, <2>2, <2>6, <2>7
<1> QED  BY <1>2, <1>4, <1>5

-----------------------------------------------------------------------------
(* Tilings: aligned blocks that share no page and together are the pages U.*)

Tiling(B, U) ==
    /\ B \subseteq Nat \X Orders
    /\ \A b \in B : Multiple(b[1], Size[b[2]])
    /\ \A b, c \in B : b = c \/ Extent(b) \cap Extent(c) = {}
    /\ \A x : x \in U <=> \E b \in B : x \in Extent(b)

Covered(B) == UNION {Extent(b) : b \in B}

LEMMA OneTile ==
    ASSUME NEW b \in Nat \X Orders, Multiple(b[1], Size[b[2]])
    PROVE  Tiling({b}, Extent(b))
BY Zenon DEF Tiling

(* Tiles may be exchanged for others that tile the same pages.             *)
LEMMA Retile ==
    ASSUME NEW B, NEW U, NEW C \in SUBSET B, NEW D, NEW V,
           Tiling(B, U), Tiling(C, V), Tiling(D, V)
    PROVE  Tiling((B \ C) \cup D, U)
<1>1. ASSUME NEW b \in B \ C, NEW d \in D PROVE Extent(b) \cap Extent(d) = {}
  <2> SUFFICES ASSUME NEW x \in Extent(b), x \in Extent(d) PROVE FALSE
    OBVIOUS
  <2>1. x \in V
    BY DEF Tiling
  <2>2. PICK c \in C : x \in Extent(c)
    BY <2>1 DEF Tiling
  <2> QED  BY <2>2 DEF Tiling
<1>2. ASSUME NEW x PROVE x \in U <=> \E b \in (B \ C) \cup D : x \in Extent(b)
  <2>1. ASSUME x \in U PROVE \E b \in (B \ C) \cup D : x \in Extent(b)
    <3>1. PICK b \in B : x \in Extent(b)
      BY <2>1 DEF Tiling
    <3>2. CASE b \in C
      BY <3>1, <3>2 DEF Tiling
    <3> QED  BY <3>1, <3>2
  <2>2. ASSUME NEW b \in (B \ C) \cup D, x \in Extent(b) PROVE x \in U
    <3>1. CASE b \in B
      BY <2>2, <3>1 DEF Tiling
    <3>2. CASE b \in D
      <4>1. x \in V
        BY <2>2, <3>2 DEF Tiling
      <4> QED  BY <4>1 DEF Tiling
    <3> QED  BY <3>1, <3>2
  <2> QED  BY <2>1, <2>2
<1>3. /\ (B \ C) \cup D \subseteq Nat \X Orders
      /\ \A b \in (B \ C) \cup D : Multiple(b[1], Size[b[2]])
  BY Zenon DEF Tiling
<1>4. \A b, c \in (B \ C) \cup D : b = c \/ Extent(b) \cap Extent(c) = {}
  <2> TAKE b, c \in (B \ C) \cup D
  <2>1. CASE b \in B \ C /\ c \in D
    BY <1>1, <2>1
  <2>2. CASE b \in D /\ c \in B \ C
    BY <1>1, <2>2
  <2>3. CASE b \in B /\ c \in B
    BY <2>3 DEF Tiling
  <2>4. CASE b \in D /\ c \in D
    BY <2>4 DEF Tiling
  <2> QED  BY <2>1, <2>2, <2>3, <2>4
<1> QED  BY <1>2, <1>3, <1>4, Zenon DEF Tiling

LEMMA Join ==
    ASSUME NEW B, NEW U, NEW D, NEW V, Tiling(B, U), Tiling(D, V), U \cap V = {}
    PROVE  Tiling(B \cup D, U \cup V)
<1>1. /\ B \cup D \subseteq Nat \X Orders
      /\ \A b \in B \cup D : Multiple(b[1], Size[b[2]])
      /\ \A x : x \in U \cup V <=> \E b \in B \cup D : x \in Extent(b)
  BY Zenon DEF Tiling
<1>2. ASSUME NEW b \in B, NEW d \in D PROVE Extent(b) \cap Extent(d) = {}
  BY Zenon DEF Tiling
<1>3. \A b, c \in B \cup D : b = c \/ Extent(b) \cap Extent(c) = {}
  <2> TAKE b, c \in B \cup D
  <2>1. CASE b \in B /\ c \in D
    BY <1>2, <2>1
  <2>2. CASE b \in D /\ c \in B
    BY <1>2, <2>2
  <2>3. CASE b \in B /\ c \in B
    BY <2>3 DEF Tiling
  <2>4. CASE b \in D /\ c \in D
    BY <2>4 DEF Tiling
  <2> QED  BY <2>1, <2>2, <2>3, <2>4
<1> QED  BY <1>1, <1>3, Zenon DEF Tiling

LEMMA SomeTiles ==
    ASSUME NEW B, NEW U, NEW C \in SUBSET B, Tiling(B, U)
    PROVE  Tiling(C, Covered(C)) /\ Covered(C) \subseteq U
<1>1. \A x : x \in Covered(C) <=> \E b \in C : x \in Extent(b)
  BY Zenon DEF Covered
<1> QED  BY <1>1, Zenon DEF Tiling

(* The tiles determine the pages.                                          *)
LEMMA SamePages ==
    ASSUME NEW B, NEW U, Tiling(B, U)
    PROVE  U = Covered(B)
BY ZenonT(60) DEF Tiling, Covered

(* A block and its two halves tile the same pages.                         *)
LEMMA Halves ==
    ASSUME WellOrdered, NEW o \in Orders, o < MAX_ORDER, NEW p \in Nat,
           Multiple(p, Size[o + 1])
    PROVE  /\ Tiling({<<p, o + 1>>}, Extent(<<p, o + 1>>))
           /\ Tiling({<<p, o>>, <<p + Size[o], o>>}, Extent(<<p, o + 1>>))
<1>1. /\ o + 1 \in Orders /\ Size[o + 1] = 2 * Size[o] /\ Size[o] \in Nat /\ Size[o] >= 1
      /\ Size[o + 1] \in Nat /\ o \in Nat
  BY Sizes
<1>2. /\ <<p, o + 1>> \in Nat \X Orders /\ <<p, o>> \in Nat \X Orders
      /\ <<p + Size[o], o>> \in Nat \X Orders
  BY <1>1
<1>3. Multiple(Size[o], Size[o]) /\ Multiple(Size[o + 1], Size[o])
  BY <1>1, SizesDivide
<1>4. Multiple(p, Size[o]) /\ Multiple(p + Size[o], Size[o])
  BY <1>1, <1>3, ChainMultiples, AddMultiples
<1>5. Tiling({<<p, o + 1>>}, Extent(<<p, o + 1>>))
  BY <1>2, OneTile
<1>6. /\ Extent(<<p, o + 1>>) = p .. p + 2 * Size[o] - 1
      /\ Extent(<<p, o>>) = p .. p + Size[o] - 1
      /\ Extent(<<p + Size[o], o>>) = p + Size[o] .. p + Size[o] + Size[o] - 1
  BY <1>1 DEF Extent
<1>7. Extent(<<p, o>>) \cap Extent(<<p + Size[o], o>>) = {}
  BY <1>1, <1>6
<1>8. Extent(<<p, o>>) \cup Extent(<<p + Size[o], o>>) = Extent(<<p, o + 1>>)
  <2>1. PICK n \in Nat : n = Size[o]
    BY <1>1
  <2>2. (p .. p + n - 1) \cup (p + n .. p + n + n - 1) = p .. p + 2 * n - 1
    OBVIOUS
  <2> QED  BY <1>6, <2>1, <2>2, SMTT(60)
<1>9. Tiling({<<p, o>>}, Extent(<<p, o>>))
      /\ Tiling({<<p + Size[o], o>>}, Extent(<<p + Size[o], o>>))
  BY <1>2, <1>4, OneTile
<1>10. Tiling({<<p, o>>} \cup {<<p + Size[o], o>>}, Extent(<<p, o + 1>>))
  <2>1. Tiling({<<p, o>>} \cup {<<p + Size[o], o>>},
               Extent(<<p, o>>) \cup Extent(<<p + Size[o], o>>))
    BY <1>7, <1>9, Join, Zenon
  <2> QED  BY <1>8, <2>1, Zenon
<1>11. {<<p, o>>} \cup {<<p + Size[o], o>>} = {<<p, o>>, <<p + Size[o], o>>}
  OBVIOUS
<1> QED  BY <1>5, <1>10, <1>11

-----------------------------------------------------------------------------
(* The free lists.                                                         *)

Members(q) == {q[i] : i \in 1 .. Len(q)}
Distinct(q) == \A i, j \in 1 .. Len(q) : q[i] = q[j] => i = j

AreaOK(area) ==
    /\ area \in [Orders -> Seq(Pages)]
    /\ \A o \in Orders : Distinct(area[o])

Blocks(area) == {b \in Pages \X Orders : b[1] \in Members(area[b[2]])}

LEMMA PagesNat == Pages \subseteq Nat
BY BuddyAssumption DEF Pages

LEMMA HeadAdded ==
    ASSUME NEW q \in Seq(Pages), NEW p \in Pages, Distinct(q), p \notin Members(q)
    PROVE  /\ <<p>> \o q \in Seq(Pages) /\ Distinct(<<p>> \o q)
           /\ Members(<<p>> \o q) = Members(q) \cup {p}
<1> DEFINE d == <<p>> \o q
<1>1. /\ d \in Seq(Pages) /\ Len(q) \in Nat /\ Len(d) = Len(q) + 1
      /\ d[1] = p /\ \A i \in 2 .. Len(q) + 1 : d[i] = q[i - 1]
  OBVIOUS
<1> HIDE DEF d
<1>2. ASSUME NEW i \in 2 .. Len(d) PROVE i - 1 \in 1 .. Len(q) /\ d[i] = q[i - 1] /\ d[i] # p
  <2>1. i - 1 \in 1 .. Len(q) /\ d[i] = q[i - 1]
    BY <1>1
  <2> QED  BY <2>1 DEF Members
<1>3. Distinct(d) /\ Members(d) \subseteq Members(q) \cup {p}
  <2>1. ASSUME NEW i \in 1 .. Len(d), NEW j \in 1 .. Len(d), d[i] = d[j] PROVE i = j
    <3>1. CASE i = 1 \/ j = 1
      BY <1>1, <1>2, <2>1, <3>1
    <3>2. CASE i # 1 /\ j # 1
      <4>1. i - 1 = j - 1
        BY <1>2, <2>1, <3>2 DEF Distinct
      <4> QED  BY <1>1, <4>1
    <3> QED  BY <3>1, <3>2
  <2>2. ASSUME NEW i \in 1 .. Len(d) PROVE d[i] \in Members(q) \cup {p}
    <3>1. CASE i = 1
      BY <1>1, <3>1
    <3>2. CASE i # 1
      <4>1. i - 1 \in 1 .. Len(q) /\ d[i] = q[i - 1]
        BY <1>2, <3>2
      <4> QED  BY <4>1 DEF Members
    <3> QED  BY <3>1, <3>2
  <2>3. Members(d) \subseteq Members(q) \cup {p}
    BY <2>2, Zenon DEF Members
  <2> QED  BY <2>1, <2>3 DEF Distinct
<1>4. ASSUME NEW x \in Members(q) PROVE x \in Members(d)
  <2>1. PICK i \in 1 .. Len(q) : q[i] = x
    BY DEF Members
  <2>2. i + 1 \in 1 .. Len(d) /\ d[i + 1] = x
    BY <1>1, <2>1
  <2> QED  BY <2>2 DEF Members
<1>5. p \in Members(d)
  BY <1>1 DEF Members
<1> QED  BY <1>1, <1>3, <1>4, <1>5 DEF d

LEMMA OneDeleted ==
    ASSUME NEW q \in Seq(Pages), Distinct(q), NEW i \in 1 .. Len(q),
           NEW d, d = [j \in 1 .. Len(q) - 1 |-> IF j < i THEN q[j] ELSE q[j + 1]]
    PROVE  /\ d \in Seq(Pages) /\ Distinct(d)
           /\ Members(d) = Members(q) \ {q[i]}
<1>1. Len(q) \in Nat /\ Len(q) - 1 \in Nat /\ \A j \in 1 .. Len(q) : q[j] \in Pages
  OBVIOUS
<1>2. d \in Seq(Pages) /\ Len(d) = Len(q) - 1
  <2>1. \A j \in 1 .. Len(q) - 1 : d[j] \in Pages
    BY <1>1
  <2>2. d \in [1 .. Len(q) - 1 -> Pages]
    BY <2>1
  <2> QED  BY <1>1, <2>2
<1>3. \A j \in 1 .. Len(q) - 1 : d[j] = IF j < i THEN q[j] ELSE q[j + 1]
  OBVIOUS
<1>4. Distinct(d)
  BY <1>1, <1>2, <1>3 DEF Distinct
<1>5. ASSUME NEW x \in Members(d) PROVE x \in Members(q) /\ x # q[i]
  BY <1>1, <1>2, <1>3 DEF Members, Distinct
<1>6. ASSUME NEW x \in Members(q), x # q[i] PROVE x \in Members(d)
  <2>1. PICK j \in 1 .. Len(q) : q[j] = x
    BY DEF Members
  <2>2. CASE j < i
    <3>1. j \in 1 .. Len(d) /\ d[j] = x
      BY <1>1, <1>2, <1>3, <2>1, <2>2
    <3> QED  BY <3>1 DEF Members
  <2>3. CASE j > i
    <3>1. j - 1 \in 1 .. Len(d) /\ d[j - 1] = x
      BY <1>1, <1>2, <1>3, <2>1, <2>3
    <3> QED  BY <3>1 DEF Members
  <2>4. j # i
    BY <1>6, <2>1
  <2> QED  BY <2>2, <2>3, <2>4
<1> QED  BY <1>2, <1>4, <1>5, <1>6

(* list_add and list_del change the set of free blocks by one block.       *)
LEMMA ListAdd ==
    ASSUME NEW area, AreaOK(area), NEW o \in Orders, NEW p \in Pages,
           <<p, o>> \notin Blocks(area)
    PROVE  /\ AreaOK(list_add(area, o, p))
           /\ Blocks(list_add(area, o, p)) = Blocks(area) \cup {<<p, o>>}
<1>1. PICK d : d = <<p>> \o area[o]
  BY Zenon
<1>2. area[o] \in Seq(Pages) /\ Distinct(area[o]) /\ p \notin Members(area[o])
  BY DEF AreaOK, Blocks
<1>3. d \in Seq(Pages) /\ Distinct(d) /\ Members(d) = Members(area[o]) \cup {p}
  BY <1>1, <1>2, HeadAdded
<1>4. PICK new : new = list_add(area, o, p)
  OBVIOUS
<1>5. new = [area EXCEPT ![o] = d]
  BY <1>1, <1>4 DEF AreaOK, list_add
<1>6. new \in [Orders -> Seq(Pages)] /\ \A k \in Orders : new[k] = IF k = o THEN d ELSE area[k]
  BY <1>3, <1>5, Zenon DEF AreaOK
<1>7. AreaOK(new)
  BY <1>3, <1>6, Zenon DEF AreaOK
<1>8. ASSUME NEW b \in Pages \X Orders
      PROVE  b \in Blocks(new) <=> b \in Blocks(area) \/ b = <<p, o>>
  <2>1. PICK q \in Pages, k \in Orders : b = <<q, k>>
    OBVIOUS
  <2>2. q \in Members(new[k]) <=> q \in Members(area[k]) \/ (k = o /\ q = p)
    BY <1>3, <1>6
  <2> QED  BY <2>1, <2>2 DEF Blocks
<1>9. Blocks(new) \subseteq Pages \X Orders /\ Blocks(area) \subseteq Pages \X Orders
      /\ <<p, o>> \in Pages \X Orders
  BY DEF Blocks
<1> QED  BY <1>4, <1>7, <1>8, <1>9

LEMMA ListDel ==
    ASSUME NEW area, AreaOK(area), NEW o \in Orders, NEW p \in Pages,
           <<p, o>> \in Blocks(area)
    PROVE  /\ AreaOK(list_del(area, o, p))
           /\ Blocks(list_del(area, o, p)) = Blocks(area) \ {<<p, o>>}
<1>1. PICK q : q = area[o]
  OBVIOUS
<1>2. q \in Seq(Pages) /\ Distinct(q) /\ p \in Members(q)
  BY <1>1 DEF AreaOK, Blocks
<1>3. PICK i : i = CHOOSE j \in 1 .. Len(q) : q[j] = p
  OBVIOUS
<1>4. i \in 1 .. Len(q) /\ q[i] = p
  BY <1>2, <1>3 DEF Members
<1>5. PICK d : d = [j \in 1 .. Len(q) - 1 |-> IF j < i THEN q[j] ELSE q[j + 1]]
  BY Zenon
<1>6. d \in Seq(Pages) /\ Distinct(d) /\ Members(d) = Members(q) \ {p}
  BY <1>2, <1>4, <1>5, OneDeleted, Zenon
<1>7. PICK new : new = list_del(area, o, p)
  OBVIOUS
<1>8. new = [area EXCEPT ![o] = d]
  BY <1>1, <1>2, <1>3, <1>5, <1>7, Zenon DEF list_del, Members
<1>9. new \in [Orders -> Seq(Pages)] /\ \A k \in Orders : new[k] = IF k = o THEN d ELSE area[k]
  BY <1>6, <1>8, Zenon DEF AreaOK
<1>10. AreaOK(new)
  BY <1>6, <1>9, Zenon DEF AreaOK
<1>11. ASSUME NEW b \in Pages \X Orders
       PROVE  b \in Blocks(new) <=> b \in Blocks(area) /\ b # <<p, o>>
  <2>1. PICK r \in Pages, k \in Orders : b = <<r, k>>
    OBVIOUS
  <2>2. r \in Members(new[k]) <=> r \in Members(area[k]) /\ ~(k = o /\ r = p)
    BY <1>1, <1>6, <1>9
  <2> QED  BY <2>1, <2>2 DEF Blocks
<1>12. Blocks(new) \subseteq Pages \X Orders /\ Blocks(area) \subseteq Pages \X Orders
  BY DEF Blocks
<1> QED  BY <1>7, <1>10, <1>11, <1>12

-----------------------------------------------------------------------------
(* The inductive invariant.                                                *)

(* The blocks that are nobody's: those on the lists, and the one in hand.  *)
Ours == Blocks(free_area) \cup InFlight

Managed == first_free .. END - 1

Types ==
    /\ flags \in [Pages -> SUBSET {"FREE", "HEAD", "USED", "RESERVED"}]
    /\ order \in [Pages -> Orders \cup {-1}]
    /\ AreaOK(free_area)
    /\ held \in SUBSET (Pages \X Orders)
    /\ pc \in {"boot", "ready", "split", "merge"}
    /\ page \in Pages \cup {END, first_free}
    /\ cur \in Orders /\ want \in Orders
    /\ pc = "boot" => first_free <= page
    /\ pc \in {"split", "merge"} => page \in Pages
    /\ pc = "split" => want <= cur

(* Every block is in one place, and the blocks tile what page_init added.  *)
TileInv == Tiling(Ours \cup held, Managed \ NotAdded)

OnceInv ==
    /\ InFlight \cap Blocks(free_area) = {}
    /\ held \cap Ours = {}

(* page_init adds the largest blocks that fit.                             *)
BootInv ==
    pc = "boot" => /\ held = {}
                   /\ \A b \in Blocks(free_area) : \A k \in Orders :
                         Fits(b[1], k) => k <= b[2]

(* What struct page says of the heads of the blocks.  PG_FREE says little: *)
(* the head of a listed block may have lost it, and pages inside a block   *)
(* may still have it.                                                      *)
MarkInv ==
    /\ \A b \in Blocks(free_area) : order[b[1]] = b[2]
    /\ \A b \in held : flags[b[1]] = PG_USED_HEAD /\ order[b[1]] = b[2]
    /\ pc = "merge" => order[page] = cur
    /\ \A p \in Pages : p < first_free => "FREE" \notin flags[p]

PairInv ==
    \A o \in Orders, p \in Pages :
       /\ o < MAX_ORDER /\ <<p, o>> \in Blocks(free_area)
       /\ <<find_buddy(p, o), o>> \in Blocks(free_area)
       => "FREE" \notin flags[p] \/ "FREE" \notin flags[find_buddy(p, o)]

(* The count includes the block in hand.                                   *)
CountInv == free_page_count = Cardinality(Covered(Ours))

Counting == Arithmetic /\ IntervalsCount

State == Types /\ TileInv /\ OnceInv /\ BootInv /\ MarkInv /\ PairInv /\ CountInv

IInv == Counting /\ State
-----------------------------------------------------------------------------
(* What the tiling says of single blocks.                                  *)

LEMMA Within ==
    ASSUME NEW p \in Nat, NEW o \in Orders
    PROVE  /\ p \in Extent(<<p, o>>)
           /\ \A x : x \in Extent(<<p, o>>) <=> x \in Int /\ p <= x /\ x < p + Size[o]
           /\ Extent(<<p, o>>) = p .. p + Size[o] - 1
BY Sizes DEF Extent

LEMMA Tiles ==
    ASSUME NEW B, NEW U, Tiling(B, U), NEW b \in B, NEW c \in B, b # c
    PROVE  /\ b[1] # c[1] /\ c[1] \notin Extent(b)
           /\ Extent(b) \cap Extent(c) = {}
<1>1. Extent(b) \cap Extent(c) = {} /\ b \in Nat \X Orders /\ c \in Nat \X Orders
  BY DEF Tiling
<1>2. b[1] \in Extent(b) /\ c[1] \in Extent(c)
  <2>1. PICK p \in Nat, o \in Orders : b = <<p, o>>
    BY <1>1
  <2>2. PICK q \in Nat, k \in Orders : c = <<q, k>>
    BY <1>1
  <2> QED  BY <2>1, <2>2, Within
<1> QED  BY <1>1, <1>2

(* A block that shares a page with a tile is that tile or none.            *)
LEMMA Overlap ==
    ASSUME NEW B, NEW U, Tiling(B, U), NEW b \in B, NEW d, d # b,
           NEW x, x \in Extent(b), x \in Extent(d)
    PROVE  d \notin B
BY DEF Tiling

LEMMA ManagedPages == Managed \subseteq Pages /\ first_free \in Nat /\ START <= first_free
BY BuddyAssumption DEF Managed, Pages, first_free

LEMMA CountAdd ==
    ASSUME Counting, NEW U \in SUBSET Managed, NEW p \in Nat, NEW o \in Orders,
           U \cap Extent(<<p, o>>) = {}
    PROVE  Cardinality(U \cup Extent(<<p, o>>)) = Cardinality(U) + Size[o]
<1>1. IsFiniteSet(U)
  <2>1. IsFiniteSet(Managed)
    BY ManagedPages, BuddyAssumption DEF Counting, Arithmetic, SetsCount, Managed
  <2> QED  BY <2>1 DEF Counting, Arithmetic, SetsCount
<1>2. Size[o] \in Nat /\ Extent(<<p, o>>) = p .. p + Size[o] - 1
  BY Sizes, Within
<1>3. PICK n \in Nat : n = Size[o]
  BY <1>2
<1>4. Extent(<<p, o>>) = p .. p + n - 1
  BY <1>2, <1>3
<1>5. Cardinality(U \cup (p .. p + n - 1)) = Cardinality(U) + n
  BY <1>1, <1>4, Zenon DEF Counting, IntervalsCount
<1> QED  BY <1>3, <1>4, <1>5, Zenon

LEMMA UpperHalf ==
    ASSUME NEW o \in Orders, o < MAX_ORDER, NEW p \in Nat, Multiple(p, Size[o + 1]),
           WellOrdered
    PROVE  /\ find_buddy(p, o) = p + Size[o] /\ find_buddy(p + Size[o], o) = p
           /\ Multiple(p, Size[o])
<1>1. /\ o + 1 \in Orders /\ Size[o + 1] = 2 * Size[o] /\ Size[o] \in Nat /\ Size[o] >= 1
      /\ Size[o + 1] \in Nat /\ Size[o + 1] >= 1 /\ o \in Nat
  BY Sizes
<1>2. Multiple(p, Size[o])
  BY <1>1, SizesDivide, ChainMultiples
<1>3. find_buddy(p, o) = p + Size[o]
  <2> SUFFICES ASSUME find_buddy(p, o) = p - Size[o], Multiple(p - Size[o], Size[o + 1]) PROVE FALSE
    BY <1>2, Halved
  <2>1. p - Size[o] \in Nat
    BY <1>2, Halved
  <2>2. p <= p - Size[o]
    BY <1>1, <2>1, NextMultiple
  <2> QED  BY <1>1, <2>1, <2>2
<1> QED  BY <1>2, <1>3, Halved

(* The facts every step starts from.                                       *)
LEMMA Facts ==
    ASSUME IInv
    PROVE  /\ Types /\ WellOrdered
           /\ Ours \cup held \subseteq Pages \X Orders
           /\ Tiling(Ours, Covered(Ours)) /\ Covered(Ours) \subseteq Managed \ NotAdded
           /\ Tiling(Ours \cup held, Managed \ NotAdded)
<1>1. Types /\ WellOrdered /\ Tiling(Ours \cup held, Managed \ NotAdded)
  BY Zenon DEF IInv, Counting, Arithmetic, State, TileInv
<1>2. Tiling(Ours, Covered(Ours)) /\ Covered(Ours) \subseteq Managed \ NotAdded
  BY <1>1, SomeTiles
<1>3. Ours \cup held \subseteq Pages \X Orders
  <2>1. InFlight \subseteq Pages \X Orders
    BY <1>1 DEF Types, InFlight
  <2>2. Blocks(free_area) \subseteq Pages \X Orders
    BY DEF Blocks
  <2> QED  BY <1>1, <2>1, <2>2 DEF Types, Ours
<1> QED  BY <1>1, <1>2, <1>3
-----------------------------------------------------------------------------
(* The steps.  A caller sees the blocks it holds and the pages nobody has. *)

Unheld == NotAdded \cup Covered(Ours)
Unseen == held' = held /\ Unheld' = Unheld

LEMMA InitDoneKeeps == ASSUME IInv, InitDone PROVE State' /\ Unseen
<1>1. /\ pc = "boot" /\ page >= END /\ pc' = "ready"
      /\ UNCHANGED <<flags, order, free_area, free_page_count, held, page, cur, want>>
  BY DEF InitDone, mem
<1>2. Types'
  BY <1>1, Facts, Zenon DEF Types
<1>3. InFlight' = InFlight /\ NotAdded' = NotAdded
  <2>1. page \in Nat /\ END \in Nat
    BY Facts, PagesNat, ManagedPages, BuddyAssumption, Zenon DEF Types
  <2>2. page .. END - 1 = {}
    BY <1>1, <2>1
  <2> QED  BY <1>1, <2>2 DEF InFlight, NotAdded
<1>4. Blocks(free_area') = Blocks(free_area) /\ Ours' = Ours
  BY <1>1, <1>3 DEF Ours
<1>5. TileInv' /\ OnceInv' /\ CountInv'
  BY <1>1, <1>3, <1>4, Zenon DEF IInv, State, TileInv, OnceInv, CountInv
<1>6. BootInv' /\ MarkInv' /\ PairInv'
  BY <1>1, <1>4, Zenon DEF IInv, State, BootInv, MarkInv, PairInv
<1>7. Unseen
  BY <1>1, <1>3, <1>4, Zenon DEF Unseen, Unheld
<1> QED  BY <1>2, <1>5, <1>6, <1>7, Zenon DEF State

LEMMA AddBlockKeeps == ASSUME IInv, AddBlock PROVE State' /\ Unseen
<1>1. PICK o \in Orders :
         /\ Fits(page, o) /\ \A k \in Orders : Fits(page, k) => k <= o
         /\ flags' = [flags EXCEPT ![page] = PG_FREE_HEAD]
         /\ order' = [order EXCEPT ![page] = o]
         /\ free_area' = list_add(free_area, o, page)
         /\ free_page_count' = free_page_count + Size[o]
         /\ page' = page + Size[o]
  BY Zenon DEF AddBlock
<1>2. pc = "boot" /\ page < END /\ UNCHANGED <<held, pc, cur, want>>
  BY DEF AddBlock
<1>3. PICK p : p = page
  OBVIOUS
<1>4. PICK F : F = Blocks(free_area)
  OBVIOUS
<1>5. PICK b : b = <<p, o>>
  BY Zenon
<1>6. /\ p \in Pages /\ p \in Nat /\ first_free <= p /\ p + Size[o] <= END
      /\ Size[o] \in Nat /\ Size[o] >= 1 /\ Multiple(p, Size[o])
  <2>1. p \in Nat /\ first_free <= p
    BY <1>2, <1>3, Facts, PagesNat, ManagedPages, BuddyAssumption, Zenon DEF Types
  <2>2. p \in Pages
    BY <1>2, <1>3, <2>1, ManagedPages, BuddyAssumption DEF Pages
  <2> QED  BY <1>1, <1>3, <2>1, <2>2, Sizes, Aligned DEF Fits
<1>7. InFlight = {} /\ InFlight' = {} /\ held = {} /\ Ours = F
  BY <1>2, <1>4 DEF InFlight, IInv, State, BootInv, Ours
<1>8. PICK N : N = NotAdded
  OBVIOUS
<1>9. PICK M : M = NotAdded'
  OBVIOUS
<1>10. /\ Extent(b) \subseteq Managed /\ Extent(b) \subseteq N /\ M = N \ Extent(b) /\ p \in N
       /\ N \subseteq Managed
  <2>1. N = p .. END - 1 /\ M = p + Size[o] .. END - 1
    BY <1>1, <1>2, <1>3, <1>8, <1>9 DEF NotAdded
  <2>2. Extent(b) = p .. p + Size[o] - 1 /\ first_free \in Nat /\ END \in Nat
    BY <1>5, <1>6, Within, ManagedPages, BuddyAssumption
  <2>3. M = N \ Extent(b)
    BY <1>6, <2>1, <2>2
  <2>4. /\ Extent(b) \subseteq first_free .. END - 1 /\ Extent(b) \subseteq N
        /\ p \in N /\ N \subseteq first_free .. END - 1
    BY <1>2, <1>3, <1>6, <2>1, <2>2
  <2> QED  BY <2>3, <2>4 DEF Managed
<1>11. Tiling(F, Managed \ N) /\ F \subseteq Pages \X Orders /\ AreaOK(free_area)
  BY <1>4, <1>7, <1>8, Facts DEF Types
<1>12. b \notin F /\ b \in Pages \X Orders
  <2>1. p \in Extent(b)
    BY <1>5, <1>6, Within
  <2> QED  BY <1>5, <1>6, <1>10, <1>11, <2>1 DEF Tiling
<1>13. AreaOK(free_area') /\ Blocks(free_area') = F \cup {b}
  BY <1>1, <1>3, <1>4, <1>5, <1>6, <1>11, <1>12, ListAdd
<1>14. Ours' = F \cup {b}
  BY <1>7, <1>13 DEF Ours
<1>15. Tiling(F \cup {b}, Managed \ M)
  <2>1. Tiling({b}, Extent(b))
    BY <1>5, <1>6, <1>12, PagesNat, OneTile
  <2>2. (Managed \ N) \cup Extent(b) = Managed \ M
    BY <1>10
  <2>3. Tiling(F \cup {b}, (Managed \ N) \cup Extent(b))
    BY <1>10, <1>11, <2>1, Join
  <2> QED  BY <2>2, <2>3
<1>16. TileInv' /\ OnceInv'
  BY <1>2, <1>7, <1>9, <1>14, <1>15 DEF TileInv, OnceInv, Managed, first_free
<1>17. Covered(F) = Managed \ N /\ Covered(F \cup {b}) = Managed \ M
  BY <1>11, <1>15, SamePages
<1>18. CountInv'
  <2>1. Cardinality((Managed \ N) \cup Extent(b)) = Cardinality(Managed \ N) + Size[o]
    BY <1>5, <1>6, <1>10, CountAdd DEF IInv
  <2>2. (Managed \ N) \cup Extent(b) = Managed \ M
    BY <1>10
  <2>3. free_page_count = Cardinality(Managed \ N)
    BY <1>7, <1>17 DEF IInv, State, CountInv
  <2> QED  BY <1>1, <1>14, <1>17, <2>1, <2>2, <2>3 DEF CountInv
<1>19. Unseen
  <2>1. N \cup Covered(F) = M \cup Covered(F \cup {b})
    BY <1>10, <1>17
  <2> QED  BY <1>2, <1>7, <1>8, <1>9, <1>14, <2>1 DEF Unseen, Unheld
<1>20. \A c \in F : c[1] \in Pages /\ c[1] # p
  <2> TAKE c \in F
  <2>1. c \in F \cup {b} /\ b \in F \cup {b} /\ c # b
    BY <1>12
  <2> QED  BY <1>5, <1>11, <1>15, <2>1, Tiles
<1>21. Types'
  <2>1. /\ flags' \in [Pages -> SUBSET {"FREE", "HEAD", "USED", "RESERVED"}]
        /\ order' \in [Pages -> Orders \cup {-1}]
    BY <1>1, Facts, Zenon DEF Types, PG_FREE_HEAD
  <2>2. page' \in Pages \cup {END, first_free} /\ first_free <= page'
    BY <1>1, <1>3, <1>6, ManagedPages, BuddyAssumption, SMTT(60) DEF Pages
  <2> QED  BY <1>2, <1>13, <2>1, <2>2, Facts DEF Types
<1>22. BootInv'
  <2>1. \A c \in F : \A k \in Orders : Fits(c[1], k) => k <= c[2]
    BY <1>2, <1>4 DEF IInv, State, BootInv
  <2>2. \A k \in Orders : Fits(b[1], k) => k <= b[2]
    BY <1>1, <1>3, <1>5
  <2> QED  BY <1>2, <1>7, <1>13, <2>1, <2>2 DEF BootInv, Fits
<1>23. \A q \in Pages : q # p => flags'[q] = flags[q] /\ order'[q] = order[q]
  BY <1>1, <1>3, Facts DEF Types
<1>24. MarkInv'
  <2>1. order'[p] = o
    BY <1>1, <1>3, <1>6, Facts DEF Types
  <2>2. \A c \in F \cup {b} : order'[c[1]] = c[2]
    BY <1>4, <1>5, <1>20, <1>23, <2>1 DEF IInv, State, MarkInv
  <2>3. \A q \in Pages : q < first_free => "FREE" \notin flags'[q]
    <3> TAKE q \in Pages
    <3>1. q < first_free => q # p
      BY <1>6, PagesNat, ManagedPages
    <3> QED  BY <1>23, <3>1 DEF IInv, State, MarkInv
  <2> QED  BY <1>2, <1>7, <1>13, <2>2, <2>3, Zenon DEF MarkInv, first_free
<1>25. ASSUME o < MAX_ORDER, <<find_buddy(p, o), o>> \in F PROVE FALSE
  <2>1. PICK q : q = find_buddy(p, o)
    OBVIOUS
  <2>2. q \in Nat /\ <<q, o>> \in F /\ q \in Pages
    BY <1>6, <1>11, <1>25, <2>1, Halved
  <2>3. q \in Extent(<<q, o>>)
    BY <2>2, Within
  <2>4. q \notin N
    BY <1>11, <2>2, <2>3 DEF Tiling
  <2>5. q < p
    BY <1>2, <1>3, <1>6, <1>8, <2>2, <2>4, BuddyAssumption DEF NotAdded, Pages
  <2>6. q = p - Size[o] /\ Multiple(q, Size[o + 1])
    BY <1>6, <1>25, <2>1, <2>5, Halved
  <2>7. o + 1 \in Orders /\ Size[o + 1] = 2 * Size[o]
    BY <1>25, Sizes
  <2>8. Fits(q, o + 1)
    <3>1. q % Size[o + 1] = 0
      BY <2>2, <2>6, <2>7, Sizes, Aligned
    <3>2. q + Size[o + 1] <= END
      BY <1>6, <2>6, <2>7, BuddyAssumption
    <3> QED  BY <3>1, <3>2 DEF Fits
  <2>9. \A k \in Orders : Fits(q, k) => k <= o
    BY <1>2, <1>4, <2>2 DEF IInv, State, BootInv
  <2> QED  BY <2>7, <2>8, <2>9, Sizes
<1>26. PairInv'
  <2> SUFFICES ASSUME NEW k \in Orders, NEW q \in Pages, k < MAX_ORDER,
                      <<q, k>> \in F \cup {b}, <<find_buddy(q, k), k>> \in F \cup {b}
               PROVE  "FREE" \notin flags'[q] \/ "FREE" \notin flags'[find_buddy(q, k)]
    BY <1>13 DEF PairInv, find_buddy
  <2>1. PICK r : r = find_buddy(q, k)
    OBVIOUS
  <2>2. CASE <<q, k>> \in F /\ <<r, k>> \in F
    <3>1. q # p /\ r # p /\ q \in Pages /\ r \in Pages
      BY <1>20, <2>2
    <3>2. "FREE" \notin flags[q] \/ "FREE" \notin flags[r]
      BY <1>4, <2>1, <2>2 DEF IInv, State, PairInv
    <3> QED  BY <1>23, <2>1, <3>1, <3>2
  <2>3. CASE <<q, k>> = b
    <3>1. q = p /\ k = o
      BY <1>5, <2>3
    <3>2. r # p
      BY <1>6, <2>1, <3>1, Halved
    <3>3. <<r, k>> \in F
      BY <1>5, <2>1, <3>2
    <3> QED  BY <1>25, <2>1, <3>1, <3>3
  <2>4. CASE <<r, k>> = b /\ <<q, k>> # b
    <3>1. r = p /\ k = o /\ <<q, k>> \in F
      BY <1>5, <2>4
    <3>2. Multiple(q, Size[k]) /\ q \in Nat
      BY <1>11, <3>1, PagesNat DEF Tiling
    <3>3. q = find_buddy(p, o)
      <4>1. find_buddy(r, k) = q
        BY <2>1, <3>2, Halved
      <4> QED  BY <3>1, <4>1
    <3> QED  BY <1>25, <3>1, <3>3
  <2> QED  BY <2>1, <2>2, <2>3, <2>4
<1> QED  BY <1>16, <1>18, <1>19, <1>21, <1>22, <1>24, <1>26, Zenon DEF State

LEMMA AllocPagesKeeps ==
    ASSUME IInv, NEW o \in Orders, AllocPages(o)
    PROVE  State' /\ Unseen
<1>1. PICK k \in o .. MAX_ORDER :
         /\ free_area[k] # << >> /\ page' = Head(free_area[k]) /\ cur' = k
         /\ free_area' = list_del(free_area, k, page')
  BY DEF AllocPages
<1>2. /\ pc = "ready" /\ want' = o /\ pc' = "split"
      /\ UNCHANGED <<flags, order, free_page_count, held>>
  BY DEF AllocPages
<1>3. PICK p : p = page'
  OBVIOUS
<1>4. PICK F : F = Blocks(free_area)
  OBVIOUS
<1>5. k \in Orders /\ o <= k
  BY Sizes DEF Orders
<1>6. p \in Pages /\ <<p, k>> \in F
  <2>1. free_area[k] \in Seq(Pages)
    BY <1>5, Facts DEF Types, AreaOK
  <2>2. 1 \in 1 .. Len(free_area[k]) /\ p = free_area[k][1] /\ p \in Pages
    BY <1>1, <1>3, <2>1
  <2> QED  BY <1>4, <1>5, <2>2 DEF Blocks, Members
<1>7. AreaOK(free_area') /\ Blocks(free_area') = F \ {<<p, k>>}
  BY <1>1, <1>3, <1>4, <1>5, <1>6, Facts, ListDel DEF Types
<1>8. InFlight = {} /\ InFlight' = {<<p, k>>} /\ NotAdded = {} /\ NotAdded' = {}
  BY <1>1, <1>2, <1>3 DEF InFlight, NotAdded
<1>9. Ours = F /\ Ours' = F
  BY <1>4, <1>6, <1>7, <1>8 DEF Ours
<1>10. Types'
  BY <1>1, <1>2, <1>3, <1>5, <1>6, <1>7, Facts DEF Types
<1>11. TileInv' /\ CountInv' /\ Unseen
  BY <1>2, <1>8, <1>9 DEF IInv, State, TileInv, CountInv, Unseen, Unheld, Managed, first_free
<1>12. OnceInv'
  BY <1>2, <1>7, <1>8, <1>9 DEF IInv, State, OnceInv
<1>13. BootInv' /\ MarkInv'
  BY <1>2, <1>4, <1>7 DEF IInv, State, BootInv, MarkInv, first_free
<1>14. PairInv'
  BY <1>2, <1>4, <1>7 DEF IInv, State, PairInv, find_buddy
<1> QED  BY <1>10, <1>11, <1>12, <1>13, <1>14, Zenon DEF State

(* The block in hand, once alloc_pages has taken it or free_pages has been *)
(* given it, and the blocks beside it.                                     *)
LEMMA InHand ==
    ASSUME IInv, pc \in {"split", "merge"}, NEW b, b = <<page, cur>>,
           NEW F, F = Blocks(free_area)
    PROVE  /\ page \in Pages /\ page \in Nat /\ cur \in Orders /\ b \in Nat \X Orders
           /\ Multiple(page, Size[cur])
           /\ InFlight = {b} /\ Ours = F \cup {b} /\ NotAdded = {}
           /\ b \notin F /\ b \notin held /\ held \cap F = {}
           /\ F \subseteq Pages \X Orders /\ held \subseteq Pages \X Orders
           /\ \A c \in F \cup held : c[1] \in Pages /\ c[1] # page /\ c[1] \notin Extent(b)
           /\ Tiling(F \cup {b} \cup held, Managed) /\ Tiling(F \cup {b}, Covered(F \cup {b}))
           /\ Covered(F \cup {b}) \subseteq Managed
           /\ free_page_count = Cardinality(Covered(F \cup {b}))
<1>1. page \in Pages /\ page \in Nat /\ cur \in Orders /\ b \in Nat \X Orders
  BY Facts, PagesNat, Zenon DEF Types
<1>2. InFlight = {b} /\ Ours = F \cup {b} /\ NotAdded = {}
  BY DEF InFlight, Ours, NotAdded
<1>3. b \notin F /\ b \notin held /\ held \cap F = {}
  BY <1>2 DEF IInv, State, OnceInv
<1>4. Tiling(F \cup {b} \cup held, Managed) /\ Tiling(F \cup {b}, Covered(F \cup {b}))
      /\ Covered(F \cup {b}) \subseteq Managed
  <2>1. Managed \ {} = Managed
    OBVIOUS
  <2> QED  BY <1>2, <2>1, Facts, Zenon
<1>5. F \subseteq Pages \X Orders /\ held \subseteq Pages \X Orders
  BY <1>2, Facts
<1>6. Multiple(page, Size[cur])
  BY <1>4 DEF Tiling
<1>7. ASSUME NEW c \in F \cup held
      PROVE  c[1] \in Pages /\ c[1] # page /\ c[1] \notin Extent(b)
  <2>1. c[1] \in Pages /\ c # b
    BY <1>3, <1>5
  <2>2. c \in F \cup {b} \cup held /\ b \in F \cup {b} \cup held
    OBVIOUS
  <2>3. c[1] \notin Extent(b) /\ b[1] # c[1]
    BY <1>4, <2>1, <2>2, Tiles
  <2> QED  BY <2>1, <2>3
<1>8. free_page_count = Cardinality(Covered(F \cup {b}))
  BY <1>2 DEF IInv, State, CountInv
<1> QED  BY <1>1, <1>2, <1>3, <1>4, <1>5, <1>6, <1>7, <1>8

(* Pages leave or join the uncounted ones with a block.                    *)
LEMMA CountBlock ==
    ASSUME Counting, NEW F, NEW b \in Nat \X Orders, b \notin F,
           Tiling(F \cup {b}, Covered(F \cup {b})), Covered(F \cup {b}) \subseteq Managed
    PROVE  /\ Covered(F \cup {b}) = Covered(F) \cup Extent(b)
           /\ Covered(F) = Covered(F \cup {b}) \ Extent(b)
           /\ Cardinality(Covered(F \cup {b})) = Cardinality(Covered(F)) + Size[b[2]]
<1>1. Covered(F \cup {b}) = Covered(F) \cup Extent(b)
  BY Zenon DEF Covered
<1>2. Covered(F) \cap Extent(b) = {}
  <2> SUFFICES ASSUME NEW x \in Covered(F), x \in Extent(b) PROVE FALSE
    OBVIOUS
  <2>1. PICK c \in F : x \in Extent(c)
    BY Zenon DEF Covered
  <2> QED  BY <2>1 DEF Tiling
<1>3. Covered(F) \in SUBSET Managed
  BY <1>1
<1>4. PICK p \in Nat, o \in Orders : b = <<p, o>>
  OBVIOUS
<1>5. Cardinality(Covered(F) \cup Extent(<<p, o>>)) = Cardinality(Covered(F)) + Size[o]
  BY <1>2, <1>3, <1>4, CountAdd
<1> QED  BY <1>1, <1>2, <1>4, <1>5, Zenon

LEMMA AllocDoneKeeps ==
    ASSUME IInv, AllocDone
    PROVE  State' /\ \E b \in Pages \X Orders :
              /\ Extent(b) \subseteq Unheld /\ Unheld' = Unheld \ Extent(b)
              /\ held' = held \cup {b}
<1>1. /\ pc = "split" /\ cur = want
      /\ flags' = [flags EXCEPT ![page] = PG_USED_HEAD]
      /\ order' = [order EXCEPT ![page] = want]
      /\ free_page_count' = free_page_count - Size[want]
      /\ held' = held \cup {<<page, want>>}
      /\ pc' = "ready"
      /\ UNCHANGED <<free_area, page, cur, want>>
  BY DEF AllocDone
<1>2. PICK p : p = page
  OBVIOUS
<1>3. PICK o : o = cur
  OBVIOUS
<1>4. PICK b : b = <<p, o>>
  BY Zenon
<1>5. PICK F : F = Blocks(free_area)
  OBVIOUS
<1>6. PICK h : h = held
  OBVIOUS
<1>7. /\ p \in Pages /\ p \in Nat /\ o \in Orders /\ b \in Nat \X Orders
      /\ Ours = F \cup {b} /\ NotAdded = {}
      /\ b \notin F /\ b \notin h /\ h \cap F = {}
      /\ F \subseteq Pages \X Orders /\ h \subseteq Pages \X Orders
      /\ \A c \in F \cup h : c[1] \in Pages /\ c[1] # p
      /\ Tiling(F \cup {b} \cup h, Managed) /\ Tiling(F \cup {b}, Covered(F \cup {b}))
      /\ Covered(F \cup {b}) \subseteq Managed
      /\ free_page_count = Cardinality(Covered(F \cup {b}))
  BY <1>1, <1>2, <1>3, <1>4, <1>5, <1>6, InHand, Zenon
<1>8. /\ InFlight' = {} /\ Ours' = F /\ NotAdded' = {} /\ Blocks(free_area') = F
      /\ held' = h \cup {b}
  BY <1>1, <1>2, <1>3, <1>4, <1>5, <1>6 DEF InFlight, Ours, NotAdded
<1>9. /\ Covered(F \cup {b}) = Covered(F) \cup Extent(b)
      /\ Covered(F) = Covered(F \cup {b}) \ Extent(b)
      /\ Cardinality(Covered(F \cup {b})) = Cardinality(Covered(F)) + Size[o]
  <2>1. Counting
    BY DEF IInv
  <2>2. b[2] = o
    BY <1>4
  <2> QED  BY <1>7, <2>1, <2>2, CountBlock, Zenon
<1>10. TileInv'
  <2>1. F \cup (h \cup {b}) = F \cup {b} \cup h /\ Managed \ {} = Managed
    OBVIOUS
  <2>2. Tiling(F \cup (h \cup {b}), Managed \ {})
    BY <1>7, <2>1
  <2> QED  BY <1>8, <2>2 DEF TileInv, Managed, first_free
<1>11. OnceInv'
  BY <1>7, <1>8 DEF OnceInv
<1>12. CountInv'
  <2>1. Cardinality(Covered(F)) \in Nat /\ Size[o] \in Nat
    <3>1. IsFiniteSet(Managed)
      BY ManagedPages, BuddyAssumption DEF IInv, Counting, Arithmetic, SetsCount, Managed
    <3>2. Covered(F) \in SUBSET Managed
      BY <1>7, <1>9
    <3> QED  BY <1>7, <3>1, <3>2, Sizes, Zenon DEF IInv, Counting, Arithmetic, SetsCount
  <2> QED  BY <1>1, <1>3, <1>7, <1>8, <1>9, <2>1 DEF CountInv
<1>13. \A q \in Pages : q # p => flags'[q] = flags[q] /\ order'[q] = order[q]
  BY <1>1, <1>2, Facts DEF Types
<1>14. flags'[p] = PG_USED_HEAD /\ order'[p] = o
  BY <1>1, <1>2, <1>3, <1>7, Facts DEF Types
<1>15. Types'
  <2>1. /\ flags' \in [Pages -> SUBSET {"FREE", "HEAD", "USED", "RESERVED"}]
        /\ order' \in [Pages -> Orders \cup {-1}]
    BY <1>1, Facts DEF Types, PG_USED_HEAD
  <2>2. held' \in SUBSET (Pages \X Orders)
    BY <1>4, <1>7, <1>8
  <2> QED  BY <1>1, <2>1, <2>2, Facts DEF Types
<1>16. BootInv'
  BY <1>1 DEF BootInv
<1>17. MarkInv'
  <2>1. \A c \in F : order'[c[1]] = c[2]
    BY <1>5, <1>7, <1>13, Zenon DEF IInv, State, MarkInv
  <2>2. \A c \in h \cup {b} : flags'[c[1]] = PG_USED_HEAD /\ order'[c[1]] = c[2]
    <3>1. \A c \in h : flags[c[1]] = PG_USED_HEAD /\ order[c[1]] = c[2]
      BY <1>6 DEF IInv, State, MarkInv
    <3>2. \A c \in h : flags'[c[1]] = PG_USED_HEAD /\ order'[c[1]] = c[2]
      BY <1>7, <1>13, <3>1
    <3>3. flags'[b[1]] = PG_USED_HEAD /\ order'[b[1]] = b[2]
      BY <1>4, <1>14
    <3> QED  BY <3>2, <3>3, Zenon
  <2>3. \A q \in Pages : q < first_free => "FREE" \notin flags'[q]
    BY <1>13, <1>14 DEF IInv, State, MarkInv, PG_USED_HEAD
  <2> QED  BY <1>1, <1>8, <2>1, <2>2, <2>3 DEF MarkInv, first_free
<1>18. PairInv'
  <2> SUFFICES ASSUME NEW k \in Orders, NEW q \in Pages, k < MAX_ORDER,
                      <<q, k>> \in F, <<find_buddy(q, k), k>> \in F
               PROVE  "FREE" \notin flags'[q] \/ "FREE" \notin flags'[find_buddy(q, k)]
    BY <1>8 DEF PairInv, find_buddy
  <2>1. PICK r : r = find_buddy(q, k)
    OBVIOUS
  <2>2. q # p /\ r # p /\ r \in Pages
    BY <1>7, <2>1
  <2>3. "FREE" \notin flags[q] \/ "FREE" \notin flags[r]
    BY <1>5, <2>1 DEF IInv, State, PairInv
  <2> QED  BY <1>13, <2>1, <2>2, <2>3
<1>19. State'
  BY <1>10, <1>11, <1>12, <1>15, <1>16, <1>17, <1>18, Zenon DEF State
<1>20. /\ b \in Pages \X Orders /\ Extent(b) \subseteq Unheld /\ Unheld' = Unheld \ Extent(b)
       /\ held' = held \cup {b}
  BY <1>4, <1>6, <1>7, <1>8, <1>9 DEF Unheld
<1> QED  BY <1>19, <1>20

LEMMA FreePagesKeeps ==
    ASSUME IInv, NEW b \in held, FreePages(b)
    PROVE  State' /\ Unheld' = Unheld \cup Extent(b) /\ held' = held \ {b}
<1>1. /\ pc = "ready"
      /\ held' = held \ {b}
      /\ flags' = [flags EXCEPT ![b[1]] = PG_FREE_HEAD]
      /\ free_page_count' = free_page_count + Size[b[2]]
      /\ page' = b[1] /\ cur' = b[2]
      /\ pc' = "merge"
      /\ UNCHANGED <<order, free_area, want>>
  BY DEF FreePages
<1>2. PICK F : F = Blocks(free_area)
  OBVIOUS
<1>3. PICK h : h = held
  OBVIOUS
<1>4. PICK p \in Pages, o \in Orders : b = <<p, o>>
  BY Facts DEF Types
<1>5. p \in Nat /\ b \in Nat \X Orders /\ b \in h /\ b[1] = p /\ b[2] = o
  BY <1>3, <1>4, PagesNat
<1>6. InFlight = {} /\ InFlight' = {b} /\ NotAdded = {} /\ NotAdded' = {}
  BY <1>1, <1>4, <1>5 DEF InFlight, NotAdded
<1>7. Blocks(free_area') = F /\ Ours = F /\ Ours' = F \cup {b} /\ held' = h \ {b}
  BY <1>1, <1>2, <1>3, <1>6 DEF Ours
<1>8. h \cap F = {} /\ b \notin F
  BY <1>3, <1>5, <1>7 DEF IInv, State, OnceInv
<1>9. Tiling(F \cup h, Managed)
  <2>1. Managed \ {} = Managed
    OBVIOUS
  <2> QED  BY <1>3, <1>6, <1>7, <2>1, Facts
<1>10. Tiling(F \cup {b}, Covered(F \cup {b})) /\ Covered(F \cup {b}) \subseteq Managed
  <2>1. F \cup {b} \in SUBSET (F \cup h)
    BY <1>5
  <2> QED  BY <1>9, <2>1, SomeTiles
<1>11. /\ Covered(F \cup {b}) = Covered(F) \cup Extent(b)
       /\ Cardinality(Covered(F \cup {b})) = Cardinality(Covered(F)) + Size[o]
  <2>1. Counting
    BY DEF IInv
  <2> QED  BY <1>5, <1>8, <1>10, <2>1, CountBlock
<1>12. TileInv'
  <2>1. (F \cup {b}) \cup (h \ {b}) = F \cup h /\ Managed \ {} = Managed
    BY <1>5
  <2>2. Tiling((F \cup {b}) \cup (h \ {b}), Managed \ {})
    BY <1>9, <2>1
  <2> QED  BY <1>6, <1>7, <2>2 DEF TileInv, Managed, first_free
<1>13. OnceInv'
  BY <1>6, <1>7, <1>8 DEF OnceInv
<1>14. CountInv'
  <2>1. free_page_count = Cardinality(Covered(F))
    BY <1>7 DEF IInv, State, CountInv
  <2> QED  BY <1>1, <1>5, <1>7, <1>11, <2>1 DEF CountInv
<1>15. \A c \in F \cup (h \ {b}) : c[1] \in Pages /\ c[1] # p
  <2> TAKE c \in F \cup (h \ {b})
  <2>1. c \in F \cup h /\ b \in F \cup h /\ c # b
    BY <1>5, <1>8
  <2>2. c[1] \in Pages
    BY <1>3, <1>7, <2>1, Facts
  <2> QED  BY <1>5, <1>9, <2>1, <2>2, Tiles
<1>16. \A q \in Pages : q # p => flags'[q] = flags[q]
  BY <1>1, <1>5, Facts DEF Types
<1>17. Types'
  <2>1. flags' \in [Pages -> SUBSET {"FREE", "HEAD", "USED", "RESERVED"}]
    BY <1>1, Facts DEF Types, PG_FREE_HEAD
  <2>2. held' \in SUBSET (Pages \X Orders)
    BY <1>1, Facts DEF Types
  <2> QED  BY <1>1, <1>4, <1>5, <2>1, <2>2, Facts DEF Types
<1>18. BootInv'
  BY <1>1 DEF BootInv
<1>19. MarkInv'
  <2>1. \A c \in F : order'[c[1]] = c[2]
    BY <1>1, <1>2 DEF IInv, State, MarkInv
  <2>2. \A c \in h \ {b} : flags'[c[1]] = PG_USED_HEAD /\ order'[c[1]] = c[2]
    <3>1. \A c \in h \ {b} : flags[c[1]] = PG_USED_HEAD /\ order[c[1]] = c[2]
      BY <1>3 DEF IInv, State, MarkInv
    <3> QED  BY <1>1, <1>15, <1>16, <3>1, Zenon
  <2>3. order'[page'] = cur'
    BY <1>1, <1>3, <1>5 DEF IInv, State, MarkInv
  <2>4. \A q \in Pages : q < first_free => "FREE" \notin flags'[q]
    <3>1. p \in Managed
      <4>1. p \in Extent(b)
        BY <1>4, <1>5, Within
      <4> QED  BY <1>5, <1>9, <4>1 DEF Tiling
    <3> TAKE q \in Pages
    <3>2. q < first_free => q # p
      BY <3>1, ManagedPages, PagesNat, BuddyAssumption DEF Managed
    <3> QED  BY <1>16, <3>2 DEF IInv, State, MarkInv
  <2> QED  BY <1>1, <1>7, <2>1, <2>2, <2>3, <2>4 DEF MarkInv, first_free
<1>20. PairInv'
  <2> SUFFICES ASSUME NEW k \in Orders, NEW q \in Pages, k < MAX_ORDER,
                      <<q, k>> \in F, <<find_buddy(q, k), k>> \in F
               PROVE  "FREE" \notin flags'[q] \/ "FREE" \notin flags'[find_buddy(q, k)]
    BY <1>7 DEF PairInv, find_buddy
  <2>1. PICK r : r = find_buddy(q, k)
    OBVIOUS
  <2>2. q # p /\ r # p /\ r \in Pages
    BY <1>15, <2>1
  <2>3. "FREE" \notin flags[q] \/ "FREE" \notin flags[r]
    BY <1>2, <2>1 DEF IInv, State, PairInv
  <2> QED  BY <1>16, <2>1, <2>2, <2>3
<1>21. State'
  BY <1>12, <1>13, <1>14, <1>17, <1>18, <1>19, <1>20, Zenon DEF State
<1>22. Unheld' = Unheld \cup Extent(b)
  BY <1>6, <1>7, <1>11 DEF Unheld
<1> QED  BY <1>1, <1>21, <1>22

(* The buddy with which free_pages merges is on the list of its order.     *)
LEMMA MergesWithListed ==
    ASSUME IInv, pc = "merge", CanMerge(page, cur)
    PROVE  /\ find_buddy(page, cur) \in Pages
           /\ <<find_buddy(page, cur), cur>> \in Blocks(free_area)
<1>1. PICK F : F = Blocks(free_area)
  OBVIOUS
<1>2. PICK b : b = <<page, cur>>
  BY Zenon
<1>3. /\ page \in Pages /\ page \in Nat /\ cur \in Orders /\ b \in Nat \X Orders
      /\ Multiple(page, Size[cur]) /\ b \notin F /\ b \notin held
      /\ F \subseteq Pages \X Orders /\ held \subseteq Pages \X Orders
      /\ Tiling(F \cup {b} \cup held, Managed)
  BY <1>1, <1>2, InHand, Zenon
<1>4. PICK q : q = find_buddy(page, cur)
  OBVIOUS
<1>5. cur < MAX_ORDER /\ q \in Pages /\ "FREE" \in flags[q] /\ order[q] = cur
  BY <1>4 DEF CanMerge
<1>6. q \in Nat /\ q \in Managed
  BY <1>5, PagesNat, ManagedPages, BuddyAssumption DEF IInv, State, MarkInv, Managed, Pages
<1>7. PICK c \in F \cup {b} \cup held : q \in Extent(c)
  BY <1>3, <1>6 DEF Tiling
<1>8. PICK h \in Nat, k \in Orders : c = <<h, k>>
  BY <1>3, <1>7 DEF Tiling
<1>9. Size[cur] \in Nat /\ Size[cur] >= 1 /\ Size[k] \in Nat
  BY <1>3, <1>8, Sizes
<1>10. q = page + Size[cur] \/ q = page - Size[cur]
  BY <1>3, <1>4, <1>5, Halved, Zenon
<1>11. c # b
  BY <1>2, <1>3, <1>6, <1>7, <1>9, <1>10, Within, SMTT(60)
<1>12. page \notin Extent(c)
  <2>1. b \in F \cup {b} \cup held
    OBVIOUS
  <2> QED  BY <1>2, <1>3, <1>7, <1>11, <2>1, Tiles
<1>13. h = q
  <2>1. Multiple(h, Size[k]) /\ WellOrdered
    BY <1>3, <1>7, <1>8, Facts, Zenon DEF Tiling
  <2>2. h <= q /\ q < h + Size[k] /\ (page < h \/ h + Size[k] <= page)
    BY <1>3, <1>6, <1>7, <1>8, <1>9, <1>12, Within
  <2> QED  BY <1>3, <1>4, <1>5, <1>8, <2>1, <2>2, InPair, Zenon
<1>14. CASE c \in held
  <2>1. flags[q] = PG_USED_HEAD
    BY <1>8, <1>13, <1>14 DEF IInv, State, MarkInv
  <2> QED  BY <1>5, <2>1, Zenon DEF PG_USED_HEAD
<1>15. CASE c \in F
  <2>1. order[q] = k
    BY <1>1, <1>8, <1>13, <1>15 DEF IInv, State, MarkInv
  <2> QED  BY <1>1, <1>4, <1>5, <1>8, <1>13, <1>15, <2>1
<1> QED  BY <1>7, <1>11, <1>14, <1>15

LEMMA SplitKeeps == ASSUME IInv, Split PROVE State' /\ Unseen
<1>1. PICK p : p = page
  OBVIOUS
<1>2. PICK k : k = cur - 1
  OBVIOUS
<1>3. PICK u : u = p + Size[k]
  OBVIOUS
<1>4. /\ pc = "split" /\ cur > want
      /\ flags' = [flags EXCEPT ![u] = PG_FREE_HEAD]
      /\ order' = [order EXCEPT ![u] = k]
      /\ free_area' = list_add(free_area, k, u)
      /\ cur' = k
      /\ UNCHANGED <<free_page_count, held, pc, page, want>>
  BY <1>1, <1>2, <1>3 DEF Split
<1>5. PICK F : F = Blocks(free_area)
  OBVIOUS
<1>6. PICK b : b = <<page, cur>>
  BY Zenon
<1>7. PICK h : h = held
  OBVIOUS
<1>8. PICK U : U = Covered(F \cup {b})
  OBVIOUS
<1>9. /\ p \in Pages /\ p \in Nat /\ cur \in Orders /\ b \in Nat \X Orders
      /\ Multiple(p, Size[cur]) /\ Ours = F \cup {b} /\ NotAdded = {}
      /\ b \notin F /\ b \notin h /\ h \cap F = {}
      /\ F \subseteq Pages \X Orders /\ h \subseteq Pages \X Orders
      /\ \A c \in F \cup h : c[1] \in Pages /\ c[1] \notin Extent(b)
      /\ Tiling(F \cup {b} \cup h, Managed) /\ Tiling(F \cup {b}, U) /\ U \subseteq Managed
      /\ free_page_count = Cardinality(U)
  BY <1>1, <1>4, <1>5, <1>6, <1>7, <1>8, InHand, Zenon
<1>10. /\ k \in Orders /\ k < MAX_ORDER /\ cur = k + 1 /\ want <= k /\ want \in Nat /\ k \in Nat
       /\ Size[k] \in Nat /\ Size[k] >= 1 /\ Size[cur] = 2 * Size[k]
  <2>1. want \in Nat /\ cur \in Nat /\ cur <= MAX_ORDER /\ MAX_ORDER \in Nat
    BY <1>9, Facts, Sizes DEF Types, Orders
  <2> QED  BY <1>2, <1>4, <1>9, <2>1, Sizes
<1>11. PICK lo : lo = <<p, k>>
  BY Zenon
<1>12. PICK up : up = <<u, k>>
  BY Zenon
<1>13. Tiling({b}, Extent(b)) /\ Tiling({lo, up}, Extent(b))
  BY <1>1, <1>3, <1>6, <1>9, <1>10, <1>11, <1>12, Facts, Halves, Zenon
<1>14. /\ u \in Nat /\ u \in Extent(b) /\ p \in Extent(b) /\ u # p /\ up # lo
       /\ p \in Extent(lo) /\ u \in Extent(up) /\ lo # b /\ up # b
  <2>1. u \in Nat /\ p <= u /\ u < p + Size[cur] /\ u # p /\ p < p + Size[cur] /\ k # cur
    BY <1>3, <1>9, <1>10
  <2>2. u \in Extent(b) /\ p \in Extent(b)
    BY <1>1, <1>6, <1>9, <2>1, Within
  <2>3. p \in Extent(lo) /\ u \in Extent(up)
    BY <1>9, <1>10, <1>11, <1>12, <2>1, Within
  <2>4. up # lo /\ lo # b /\ up # b
    BY <1>1, <1>6, <1>11, <1>12, <2>1
  <2> QED  BY <2>1, <2>2, <2>3, <2>4
<1>15. u \in Managed /\ u \in Pages
  <2>1. u \in Managed
    BY <1>9, <1>14 DEF Tiling
  <2> QED  BY <2>1, ManagedPages
<1>16. /\ lo \notin F \cup h /\ up \notin F \cup h
  BY <1>9, <1>14, Overlap
<1>17. AreaOK(free_area') /\ Blocks(free_area') = F \cup {up}
  BY <1>4, <1>5, <1>10, <1>12, <1>15, <1>16, Facts, ListAdd DEF Types
<1>18. InFlight' = {lo} /\ NotAdded' = {} /\ Ours' = F \cup {up} \cup {lo}
  BY <1>1, <1>4, <1>11, <1>17 DEF InFlight, NotAdded, Ours
<1>19. Tiling(F \cup {up} \cup {lo}, U)
  <2>1. ((F \cup {b}) \ {b}) \cup {lo, up} = F \cup {up} \cup {lo}
    BY <1>9
  <2>2. Tiling(((F \cup {b}) \ {b}) \cup {lo, up}, U)
    BY <1>9, <1>13, Retile
  <2> QED  BY <2>1, <2>2
<1>20. Tiling(F \cup {up} \cup {lo} \cup h, Managed)
  <2>1. ((F \cup {b} \cup h) \ {b}) \cup {lo, up} = F \cup {up} \cup {lo} \cup h
    BY <1>9
  <2>2. Tiling(((F \cup {b} \cup h) \ {b}) \cup {lo, up}, Managed)
    BY <1>9, <1>13, Retile
  <2> QED  BY <2>1, <2>2
<1>21. TileInv'
  <2>1. Managed \ {} = Managed
    OBVIOUS
  <2> QED  BY <1>4, <1>7, <1>18, <1>20, <2>1 DEF TileInv, Managed, first_free
<1>22. OnceInv'
  BY <1>4, <1>7, <1>9, <1>14, <1>16, <1>17, <1>18 DEF OnceInv
<1>23. CountInv' /\ Unseen
  <2>1. Covered(F \cup {up} \cup {lo}) = U
    BY <1>19, SamePages
  <2> QED  BY <1>4, <1>8, <1>9, <1>18, <2>1 DEF CountInv, Unseen, Unheld
<1>24. \A q \in Pages : q # u => flags'[q] = flags[q] /\ order'[q] = order[q]
  BY <1>4, Facts DEF Types
<1>25. Types'
  <2>1. /\ flags' \in [Pages -> SUBSET {"FREE", "HEAD", "USED", "RESERVED"}]
        /\ order' \in [Pages -> Orders \cup {-1}]
    BY <1>4, <1>10, Facts, Zenon DEF Types, PG_FREE_HEAD
  <2> QED  BY <1>4, <1>10, <1>17, <2>1, Facts, Zenon DEF Types
<1>26. BootInv'
  BY <1>4 DEF BootInv
<1>27. \A c \in F \cup h : c[1] \in Pages /\ c[1] # u
  BY <1>9, <1>14, Zenon
<1>28. MarkInv'
  <2>1. order'[u] = k
    BY <1>4, <1>15, Facts DEF Types
  <2>2. \A c \in F : order'[c[1]] = c[2]
    BY <1>5, <1>24, <1>27, Zenon DEF IInv, State, MarkInv
  <2>3. \A c \in F \cup {up} : order'[c[1]] = c[2]
    BY <1>12, <2>1, <2>2
  <2>4. \A c \in h : flags[c[1]] = PG_USED_HEAD /\ order[c[1]] = c[2]
    BY <1>7 DEF IInv, State, MarkInv
  <2>5. \A c \in h : flags'[c[1]] = PG_USED_HEAD /\ order'[c[1]] = c[2]
    BY <1>24, <1>27, <2>4
  <2>6. \A q \in Pages : q < first_free => "FREE" \notin flags'[q]
    <3> TAKE q \in Pages
    <3>1. q < first_free => q # u
      BY <1>15, ManagedPages, PagesNat, BuddyAssumption DEF Managed
    <3> QED  BY <1>24, <3>1 DEF IInv, State, MarkInv
  <2> QED  BY <1>4, <1>7, <1>17, <2>3, <2>5, <2>6, Zenon DEF MarkInv, first_free
<1>29. find_buddy(p, k) = u /\ find_buddy(u, k) = p
  BY <1>3, <1>9, <1>10, Facts, UpperHalf, Zenon
<1>30. PairInv'
  <2> SUFFICES ASSUME NEW j \in Orders, NEW q \in Pages, j < MAX_ORDER,
                      <<q, j>> \in F \cup {up}, <<find_buddy(q, j), j>> \in F \cup {up}
               PROVE  "FREE" \notin flags'[q] \/ "FREE" \notin flags'[find_buddy(q, j)]
    BY <1>17, Zenon DEF PairInv, find_buddy
  <2>1. PICK r : r = find_buddy(q, j)
    OBVIOUS
  <2>2. CASE <<q, j>> \in F /\ <<r, j>> \in F
    <3>1. q # u /\ r # u /\ r \in Pages
      BY <1>27, <2>2
    <3>2. "FREE" \notin flags[q] \/ "FREE" \notin flags[r]
      BY <1>5, <2>1, <2>2, Zenon DEF IInv, State, PairInv
    <3> QED  BY <1>24, <2>1, <3>1, <3>2, Zenon
  <2>3. CASE <<q, j>> = up
    <3>1. q = u /\ j = k /\ r = p
      BY <1>12, <1>29, <2>1, <2>3
    <3> QED  BY <1>11, <1>14, <1>16, <2>1, <3>1
  <2>4. CASE <<r, j>> = up /\ <<q, j>> \in F
    <3>1. r = u /\ j = k
      BY <1>12, <2>4
    <3>2. q \in Nat /\ Multiple(q, Size[j])
      BY <1>9, <2>4, PagesNat, SMTT(60) DEF Tiling
    <3>3. find_buddy(r, j) = q
      BY <2>1, <3>2, Halved
    <3>4. q = p
      BY <1>29, <3>1, <3>3
    <3> QED  BY <1>11, <1>16, <2>4, <3>1, <3>4, Zenon
  <2> QED  BY <2>1, <2>2, <2>3, <2>4
<1> QED  BY <1>21, <1>22, <1>23, <1>25, <1>26, <1>28, <1>30, Zenon DEF State

LEMMA MergeKeeps == ASSUME IInv, Merge PROVE State' /\ Unseen
<1>1. PICK p : p = page
  OBVIOUS
<1>2. PICK o : o = cur
  OBVIOUS
<1>3. PICK q : q = find_buddy(p, o)
  OBVIOUS
<1>4. PICK l : l = IF q < p THEN q ELSE p
  OBVIOUS
<1>5. /\ pc = "merge" /\ CanMerge(page, cur)
      /\ free_area' = list_del(free_area, o, q)
      /\ flags' = [flags EXCEPT ![q] = {}]
      /\ page' = l /\ cur' = o + 1
      /\ order' = [order EXCEPT ![q] = -1, ![l] = o + 1]
      /\ UNCHANGED <<free_page_count, held, pc, want>>
  BY <1>1, <1>2, <1>3, <1>4, Zenon DEF Merge
<1>6. PICK F : F = Blocks(free_area)
  OBVIOUS
<1>7. PICK b : b = <<page, cur>>
  BY Zenon
<1>8. PICK h : h = held
  OBVIOUS
<1>9. PICK U : U = Covered(F \cup {b})
  OBVIOUS
<1>10. /\ p \in Pages /\ p \in Nat /\ o \in Orders /\ b \in Nat \X Orders
       /\ Multiple(p, Size[o]) /\ Ours = F \cup {b} /\ NotAdded = {}
       /\ b \notin F /\ b \notin h /\ h \cap F = {}
       /\ F \subseteq Pages \X Orders /\ h \subseteq Pages \X Orders
       /\ \A c \in F \cup h : c[1] \in Pages /\ c[1] # p
       /\ Tiling(F \cup {b} \cup h, Managed) /\ Tiling(F \cup {b}, U) /\ U \subseteq Managed
       /\ free_page_count = Cardinality(U)
  BY <1>1, <1>2, <1>5, <1>6, <1>7, <1>8, <1>9, InHand, Zenon
<1>11. PICK d : d = <<q, o>>
  BY Zenon
<1>12. q \in Pages /\ d \in F /\ q \in Nat /\ o < MAX_ORDER
  BY <1>1, <1>2, <1>3, <1>5, <1>6, <1>11, MergesWithListed, PagesNat, Zenon DEF CanMerge
<1>13. o + 1 \in Orders /\ Size[o] \in Nat /\ Size[o] >= 1 /\ o \in Nat /\ Size[o + 1] = 2 * Size[o]
  BY <1>10, <1>12, Sizes, Zenon
<1>14. PICK m : m = <<l, o + 1>>
  BY Zenon
<1>15. /\ l \in Nat /\ l \in Pages /\ l \in {p, q} /\ Multiple(l, Size[o + 1])
       /\ {b, d} = {<<l, o>>, <<l + Size[o], o>>} /\ q # p
  <2>1. CASE q = p + Size[o] /\ Multiple(p, Size[o + 1])
    <3>1. l = p
      BY <1>4, <1>10, <1>12, <1>13, <2>1
    <3> QED  BY <1>1, <1>2, <1>7, <1>10, <1>11, <1>13, <2>1, <3>1, SMTT(60)
  <2>2. CASE q = p - Size[o] /\ Multiple(q, Size[o + 1])
    <3>1. l = q /\ p = q + Size[o]
      BY <1>4, <1>10, <1>12, <1>13, <2>2, SMTT(60)
    <3> QED  BY <1>1, <1>2, <1>7, <1>10, <1>11, <1>12, <1>13, <2>2, <3>1, Zenon
  <2> QED  BY <1>3, <1>10, <1>12, <2>1, <2>2, Halved, SMTT(60)
<1>16. Tiling({m}, Extent(m)) /\ Tiling({b, d}, Extent(m))
  BY <1>10, <1>12, <1>14, <1>15, Facts, Halves, Zenon
<1>17. AreaOK(free_area') /\ Blocks(free_area') = F \ {d}
  BY <1>5, <1>6, <1>10, <1>11, <1>12, Facts, ListDel, Zenon DEF Types
<1>18. InFlight' = {m} /\ NotAdded' = {} /\ Ours' = (F \ {d}) \cup {m}
  BY <1>5, <1>14, <1>17 DEF InFlight, NotAdded, Ours
<1>19. m \notin F \ {d} /\ m \notin h
  <2>1. m # b /\ p \in Extent(b) /\ p \in Extent(m)
    <3>1. m # b
      BY <1>2, <1>7, <1>13, <1>14
    <3>2. p \in Extent(b)
      BY <1>1, <1>2, <1>7, <1>10, Within
    <3>3. p \in Extent(m)
      BY <1>16, <3>2 DEF Tiling
    <3> QED  BY <3>1, <3>2, <3>3
  <2>2. m \notin F \cup {b} \cup h
    BY <1>10, <2>1, Overlap
  <2> QED  BY <2>2
<1>20. Tiling((F \ {d}) \cup {m}, U)
  <2>1. ((F \cup {b}) \ {b, d}) \cup {m} = (F \ {d}) \cup {m}
    BY <1>10, Zenon
  <2>2. {b, d} \in SUBSET (F \cup {b})
    BY <1>12
  <2>3. Tiling(((F \cup {b}) \ {b, d}) \cup {m}, U)
    BY <1>10, <1>16, <2>2, Retile, Zenon
  <2> QED  BY <2>1, <2>3
<1>21. Tiling((F \ {d}) \cup {m} \cup h, Managed)
  <2>1. ((F \cup {b} \cup h) \ {b, d}) \cup {m} = (F \ {d}) \cup {m} \cup h
    BY <1>10, <1>12
  <2>2. {b, d} \in SUBSET (F \cup {b} \cup h)
    BY <1>12
  <2>3. Tiling(((F \cup {b} \cup h) \ {b, d}) \cup {m}, Managed)
    BY <1>10, <1>16, <2>2, Retile, Zenon
  <2> QED  BY <2>1, <2>3
<1>22. TileInv'
  <2>1. Managed \ {} = Managed
    OBVIOUS
  <2> QED  BY <1>5, <1>8, <1>18, <1>21, <2>1, Zenon DEF TileInv, Managed, first_free
<1>23. OnceInv'
  BY <1>5, <1>8, <1>10, <1>17, <1>18, <1>19, Zenon DEF OnceInv
<1>24. CountInv' /\ Unseen
  <2>1. Covered((F \ {d}) \cup {m}) = U
    BY <1>20, SamePages
  <2> QED  BY <1>5, <1>9, <1>10, <1>18, <2>1, Zenon DEF CountInv, Unseen, Unheld
<1>25. \A x \in Pages : flags'[x] = IF x = q THEN {} ELSE flags[x]
  BY <1>5, Facts, Zenon DEF Types
<1>26. /\ \A x \in Pages : x # p /\ x # q => order'[x] = order[x]
       /\ order'[l] = o + 1 /\ order' \in [Pages -> Orders \cup {-1}]
  BY <1>5, <1>12, <1>13, <1>15, Facts, Zenon DEF Types
<1>27. Types'
  <2>1. flags' \in [Pages -> SUBSET {"FREE", "HEAD", "USED", "RESERVED"}]
    BY <1>5, Facts, Zenon DEF Types
  <2> QED  BY <1>5, <1>13, <1>15, <1>17, <1>26, <2>1, Facts, Zenon DEF Types
<1>28. BootInv'
  BY <1>5 DEF BootInv
<1>29. \A c \in (F \ {d}) \cup h : c[1] \in Pages /\ c[1] # p /\ c[1] # q
  <2> TAKE c \in (F \ {d}) \cup h
  <2>1. c # d /\ c \in F \cup {b} \cup h /\ d \in F \cup {b} \cup h
    BY <1>10, <1>12
  <2>2. c[1] # d[1]
    BY <1>10, <2>1, Tiles, Zenon
  <2> QED  BY <1>10, <1>11, <2>2, Zenon
<1>30. MarkInv'
  <2>1. \A c \in F : order[c[1]] = c[2]
    BY <1>6, Zenon DEF IInv, State, MarkInv
  <2>2. \A c \in F \ {d} : order'[c[1]] = c[2]
    BY <1>26, <1>29, <2>1
  <2>3. \A c \in h : flags[c[1]] = PG_USED_HEAD /\ order[c[1]] = c[2]
    BY <1>8 DEF IInv, State, MarkInv
  <2>4. \A c \in h : flags'[c[1]] = PG_USED_HEAD /\ order'[c[1]] = c[2]
    BY <1>25, <1>26, <1>29, <2>3, Zenon
  <2>5. \A x \in Pages : x < first_free => "FREE" \notin flags'[x]
    BY <1>25, Zenon DEF IInv, State, MarkInv
  <2> QED  BY <1>5, <1>8, <1>17, <1>26, <2>2, <2>4, <2>5, Zenon DEF MarkInv, first_free
<1>31. PairInv'
  <2> SUFFICES ASSUME NEW j \in Orders, NEW x \in Pages, j < MAX_ORDER,
                      <<x, j>> \in F \ {d}, <<find_buddy(x, j), j>> \in F \ {d}
               PROVE  "FREE" \notin flags'[x] \/ "FREE" \notin flags'[find_buddy(x, j)]
    BY <1>17, Zenon DEF PairInv, find_buddy
  <2>1. PICK r : r = find_buddy(x, j)
    OBVIOUS
  <2>2. r \in Pages
    BY <1>29, <2>1
  <2>3. "FREE" \notin flags[x] \/ "FREE" \notin flags[r]
    BY <1>6, <2>1, Zenon DEF IInv, State, PairInv
  <2> QED  BY <1>25, <2>1, <2>2, <2>3, Zenon
<1> QED  BY <1>22, <1>23, <1>24, <1>27, <1>28, <1>30, <1>31, Zenon DEF State

LEMMA FreeDoneKeeps == ASSUME IInv, FreeDone PROVE State' /\ Unseen
<1>1. /\ pc = "merge" /\ ~CanMerge(page, cur)
      /\ free_area' = list_add(free_area, cur, page)
      /\ pc' = "ready"
      /\ UNCHANGED <<flags, order, free_page_count, held, page, cur, want>>
  BY DEF FreeDone
<1>2. PICK F : F = Blocks(free_area)
  OBVIOUS
<1>3. PICK b : b = <<page, cur>>
  BY Zenon
<1>4. /\ page \in Pages /\ page \in Nat /\ cur \in Orders
      /\ Multiple(page, Size[cur]) /\ Ours = F \cup {b} /\ NotAdded = {} /\ b \notin F /\ b \notin held
      /\ F \subseteq Pages \X Orders /\ Tiling(F \cup {b}, Covered(F \cup {b}))
      /\ held \cap F = {}
  BY <1>1, <1>2, <1>3, InHand, Zenon
<1>5. AreaOK(free_area') /\ Blocks(free_area') = F \cup {b}
  BY <1>1, <1>2, <1>3, <1>4, Facts, ListAdd, Zenon DEF Types
<1>6. InFlight' = {} /\ NotAdded' = {} /\ Ours' = F \cup {b}
  BY <1>1, <1>5 DEF InFlight, NotAdded, Ours
<1>7. TileInv' /\ CountInv' /\ Unseen
  BY <1>1, <1>4, <1>6, Zenon DEF IInv, State, TileInv, CountInv, Unseen, Unheld, Managed, first_free
<1>8. OnceInv' /\ BootInv'
  BY <1>1, <1>4, <1>6, Zenon DEF OnceInv, BootInv
<1>9. Types'
  BY <1>1, <1>5, Facts, Zenon DEF Types
<1>10. \A c \in F \cup {b} : order[c[1]] = c[2]
  <2>1. (\A c \in F : order[c[1]] = c[2]) /\ order[page] = cur
    BY <1>1, <1>2, Zenon DEF IInv, State, MarkInv
  <2>2. b[1] = page /\ b[2] = cur
    BY <1>3, Zenon
  <2> QED  BY <2>1, <2>2, Zenon
<1>11. MarkInv'
  BY <1>1, <1>5, <1>10, Zenon DEF IInv, State, MarkInv, first_free
<1>12. ASSUME cur < MAX_ORDER, <<find_buddy(page, cur), cur>> \in F
       PROVE  "FREE" \notin flags[find_buddy(page, cur)]
  <2>1. PICK q : q = find_buddy(page, cur)
    OBVIOUS
  <2>2. q \in Pages /\ order[q] = cur
    BY <1>4, <1>10, <1>12, <2>1
  <2> QED  BY <1>1, <1>12, <2>1, <2>2, Zenon DEF CanMerge
<1>13. PairInv'
  <2> SUFFICES ASSUME NEW j \in Orders, NEW x \in Pages, j < MAX_ORDER,
                      <<x, j>> \in F \cup {b}, <<find_buddy(x, j), j>> \in F \cup {b}
               PROVE  "FREE" \notin flags[x] \/ "FREE" \notin flags[find_buddy(x, j)]
    BY <1>1, <1>5, Zenon DEF PairInv, find_buddy
  <2>1. PICK r : r = find_buddy(x, j)
    OBVIOUS
  <2>2. x \in Nat /\ Multiple(x, Size[j])
    BY <1>4, PagesNat DEF Tiling
  <2>3. r # x /\ find_buddy(r, j) = x
    BY <2>1, <2>2, Sizes, Halved, SMTT(60)
  <2>4. CASE <<x, j>> \in F /\ <<r, j>> \in F
    BY <1>2, <2>1, <2>4, Zenon DEF IInv, State, PairInv
  <2>5. CASE <<x, j>> = b
    <3>1. x = page /\ j = cur
      BY <1>3, <2>5
    <3>2. <<r, j>> \in F
      BY <1>3, <2>1, <2>3, <3>1
    <3> QED  BY <1>12, <2>1, <3>1, <3>2
  <2>6. CASE <<r, j>> = b /\ <<x, j>> \in F
    <3>1. r = page /\ j = cur /\ x = find_buddy(page, cur)
      BY <1>3, <2>3, <2>6
    <3> QED  BY <1>12, <2>6, <3>1
  <2> QED  BY <2>1, <2>4, <2>5, <2>6, Zenon
<1> QED  BY <1>7, <1>8, <1>9, <1>11, <1>13, Zenon DEF State

LEMMA InitState == ASSUME Counting, Init PROVE IInv /\ Unheld = Managed
<1>1. /\ flags = [p \in Pages |-> IF p < first_free THEN {"RESERVED"} ELSE {}]
      /\ order = [p \in Pages |-> -1]
      /\ free_area = [o \in Orders |-> << >>]
      /\ free_page_count = 0
      /\ held = {}
      /\ pc = "boot" /\ page = first_free /\ cur = 0 /\ want = 0
  BY DEF Init
<1>2. 0 \in Orders /\ first_free \in Nat
  BY Sizes, ManagedPages DEF Orders
<1>3. AreaOK(free_area) /\ Blocks(free_area) = {}
  <2>1. << >> \in Seq(Pages) /\ Distinct(<< >>) /\ Members(<< >>) = {}
    BY DEF Distinct, Members
  <2> QED  BY <1>1, <2>1 DEF AreaOK, Blocks
<1>4. InFlight = {} /\ Ours = {} /\ NotAdded = Managed
  BY <1>1, <1>3 DEF InFlight, Ours, NotAdded, Managed
<1>5. Types
  BY <1>1, <1>2, <1>3 DEF Types
<1>6. Tiling({}, {}) /\ Covered({}) = {}
  BY Zenon DEF Tiling, Covered
<1>7. TileInv /\ OnceInv /\ BootInv /\ PairInv
  <2>1. Managed \ Managed = {}
    OBVIOUS
  <2> QED  BY <1>1, <1>3, <1>4, <1>6, <2>1, Zenon DEF TileInv, OnceInv, BootInv, PairInv
<1>8. MarkInv
  BY <1>1, <1>3 DEF MarkInv
<1>9. CountInv
  BY <1>1, <1>4, <1>6, Zenon DEF CountInv, Counting, Arithmetic, SetsCount
<1>10. Unheld = Managed
  BY <1>4, <1>6 DEF Unheld
<1> QED  BY <1>5, <1>7, <1>8, <1>9, <1>10, Zenon DEF IInv, State

(* A step of the allocator, as its callers see it.                         *)
Visible ==
    \/ Unseen
    \/ \E b \in Pages \X Orders :
          \/ /\ Extent(b) \subseteq Unheld /\ Unheld' = Unheld \ Extent(b)
             /\ held' = held \cup {b}
          \/ b \in held /\ Unheld' = Unheld \cup Extent(b) /\ held' = held \ {b}

LEMMA StepKeeps == ASSUME IInv, [Next]_vars PROVE IInv' /\ Visible
<1>1. Counting' <=> Counting
  BY Zenon DEF Counting, Arithmetic, WellOrdered, SetsCount, IntervalsCount
<1>2. Counting
  BY DEF IInv
<1>3. CASE UNCHANGED vars
  <2>1. UNCHANGED <<flags, order, free_area, free_page_count, held, pc, page, cur, want>>
    BY <1>3 DEF vars, mem
  <2>2. InFlight' = InFlight /\ NotAdded' = NotAdded /\ Ours' = Ours
    BY <2>1 DEF InFlight, NotAdded, Ours
  <2>3. Types' /\ TileInv' /\ OnceInv' /\ CountInv'
    BY <2>1, <2>2, Zenon DEF IInv, State, Types, TileInv, OnceInv, CountInv
  <2>4. BootInv' /\ MarkInv' /\ PairInv'
    BY <2>1, Zenon DEF IInv, State, BootInv, MarkInv, PairInv
  <2>5. Unseen
    BY <2>1, <2>2, Zenon DEF Unseen, Unheld
  <2> QED  BY <1>1, <1>2, <2>3, <2>4, <2>5, Zenon DEF IInv, State, Visible
<1>4. CASE Next
  <2>1. CASE AddBlock \/ InitDone \/ Split \/ Merge \/ FreeDone
    BY <2>1, AddBlockKeeps, InitDoneKeeps, SplitKeeps, MergeKeeps, FreeDoneKeeps, <1>1, <1>2
       DEF IInv, Visible
  <2>2. CASE \E o \in Orders : AllocPages(o)
    BY <2>2, AllocPagesKeeps, <1>1, <1>2 DEF IInv, Visible
  <2>3. CASE AllocDone
    BY <2>3, AllocDoneKeeps, <1>1, <1>2, Zenon DEF IInv, Visible
  <2>4. CASE \E b \in held : FreePages(b)
    <3>1. PICK b \in held : FreePages(b)
      BY <2>4
    <3>2. b \in Pages \X Orders
      BY Facts DEF Types
    <3>3. State' /\ Unheld' = Unheld \cup Extent(b) /\ held' = held \ {b}
      BY <3>1, FreePagesKeeps
    <3> QED  BY <1>1, <1>2, <3>2, <3>3, Zenon DEF IInv, Visible
  <2> QED  BY <1>4, <2>1, <2>2, <2>3, <2>4, Zenon DEF Next
<1> QED  BY <1>3, <1>4

(* The properties' own words for the free blocks.                          *)
LEMMA FreeBlocksAre ==
    ASSUME IInv
    PROVE  /\ FreeBlocks = Blocks(free_area) /\ FreeBlocks \cup InFlight = Ours
           /\ AllBlocks = Ours \cup held
           /\ \A o \in Orders : Listed(o) = Members(free_area[o])
           /\ \A p, o : <<p, o>> \in Blocks(free_area) <=> o \in Orders /\ p \in Listed(o)
<1>1. \A o : Listed(o) = Members(free_area[o])
  BY DEF Listed, Members
<1>2. \A o \in Orders : Listed(o) \subseteq Pages
  <2> TAKE o \in Orders
  <2>1. free_area[o] \in Seq(Pages)
    BY Facts DEF Types, AreaOK
  <2> QED  BY <2>1 DEF Listed
<1>3. \A p, o : <<p, o>> \in Blocks(free_area) <=> o \in Orders /\ p \in Listed(o)
  BY <1>1, <1>2 DEF Blocks
<1>4. \A b : b \in FreeBlocks <=> \E o \in Orders : \E p \in Listed(o) : b = <<p, o>>
  <2>1. ASSUME NEW b \in FreeBlocks PROVE \E o \in Orders : \E p \in Listed(o) : b = <<p, o>>
    <3>1. PICK o \in Orders : b \in {<<p, o>> : p \in Listed(o)}
      BY DEF FreeBlocks
    <3> QED  BY <3>1
  <2>2. ASSUME NEW o \in Orders, NEW p \in Listed(o) PROVE <<p, o>> \in FreeBlocks
    <3>1. <<p, o>> \in {<<q, o>> : q \in Listed(o)}
      OBVIOUS
    <3> QED  BY <3>1 DEF FreeBlocks
  <2> QED  BY <2>1, <2>2
<1>5. \A b \in Blocks(free_area) : \E p, o : b = <<p, o>>
  BY DEF Blocks
<1>6. FreeBlocks = Blocks(free_area)
  BY <1>3, <1>4, <1>5
<1> QED  BY <1>1, <1>3, <1>6 DEF AllBlocks, Ours

FreeIsUnheld == NotAdded \cup UNION {Extent(b) : b \in FreeBlocks \cup InFlight} = Unheld

LEMMA CoverIs == IInv => FreeIsUnheld
BY FreeBlocksAre, Zenon DEF FreeIsUnheld, Unheld, Covered

INSTANCE NumbersProofs

LEMMA Invariance == Spec => []IInv
<1>1. Init => IInv
  BY InitState, ArithmeticHolds, IntervalsCountHolds DEF Counting
<1>2. IInv /\ [Next]_vars => IInv'
  BY StepKeeps
<1> QED  BY <1>1, <1>2, PTL DEF Spec

(* For any memory and any orders: the flags, orders and free lists of      *)
(* page_alloc.c stay well formed, no page is twice on a list, and          *)
(* free_page_count never runs below zero or above the number of pages.     *)
THEOREM BuddyTypes == Spec => []TypeOK
<1>1. IInv => TypeOK
  <2> SUFFICES ASSUME IInv PROVE TypeOK
    OBVIOUS
  <2>1. Types
    BY Facts
  <2>2. ASSUME NEW o \in Orders
        PROVE  free_area[o] \in Seq(Pages) /\ Cardinality(Listed(o)) = Len(free_area[o])
    <3>1. PICK q : q = free_area[o]
      OBVIOUS
    <3>2. q \in Seq(Pages) /\ Distinct(q)
      BY <2>1, <3>1 DEF Types, AreaOK
    <3>3. Cardinality(Members(q)) = Len(q)
      BY <3>2, ListsCountHolds, Zenon DEF ListsCount, Distinct, Members
    <3> QED  BY <3>1, <3>2, <3>3, FreeBlocksAre
  <2>3. free_page_count \in 0 .. END - START
    <3>1. PICK T : T = Covered(Ours)
      OBVIOUS
    <3>2. free_page_count = Cardinality(T)
      BY <3>1 DEF IInv, State, CountInv
    <3>3. T \subseteq START .. END - 1
      BY <3>1, Facts, ManagedPages, Zenon DEF Pages
    <3>4. CASE END = START
      <4>1. T = {}
        BY <3>3, <3>4, BuddyAssumption
      <4>2. Cardinality(T) = 0
        BY <4>1, Zenon DEF IInv, Counting, Arithmetic, SetsCount
      <4> QED  BY <3>2, <3>4, <4>2, BuddyAssumption
    <3>5. CASE END # START
      <4>1. START \in Nat /\ END - 1 \in Nat /\ START <= (END - 1) + 1
        BY <3>5, BuddyAssumption
      <4>2. Cardinality(T) \in Nat /\ Cardinality(T) <= (END - 1) + 1 - START
        BY <3>3, <4>1, RangesBoundHolds, Zenon DEF RangesBound
      <4> QED  BY <3>2, <4>2, BuddyAssumption
    <3> QED  BY <3>4, <3>5
  <2>4. DOMAIN free_area = Orders
    BY <2>1 DEF Types, AreaOK
  <2> QED  BY <2>1, <2>2, <2>3, <2>4, Zenon DEF TypeOK, Types
<1> QED  BY <1>1, Invariance, PTL

(* For any memory and any orders: no page is in two blocks, so alloc_pages *)
(* never hands out a page twice; blocks stay aligned to their size, and    *)
(* what a caller holds keeps its marks until the caller frees it.          *)
THEOREM NoPageInTwoBlocks == Spec => []BlocksDisjoint
<1>1. IInv => BlocksDisjoint
  <2> SUFFICES ASSUME IInv PROVE BlocksDisjoint
    OBVIOUS
  <2>1. AllBlocks = Ours \cup held
    BY FreeBlocksAre
  <2>2. Tiling(Ours \cup held, Managed \ NotAdded)
    BY Facts
  <2>3. \A b, c \in AllBlocks : b # c => Extent(b) \cap Extent(c) = {}
    BY <2>1, <2>2, Zenon DEF Tiling
  <2>4. \A b \in AllBlocks : b[1] % Size[b[2]] = 0
    <3> TAKE b \in AllBlocks
    <3>1. PICK p \in Nat, o \in Orders : b = <<p, o>>
      BY <2>1, <2>2 DEF Tiling
    <3>2. Multiple(p, Size[o])
      BY <2>1, <2>2, <3>1 DEF Tiling
    <3> QED  BY <3>1, <3>2, Sizes, Aligned
  <2>5. \A b \in held : flags[b[1]] = PG_USED_HEAD /\ order[b[1]] = b[2]
    BY DEF IInv, State, MarkInv
  <2> QED  BY <2>3, <2>4, <2>5, Zenon DEF BlocksDisjoint
<1> QED  BY <1>1, Invariance, PTL

(* For any memory and any orders: no sequence of splits and merges loses a *)
(* page, and between calls free_page_count is exact.                       *)
THEOREM EveryPageKept == Spec => []NoPageLost
<1>1. IInv => NoPageLost
  <2> SUFFICES ASSUME IInv PROVE NoPageLost
    OBVIOUS
  <2>1. AllBlocks = Ours \cup held /\ FreeBlocks = Blocks(free_area)
    BY FreeBlocksAre
  <2>2. Managed \ NotAdded = Covered(AllBlocks)
    BY <2>1, Facts, SamePages
  <2>3. NotAdded \subseteq Managed
    <3>1. CASE pc = "boot"
      <4>1. page \in Nat /\ first_free <= page /\ first_free \in Nat /\ END \in Nat
        BY <3>1, Facts, PagesNat, ManagedPages, BuddyAssumption, Zenon DEF Types
      <4> QED  BY <3>1, <4>1 DEF NotAdded, Managed
    <3> QED  BY <3>1 DEF NotAdded
  <2>4. Managed = NotAdded \cup UNION {Extent(b) : b \in AllBlocks}
    BY <2>2, <2>3 DEF Covered
  <2>5. ASSUME pc = "ready"
        PROVE  free_page_count = Cardinality(UNION {Extent(b) : b \in FreeBlocks})
    <3>1. Ours = FreeBlocks
      BY <2>1, <2>5 DEF Ours, InFlight
    <3> QED  BY <3>1 DEF IInv, State, CountInv, Covered
  <2> QED  BY <2>4, <2>5 DEF NoPageLost, Managed
<1> QED  BY <1>1, Invariance, PTL

(* For any memory and any orders: free_pages only merges with a block that *)
(* is on the free list, whatever stale flags it meets, and leaves two free *)
(* buddies apart only where one has lost its PG_FREE.                      *)
THEOREM MergeFindsFreeBuddy == Spec => []MergesListedBlock
<1>1. IInv => MergesListedBlock
  <2> SUFFICES ASSUME IInv PROVE MergesListedBlock
    OBVIOUS
  <2>1. \A p, o : <<p, o>> \in Blocks(free_area) <=> o \in Orders /\ p \in Listed(o)
    BY FreeBlocksAre, Zenon
  <2>2. ASSUME pc = "merge", CanMerge(page, cur) PROVE find_buddy(page, cur) \in Listed(cur)
    BY <2>1, <2>2, MergesWithListed
  <2>3. ASSUME NEW o \in 0 .. MAX_ORDER - 1, NEW p \in Listed(o), find_buddy(p, o) \in Listed(o)
        PROVE  \E h \in {p, find_buddy(p, o)} : "FREE" \notin flags[h]
    <3>1. o \in Orders /\ o < MAX_ORDER
      BY Sizes DEF Orders
    <3>2. <<p, o>> \in Blocks(free_area) /\ <<find_buddy(p, o), o>> \in Blocks(free_area)
      BY <2>1, <2>3, <3>1
    <3>3. p \in Pages
      BY <3>2 DEF Blocks
    <3>4. "FREE" \notin flags[p] \/ "FREE" \notin flags[find_buddy(p, o)]
      BY <3>1, <3>2, <3>3, Zenon DEF IInv, State, PairInv
    <3> QED  BY <3>4, Zenon
  <2> QED  BY <2>2, <2>3, Zenon DEF MergesListedBlock
<1> QED  BY <1>1, Invariance, PTL

(* For any memory and any orders: to its callers the allocator is the pool *)
(* of PagePool.  A block leaves the pool at the end of alloc_pages and     *)
(* comes back at the start of free_pages; no split or merge shows.         *)
THEOREM AllocatorImplementsPool == Spec => ImplementsPool
<1>1. Init => Pool!PoolInit
  <2> SUFFICES ASSUME Init PROVE Pool!PoolInit
    OBVIOUS
  <2>1. IInv /\ Unheld = Managed
    BY InitState, ArithmeticHolds, IntervalsCountHolds DEF Counting
  <2>2. held = {}
    BY DEF Init
  <2> QED  BY <2>1, <2>2, CoverIs DEF FreeIsUnheld, Pool!PoolInit, Managed
<1>2. IInv /\ FreeIsUnheld /\ FreeIsUnheld' /\ [Next]_vars => [Pool!PoolNext]_(Pool!poolVars)
  <2> SUFFICES ASSUME IInv, FreeIsUnheld, FreeIsUnheld', [Next]_vars
               PROVE  [Pool!PoolNext]_(Pool!poolVars)
    OBVIOUS
  <2>1. Visible
    BY StepKeeps
  <2>2. NotAdded \cup UNION {Extent(b) : b \in FreeBlocks \cup InFlight} = Unheld
    BY DEF FreeIsUnheld
  <2>3. (NotAdded \cup UNION {Extent(b) : b \in FreeBlocks \cup InFlight})' = Unheld'
    BY DEF FreeIsUnheld
  <2>4. CASE Unseen
    BY <2>2, <2>3, <2>4 DEF Unseen, Pool!poolVars
  <2>5. ASSUME NEW b \in Pages \X Orders, Extent(b) \subseteq Unheld,
               Unheld' = Unheld \ Extent(b), held' = held \cup {b}
        PROVE  Pool!PoolNext
    BY <2>2, <2>3, <2>5, Zenon DEF Pool!PoolNext, Pool!Give
  <2>6. ASSUME NEW b \in Pages \X Orders, b \in held,
               Unheld' = Unheld \cup Extent(b), held' = held \ {b}
        PROVE  Pool!PoolNext
    BY <2>2, <2>3, <2>6, Zenon DEF Pool!PoolNext, Pool!TakeBack
  <2> QED  BY <2>1, <2>4, <2>5, <2>6 DEF Visible
<1> QED  BY <1>1, <1>2, CoverIs, Invariance, PTL DEF Spec, ImplementsPool, Pool!PoolSpec
=============================================================================
