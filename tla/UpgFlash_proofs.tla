-------------------------- MODULE UpgFlash_proofs ---------------------------
(***************************************************************************)
(* Proofs about writeDataToNand (UpgFlash) and the partition write below   *)
(* it (NandPart), for every geometry, request, set of bad blocks and       *)
(* number of failing driver calls.                                         *)
(*                                                                         *)
(* A block under way is followed page by page: Geometry has the locals of  *)
(* the write, Filled what its bytes are.  ImageInv, RestInv and TailInv    *)
(* say of the whole partition where the image is so far, and what else is  *)
(* as it was; Shifted, that a write which lost a head puts no image byte   *)
(* in the column it is read from; UpgInv has the progress of the check.    *)
(* Addresses are compared through LogIn, the offset that an address has    *)
(* when only good blocks count.                                            *)
(***************************************************************************)
EXTENDS UpgFlash, FiniteSetTheorems, SequenceTheorems, WellFoundedInduction, TLAPS

(***************************************************************************)
(* Blocks and pages.                                                       *)
(***************************************************************************)
Col(a)   == a % EraseSize
PgCol(a) == a % WriteSize

LEMMA DivInt == ASSUME NEW k \in Nat \ {0}, NEW o \in Nat PROVE o \div k \in Int
OBVIOUS

LEMMA ModRange == ASSUME NEW k \in Nat \ {0}, NEW o \in Nat PROVE o % k \in 0 .. k - 1
OBVIOUS

LEMMA DivMod ==
  ASSUME NEW k \in Nat \ {0}, NEW o \in Nat
  PROVE  o % k = o - k * (o \div k)
BY DivInt

LEMMA DivUnique ==
  ASSUME NEW k \in Nat \ {0}, NEW q \in Nat, NEW r \in 0 .. k - 1
  PROVE  (k * q + r) \div k = q
OBVIOUS

LEMMA DivNat == ASSUME NEW k \in Nat \ {0}, NEW o \in Nat PROVE o \div k \in Nat
<1> DEFINE q == o \div k
           m == o % k
<1>1. q \in Int /\ m \in 0 .. k - 1 /\ m = o - k * q
  BY DivInt, ModRange, DivMod
<1> HIDE DEF q, m
<1>2. ASSUME q < 0 PROVE FALSE
  <2>1. k * q <= 0 - k
    BY <1>1, <1>2
  <2> QED BY <1>1, <2>1
<1>3. q \in Nat
  BY <1>1, <1>2
<1> QED BY <1>3 DEF q

\* Division with remainder: the quotient is known by the remainder.
LEMMA Divides ==
  ASSUME NEW k \in Nat, k > 0, NEW o \in Nat
  PROVE  /\ o \div k \in Nat /\ o % k \in Nat /\ o % k < k
         /\ o = (o \div k) * k + (o % k)
         /\ \A q \in Nat, r \in Nat : r < k /\ o = q * k + r => o \div k = q /\ o % k = r
<1> DEFINE d == o \div k
           m == o % k
<1>0. k \in Nat \ {0}
  OBVIOUS
<1>1. d \in Nat /\ m \in 0 .. k - 1 /\ m = o - k * d
  BY <1>0, DivNat, ModRange, DivMod
<1>2. ASSUME NEW q \in Nat, NEW r \in Nat, r < k, o = q * k + r PROVE d = q /\ m = r
  <2>1. r \in 0 .. k - 1
    BY <1>2
  <2>2. (k * q + r) \div k = q
    BY <1>0, <2>1, DivUnique
  <2>3. k * q = q * k
    BY <1>0
  <2>4. d = q
    BY <1>2, <2>2, <2>3
  <2> HIDE DEF d, m
  <2>5. m = o - k * q
    BY <1>1, <2>4
  <2>6. q * k \in Nat
    BY <1>0
  <2> QED BY <1>2, <2>3, <2>4, <2>5, <2>6
<1> HIDE DEF d, m
<1>3. k * d = d * k /\ d * k \in Nat
  BY <1>1
<1>4. m \in Nat /\ m < k /\ o = d * k + m
  BY <1>1, <1>3
<1> QED BY <1>1, <1>2, <1>4 DEF d, m

LEMMA Products ==
  ASSUME NEW k \in Nat, NEW a \in Nat, NEW b \in Nat
  PROVE  /\ a * k \in Nat /\ (a + b) * k = a * k + b * k /\ (a + 1) * k = a * k + k
         /\ a <= b => a * k <= b * k
         /\ a < b => a * k + k <= b * k
<1>1. a * k \in Nat /\ (a + b) * k = a * k + b * k /\ (a + 1) * k = a * k + k
  OBVIOUS
<1>2. ASSUME NEW x \in Nat, NEW y \in Nat, x <= y PROVE x * k <= y * k
  <2>1. PICK d \in Nat : y = x + d
    <3>1. y - x \in Nat /\ y = x + (y - x)
      BY <1>2
    <3> QED BY <3>1
  <2>2. y * k = x * k + d * k /\ d * k \in Nat /\ x * k \in Nat
    BY <2>1
  <2> QED BY <2>2
<1>3. a < b => (a + 1) * k <= b * k
  <2>1. a + 1 \in Nat /\ (a < b => a + 1 <= b)
    OBVIOUS
  <2> QED BY <1>2, <2>1
<1> QED BY <1>1, <1>2, <1>3

LEMMA Sizes ==
  /\ EraseSize \in Nat /\ EraseSize > 0 /\ WriteSize \in Nat /\ WriteSize > 0
  /\ WriteSize <= EraseSize /\ PagesPerBlock \in Nat /\ EraseSize = PagesPerBlock * WriteSize
  /\ NumBlocks \in Nat /\ NumBlocks > 0 /\ Size \in Nat /\ Size >= EraseSize
  /\ Size = NumBlocks * EraseSize
<1> DEFINE s == WriteSize
           p == PagesPerBlock
           n == NumBlocks
           e == EraseSize
<1>1. s \in Nat \ {0} /\ p \in Nat \ {0} /\ n \in Nat \ {0}
  BY GeometryAssumption
<1>2. e = s * p /\ Size = n * e
  BY DEF EraseSize, Size
<1> HIDE DEF s, p, n, e
<1>3. e = p * s /\ e \in Nat
  BY <1>1, <1>2
<1>4. 0 < p /\ 0 < n /\ 0 * s = 0 /\ 0 * e = 0 /\ 0 \in Nat
  BY <1>1, <1>3
<1>5. 0 * s + s <= p * s
  BY <1>1, <1>4, Products
<1>6. n * e \in Nat /\ 0 * e + e <= n * e
  BY <1>1, <1>3, <1>4, Products
<1>7. s \in Nat /\ s > 0 /\ p \in Nat /\ n \in Nat /\ n > 0
  BY <1>1
<1>8. s <= e /\ e > 0
  BY <1>3, <1>4, <1>5, <1>7
<1>9. Size \in Nat /\ Size >= e
  BY <1>2, <1>3, <1>4, <1>6
<1> QED BY <1>2, <1>3, <1>7, <1>8, <1>9 DEF s, p, n, e

\* An address is in the block it is in.
LEMMA BlockFacts ==
  ASSUME NEW a \in Nat
  PROVE  /\ BlockOf(a) \in Nat /\ BlockStart(a) \in Nat
         /\ BlockStart(a) = BlockOf(a) * EraseSize
         /\ BlockStart(a) <= a /\ a < BlockStart(a) + EraseSize
         /\ Col(a) \in Nat /\ Col(a) < EraseSize /\ Col(a) = a - BlockStart(a)
         /\ a = BlockStart(a) + Col(a)
<1> DEFINE q == BlockOf(a)
           r == Col(a)
           s == BlockStart(a)
<1>1. q \in Nat /\ r \in Nat /\ r < EraseSize /\ a = q * EraseSize + r
  BY Sizes, Divides DEF BlockOf, Col
<1>2. s = q * EraseSize
  BY DEF BlockStart
<1> HIDE DEF q, r, s
<1>3. s \in Nat
  BY <1>1, <1>2, Sizes, Products
<1>4. a = s + r
  BY <1>1, <1>2
<1>5. s <= a /\ a < s + EraseSize /\ r = a - s
  BY <1>1, <1>3, <1>4, Sizes
<1> QED BY <1>1, <1>2, <1>3, <1>4, <1>5 DEF q, r, s

\* The block of an address is the one it is within.
LEMMA InBlock ==
  ASSUME NEW q \in Nat, NEW r \in Nat, r < EraseSize
  PROVE  /\ q * EraseSize \in Nat /\ q * EraseSize + r \in Nat
         /\ BlockOf(q * EraseSize + r) = q /\ Col(q * EraseSize + r) = r
<1> DEFINE a == q * EraseSize + r
<1>1. q * EraseSize \in Nat
  BY Sizes, Products
<1>2. a \in Nat
  BY <1>1
<1>3. a \div EraseSize = q /\ a % EraseSize = r
  BY <1>2, Sizes, Divides
<1> QED BY <1>1, <1>2, <1>3 DEF BlockOf, Col

LEMMA SameBlock ==
  ASSUME NEW b \in Nat, Col(b) = 0, NEW a \in Nat, b <= a, a < b + EraseSize
  PROVE  /\ BlockStart(a) = b /\ BlockOf(a) = BlockOf(b) /\ Col(a) = a - b
         /\ BlockStart(b) = b
<1>1. BlockOf(b) \in Nat /\ BlockStart(b) = b /\ b = BlockOf(b) * EraseSize
  BY BlockFacts
<1> DEFINE r == a - b
           q == BlockOf(b)
<1>2. r \in Nat /\ r < EraseSize /\ a = b + r
  BY Sizes
<1>3. a = q * EraseSize + r
  BY <1>1, <1>2
<1>4. BlockOf(a) = q /\ Col(a) = r
  <2> HIDE DEF r, q
  <2>1. q \in Nat
    BY <1>1 DEF q
  <2> QED BY <1>2, <1>3, <2>1, InBlock
<1>5. BlockStart(a) = b
  BY <1>1, <1>4 DEF BlockStart
<1> QED BY <1>1, <1>4, <1>5

\* One block on.
LEMMA BlockAfter ==
  ASSUME NEW a \in Nat
  PROVE  /\ BlockOf(a + EraseSize) = BlockOf(a) + 1 /\ Col(a + EraseSize) = Col(a)
         /\ BlockStart(a + EraseSize) = BlockStart(a) + EraseSize
         /\ a + EraseSize \in Nat
<1> DEFINE q == BlockOf(a)
           r == Col(a)
<1>1. q \in Nat /\ r \in Nat /\ r < EraseSize /\ a = q * EraseSize + r /\ BlockStart(a) = q * EraseSize
  BY BlockFacts
<1> HIDE DEF q, r
<1>2. q + 1 \in Nat /\ (q + 1) * EraseSize = q * EraseSize + EraseSize /\ q * EraseSize \in Nat
  BY <1>1, Sizes, Products
<1>3. a + EraseSize = (q + 1) * EraseSize + r /\ a + EraseSize \in Nat
  BY <1>1, <1>2, Sizes
<1>4. BlockOf(a + EraseSize) = q + 1 /\ Col(a + EraseSize) = r
  BY <1>1, <1>2, <1>3, InBlock
<1>5. BlockStart(a + EraseSize) = q * EraseSize + EraseSize
  BY <1>2, <1>4 DEF BlockStart
<1> QED BY <1>1, <1>3, <1>4, <1>5 DEF q, r

LEMMA StartsApart ==
  ASSUME NEW q \in Nat, NEW p \in Nat
  PROVE  q < p => q * EraseSize + EraseSize <= p * EraseSize
BY Sizes, Products

\* Blocks are in the order of their addresses, and the partition is whole blocks.
LEMMA BlockOrder ==
  ASSUME NEW a \in Nat, NEW b \in Nat
  PROVE  /\ a <= b => BlockOf(a) <= BlockOf(b) /\ BlockStart(a) <= BlockStart(b)
         /\ BlockOf(a) < BlockOf(b) => BlockStart(a) + EraseSize <= BlockStart(b) /\ a < b
         /\ BlockOf(a) = BlockOf(b) => BlockStart(a) = BlockStart(b)
<1>1. /\ BlockOf(a) \in Nat /\ BlockOf(b) \in Nat /\ BlockStart(a) \in Nat /\ BlockStart(b) \in Nat
      /\ BlockStart(a) = BlockOf(a) * EraseSize /\ BlockStart(b) = BlockOf(b) * EraseSize
      /\ BlockStart(a) <= a /\ a < BlockStart(a) + EraseSize
      /\ BlockStart(b) <= b /\ b < BlockStart(b) + EraseSize
  BY BlockFacts
<1>2. BlockOf(a) < BlockOf(b) => BlockStart(a) + EraseSize <= BlockStart(b)
  BY <1>1, StartsApart
<1>3. BlockOf(b) < BlockOf(a) => BlockStart(b) + EraseSize <= BlockStart(a)
  BY <1>1, StartsApart
<1>4. BlockOf(a) = BlockOf(b) => BlockStart(a) = BlockStart(b)
  BY <1>1
<1>5. BlockOf(a) < BlockOf(b) \/ BlockOf(a) = BlockOf(b) \/ BlockOf(b) < BlockOf(a)
  BY <1>1
<1> HIDE DEF BlockOf, BlockStart
<1> QED BY <1>1, <1>2, <1>3, <1>4, <1>5, Sizes

LEMMA BlockInside ==
  ASSUME NEW a \in Nat
  PROVE  /\ a < Size => /\ a \in Addr /\ BlockOf(a) \in Blocks /\ BlockOf(a) < NumBlocks
                        /\ BlockStart(a) + EraseSize <= Size /\ BlockStart(a) < Size
                        /\ BlockStart(a) \in Addr
         /\ a >= Size => BlockOf(a) >= NumBlocks
         /\ BlockOf(a) < NumBlocks => a < Size
         /\ BlockStart(a) >= Size => BlockOf(a) >= NumBlocks
<1> DEFINE q == BlockOf(a)
           s == BlockStart(a)
<1>1. /\ q \in Nat /\ s \in Nat /\ s = q * EraseSize /\ s <= a /\ a < s + EraseSize
  BY BlockFacts
<1> HIDE DEF q, s
<1>2. q < NumBlocks => s + EraseSize <= Size
  BY <1>1, Sizes, Products
<1>3. NumBlocks <= q => Size <= s
  BY <1>1, Sizes, Products
<1>4. q < NumBlocks \/ NumBlocks <= q
  BY <1>1, Sizes
<1>5. ASSUME a < Size PROVE q < NumBlocks /\ s + EraseSize <= Size /\ s < Size
  BY <1>1, <1>2, <1>3, <1>4, <1>5, Sizes
<1>6. a >= Size => q >= NumBlocks
  BY <1>1, <1>2, <1>4, Sizes
<1>7. q < NumBlocks => a < Size
  BY <1>1, <1>2, Sizes
<1>8. s >= Size => q >= NumBlocks
  BY <1>1, <1>2, <1>4, Sizes
<1>9. a < Size => a \in Addr /\ s \in Addr /\ q \in Blocks
  BY <1>1, <1>5, Sizes DEF Addr, Blocks
<1> QED BY <1>5, <1>6, <1>7, <1>8, <1>9 DEF q, s

\* A block is whole pages.
LEMMA PageFacts ==
  ASSUME NEW b \in Nat, Col(b) = 0
  PROVE  /\ PgCol(b) = 0
         /\ \A p \in Nat : PgCol(p) = 0 /\ p < b + EraseSize => p + WriteSize <= b + EraseSize
<1> DEFINE q == BlockOf(b)
           n == q * PagesPerBlock
<1>1. q \in Nat /\ b = q * EraseSize
  BY BlockFacts
<1> HIDE DEF q
<1>2. n \in Nat
  BY <1>1, Sizes, Products
<1>3. b = n * WriteSize
  <2> DEFINE k == PagesPerBlock
             s == WriteSize
  <2>1. k \in Nat /\ s \in Nat /\ b = q * (k * s)
    BY <1>1, Sizes
  <2> HIDE DEF k, s
  <2>2. q * (k * s) = (q * k) * s
    BY <1>1, <2>1
  <2> QED BY <2>1, <2>2 DEF k, s
<1> HIDE DEF n
<1>4. PgCol(b) = 0
  <2>1. b = n * WriteSize + 0 /\ 0 \in Nat /\ 0 < WriteSize
    BY <1>1, <1>2, <1>3, Sizes
  <2> QED BY <1>2, <2>1, Sizes, Divides DEF PgCol
<1>5. b + EraseSize = (n + PagesPerBlock) * WriteSize /\ n + PagesPerBlock \in Nat
  BY <1>2, <1>3, Sizes, Products
<1>6. ASSUME NEW p \in Nat, PgCol(p) = 0, p < b + EraseSize
      PROVE  p + WriteSize <= b + EraseSize
  <2> DEFINE m == p \div WriteSize
             e == n + PagesPerBlock
  <2>1. m \in Nat /\ p = m * WriteSize + 0 /\ m * WriteSize \in Nat
    BY <1>6, Sizes, Divides, Products DEF PgCol
  <2>2. e \in Nat /\ b + EraseSize = e * WriteSize
    BY <1>5
  <2> HIDE DEF m, e
  <2>3. e <= m => e * WriteSize <= m * WriteSize
    BY <2>1, <2>2, Sizes, Products
  <2>4. m < e => m * WriteSize + WriteSize <= e * WriteSize
    BY <2>1, <2>2, Sizes, Products
  <2>5. e \in Nat /\ e * WriteSize \in Nat
    BY <2>2, Sizes, Products
  <2> QED BY <1>6, <2>1, <2>2, <2>3, <2>4, <2>5, Sizes
<1> QED BY <1>4, <1>6

LEMMA PageAfter ==
  ASSUME NEW p \in Nat, PgCol(p) = 0
  PROVE  /\ PgCol(p + WriteSize) = 0 /\ p + WriteSize \in Nat
         /\ \A a, b \in Nat : p <= a /\ a < p + WriteSize /\ b \div WriteSize > a \div WriteSize
              => b >= p + WriteSize
         /\ \A a \in Nat : p <= a /\ a < p + WriteSize => PgCol(a) = a - p
<1> DEFINE m == p \div WriteSize
<1>1. m \in Nat /\ p = m * WriteSize + 0 /\ m * WriteSize \in Nat
  BY Sizes, Divides, Products DEF PgCol
<1> HIDE DEF m
<1>2. p + WriteSize = (m + 1) * WriteSize + 0 /\ m + 1 \in Nat
  BY <1>1, Sizes, Products
<1>3. p + WriteSize \in Nat
  BY Sizes
<1>4. PgCol(p + WriteSize) = 0
  BY <1>2, <1>3, Sizes, Divides DEF PgCol
<1>5. ASSUME NEW a \in Nat, p <= a, a < p + WriteSize
      PROVE  a \div WriteSize = m /\ PgCol(a) = a - p
  <2> DEFINE r == a - p
  <2>1. r \in Nat /\ r < WriteSize /\ a = m * WriteSize + r
    BY <1>1, <1>5, Sizes
  <2> HIDE DEF r
  <2>2. a \div WriteSize = m /\ a % WriteSize = r
    BY <1>1, <2>1, Sizes, Divides
  <2> QED BY <2>2 DEF PgCol, r
<1>6. ASSUME NEW a \in Nat, NEW b \in Nat, p <= a, a < p + WriteSize,
             b \div WriteSize > a \div WriteSize
      PROVE  b >= p + WriteSize
  <2> DEFINE d == b \div WriteSize
             r == b % WriteSize
  <2>1. d \in Nat /\ r \in Nat /\ b = d * WriteSize + r /\ d > m
    BY <1>5, <1>6, Sizes, Divides
  <2> HIDE DEF d, r
  <2>2. m * WriteSize + WriteSize <= d * WriteSize /\ d * WriteSize \in Nat
    BY <1>1, <2>1, Sizes, Products
  <2> QED BY <1>1, <2>1, <2>2, Sizes
<1> QED BY <1>3, <1>4, <1>5, <1>6

(***************************************************************************)
(* Where an address is in the partition: how many good blocks are before   *)
(* its block.                                                              *)
(***************************************************************************)
RankIn(G, b) == Cardinality({c \in G : c < b})
NthIn(G, k)  == CHOOSE b \in G : RankIn(G, b) = k
LogIn(B, a)  == RankIn(Blocks \ B, BlockOf(a)) * EraseSize + Col(a)   \* B are bad

\* A set of numbers that is not empty has a least one.
LEMMA Least ==
  ASSUME NEW T, T \subseteq Nat, T # {}
  PROVE  \E m \in T : \A y \in T : m <= y
<1>1. PICK m \in T : \A y \in T : ~(<<y, m>> \in OpToRel(<, Nat))
  BY NatLessThanWellFounded, WFMin
<1>2. ASSUME NEW y \in T PROVE m <= y
  <2>1. ~(y < m)
    BY <1>1 DEF OpToRel
  <2> QED BY <2>1
<1> QED BY <1>2

\* A set of numbers that holds 0 and the successor of each up to n holds those
\* up to n.
LEMMA UpTo ==
  ASSUME NEW n \in Nat, NEW S, 0 \in S, \A i \in 1 .. n : i - 1 \in S => i \in S
  PROVE  \A i \in 0 .. n : i \in S
<1> DEFINE T == (0 .. n) \ S
<1> SUFFICES ASSUME T # {} PROVE FALSE
  OBVIOUS
<1>1. T \subseteq Nat
  OBVIOUS
<1>2. PICK m \in T : \A y \in T : m <= y
  BY <1>1, Least
<1>3. m # 0 /\ m \in 1 .. n /\ m - 1 \in 0 .. n /\ ~(m <= m - 1)
  OBVIOUS
<1>4. m - 1 \in S
  BY <1>2, <1>3
<1> QED BY <1>3, <1>4

LEMMA RankFinite ==
  ASSUME NEW G, G \subseteq Blocks, NEW b
  PROVE  /\ IsFiniteSet(G) /\ Cardinality(G) \in Nat /\ G \subseteq Int
         /\ RankIn(G, b) \in Nat /\ RankIn(G, b) <= Cardinality(G)
         /\ IsFiniteSet({c \in G : c < b})
<1>1. IsFiniteSet(Blocks) /\ Blocks \subseteq Int
  BY Sizes, FS_Interval DEF Blocks
<1>2. IsFiniteSet(G) /\ G \subseteq Int
  BY <1>1, FS_Subset
<1>3. {c \in G : c < b} \subseteq G
  OBVIOUS
<1>4. IsFiniteSet({c \in G : c < b}) /\ Cardinality({c \in G : c < b}) <= Cardinality(G)
  BY <1>2, <1>3, FS_Subset
<1> QED BY <1>2, <1>4, FS_CardinalityType DEF RankIn

LEMMA RankStep ==
  ASSUME NEW G, G \subseteq Blocks, NEW b \in Nat
  PROVE  /\ b \in G => RankIn(G, b + 1) = RankIn(G, b) + 1
         /\ b \notin G => RankIn(G, b + 1) = RankIn(G, b)
<1> DEFINE S(x) == {c \in G : c < x}
<1>0. \A x \in G : x < b + 1 <=> x < b \/ x = b
  <2>1. \A x \in Int : x < b + 1 <=> x < b \/ x = b
    OBVIOUS
  <2> QED BY <2>1, RankFinite
<1>1. ASSUME b \in G PROVE RankIn(G, b + 1) = RankIn(G, b) + 1
  <2>1. S(b + 1) = S(b) \cup {b}
    BY <1>0, <1>1, Zenon
  <2>2. b \notin S(b) /\ IsFiniteSet(S(b))
    <3>1. ~(b < b)
      OBVIOUS
    <3>2. IsFiniteSet(S(b))
      BY RankFinite, Zenon
    <3> QED BY <3>1, <3>2
  <2>3. Cardinality(S(b) \cup {b}) = Cardinality(S(b)) + 1
    BY <2>2, FS_AddElement
  <2> QED BY <2>1, <2>3 DEF RankIn
<1>2. ASSUME b \notin G PROVE RankIn(G, b + 1) = RankIn(G, b)
  <2>1. S(b + 1) = S(b)
    BY <1>0, <1>2, Zenon
  <2> QED BY <2>1 DEF RankIn
<1> QED BY <1>1, <1>2

LEMMA RankGrows ==
  ASSUME NEW G, G \subseteq Blocks, NEW b \in Nat, NEW c \in Nat
  PROVE  /\ b <= c => RankIn(G, b) <= RankIn(G, c)
         /\ b \in G /\ b < c => RankIn(G, b) + 1 <= RankIn(G, c)
<1>1. ASSUME NEW x \in Nat, NEW y \in Nat, x <= y PROVE RankIn(G, x) <= RankIn(G, y)
  <2>1. \A d \in G : d < x => d < y
    <3>1. \A d \in Int : d < x => d < y
      BY <1>1
    <3> QED BY <3>1, RankFinite
  <2>2. {d \in G : d < x} \subseteq {d \in G : d < y}
    BY <2>1
  <2> QED BY <2>2, RankFinite, FS_Subset DEF RankIn
<1>2. ASSUME b \in G, b < c PROVE RankIn(G, b) + 1 <= RankIn(G, c)
  <2>1. b + 1 \in Nat /\ b + 1 <= c
    BY <1>2
  <2>2. RankIn(G, b + 1) <= RankIn(G, c)
    BY <1>1, <2>1
  <2> QED BY <1>2, <2>2, RankStep
<1> QED BY <1>1, <1>2

LEMMA RankEnds ==
  ASSUME NEW G, G \subseteq Blocks
  PROVE  /\ RankIn(G, 0) = 0
         /\ \A b \in Nat : b >= NumBlocks => RankIn(G, b) = Cardinality(G)
<1>1. \A c \in G : ~(c < 0) /\ \A b \in Nat : b >= NumBlocks => c < b
  BY Sizes DEF Blocks
<1>2. {c \in G : c < 0} = {}
  BY <1>1
<1>3. RankIn(G, 0) = 0
  BY <1>2, FS_EmptySet DEF RankIn
<1>4. ASSUME NEW b \in Nat, b >= NumBlocks PROVE RankIn(G, b) = Cardinality(G)
  <2>1. {c \in G : c < b} = G
    BY <1>1, <1>4
  <2> QED BY <2>1 DEF RankIn
<1> QED BY <1>3, <1>4

LEMMA RankUnique ==
  ASSUME NEW G, G \subseteq Blocks, NEW b \in G, NEW c \in G, RankIn(G, b) = RankIn(G, c)
  PROVE  b = c
<1>1. b \in Nat /\ c \in Nat
  BY Sizes DEF Blocks
<1>2. /\ b < c => RankIn(G, b) + 1 <= RankIn(G, c)
      /\ c < b => RankIn(G, c) + 1 <= RankIn(G, b)
      /\ RankIn(G, b) \in Nat
  BY <1>1, RankGrows, RankFinite
<1>3. ~(b < c) /\ ~(c < b)
  BY <1>2
<1> QED BY <1>1, <1>3

\* Each of as many numbers as there are good blocks is that of one.
LEMMA NthFacts ==
  ASSUME NEW G, G \subseteq Blocks
  PROVE  /\ \A k \in Nat : k < Cardinality(G) => NthIn(G, k) \in G /\ RankIn(G, NthIn(G, k)) = k
         /\ \A b \in G : NthIn(G, RankIn(G, b)) = b
<1> DEFINE S == {n \in Nat : \A k \in Nat : k < RankIn(G, n) => \E b \in G : RankIn(G, b) = k}
<1>1. 0 \in S
  BY RankEnds
<1>2. ASSUME NEW i \in 1 .. NumBlocks, i - 1 \in S PROVE i \in S
  <2>1. i - 1 \in Nat /\ (i - 1) + 1 = i /\ i \in Nat
    OBVIOUS
  <2>2. ASSUME NEW k \in Nat, k < RankIn(G, i) PROVE \E b \in G : RankIn(G, b) = k
    <3>1. CASE i - 1 \in G
      <4>1. RankIn(G, i) = RankIn(G, i - 1) + 1 /\ RankIn(G, i - 1) \in Nat
        BY <2>1, <3>1, RankStep, RankFinite
      <4>2. k < RankIn(G, i - 1) \/ k = RankIn(G, i - 1)
        BY <2>2, <4>1
      <4> QED BY <1>2, <3>1, <4>2
    <3>2. CASE i - 1 \notin G
      <4>1. RankIn(G, i) = RankIn(G, i - 1)
        BY <2>1, <3>2, RankStep
      <4> QED BY <1>2, <2>2, <4>1
    <3> QED BY <3>1, <3>2
  <2> QED BY <2>1, <2>2
<1> HIDE DEF S
<1>3. NumBlocks \in S
  <2>1. NumBlocks \in Nat /\ NumBlocks \in 0 .. NumBlocks
    BY Sizes
  <2>2. \A i \in 0 .. NumBlocks : i \in S
    BY <1>1, <1>2, <2>1, UpTo
  <2> QED BY <2>1, <2>2
<1>4. ASSUME NEW k \in Nat, k < Cardinality(G) PROVE NthIn(G, k) \in G /\ RankIn(G, NthIn(G, k)) = k
  <2>1. RankIn(G, NumBlocks) = Cardinality(G)
    BY Sizes, RankEnds
  <2>2. \E b \in G : RankIn(G, b) = k
    BY <1>3, <1>4, <2>1 DEF S
  <2> QED BY <2>2 DEF NthIn
<1>5. ASSUME NEW b \in G PROVE NthIn(G, RankIn(G, b)) = b
  <2>1. \E c \in G : RankIn(G, c) = RankIn(G, b)
    OBVIOUS
  <2>2. NthIn(G, RankIn(G, b)) \in G /\ RankIn(G, NthIn(G, RankIn(G, b))) = RankIn(G, b)
    BY <2>1 DEF NthIn
  <2> QED BY <2>2, RankUnique
<1> QED BY <1>4, <1>5

\* A block that becomes bad changes nothing for those up to it.
LEMMA RankWithout ==
  ASSUME NEW G, G \subseteq Blocks, NEW c \in Nat, NEW b \in Nat
  PROVE  /\ b <= c => RankIn(G \ {c}, b) = RankIn(G, b)
         /\ c <= b => RankIn(G \ {c}, b) >= RankIn(G, c)
         /\ Cardinality(G \ {c}) >= RankIn(G, c)
<1> DEFINE H == G \ {c}
<1>0. H \subseteq Blocks
  OBVIOUS
<1>1. ASSUME NEW x \in Nat, x <= c PROVE RankIn(H, x) = RankIn(G, x)
  <2>1. \A d \in G : d < x => d # c
    <3>1. \A d \in Int : d < x => d # c
      BY <1>1
    <3> QED BY <3>1, RankFinite
  <2>2. {d \in H : d < x} = {d \in G : d < x}
    BY <2>1
  <2> QED BY <2>2 DEF RankIn
<1>2. RankIn(H, c) = RankIn(G, c)
  BY <1>1
<1>3. c <= b => RankIn(H, b) >= RankIn(H, c)
  BY <1>0, RankGrows, RankFinite
<1>4. RankIn(H, c) <= Cardinality(H)
  BY <1>0, RankFinite
<1>5. RankIn(H, b) \in Nat /\ RankIn(H, c) \in Nat /\ Cardinality(H) \in Nat
  BY <1>0, RankFinite
<1> HIDE DEF H
<1>6. (c <= b => RankIn(H, b) >= RankIn(G, c)) /\ Cardinality(H) >= RankIn(G, c)
  BY <1>2, <1>3, <1>4, <1>5
<1> QED BY <1>1, <1>6 DEF H

LEMMA LogFacts ==
  ASSUME NEW B, NEW a \in Nat
  PROVE  /\ LogIn(B, a) \in Nat /\ Col(LogIn(B, a)) = Col(a)
         /\ BlockOf(LogIn(B, a)) = RankIn(Blocks \ B, BlockOf(a))
         /\ BlockStart(LogIn(B, a)) = RankIn(Blocks \ B, BlockOf(a)) * EraseSize
         /\ BlockStart(LogIn(B, a)) + Col(a) = LogIn(B, a)
         /\ a < Size /\ BlockOf(a) \notin B =>
              LogIn(B, a) < Cardinality(Blocks \ B) * EraseSize
<1> DEFINE G == Blocks \ B
           k == RankIn(G, BlockOf(a))
           r == Col(a)
           n == Cardinality(G)
<1>1. r \in Nat /\ r < EraseSize /\ BlockOf(a) \in Nat
  BY BlockFacts
<1>2. k \in Nat /\ n \in Nat /\ G \subseteq Blocks
  BY RankFinite
<1>3. LogIn(B, a) = k * EraseSize + r
  BY DEF LogIn
<1>4. a < Size /\ BlockOf(a) \notin B => k + 1 <= n
  <2> HIDE DEF G
  <2> SUFFICES ASSUME a < Size, BlockOf(a) \notin B PROVE k + 1 <= n
    OBVIOUS
  <2>1. BlockOf(a) \in G /\ BlockOf(a) < NumBlocks
    BY BlockInside DEF G
  <2>2. NumBlocks \in Nat
    BY Sizes
  <2>3. k + 1 <= RankIn(G, NumBlocks)
    BY <1>1, <1>2, <2>1, <2>2, RankGrows
  <2> QED BY <1>2, <2>2, <2>3, RankEnds
<1> HIDE DEF G, k, r, n
<1>5. k < n => k * EraseSize + EraseSize <= n * EraseSize
  BY <1>2, StartsApart
<1>6. k * EraseSize \in Nat /\ n * EraseSize \in Nat
  BY <1>2, Sizes, Products
<1>7. a < Size /\ BlockOf(a) \notin B => k * EraseSize + r < n * EraseSize
  BY <1>1, <1>2, <1>4, <1>5, <1>6, Sizes
<1>8. BlockOf(k * EraseSize + r) = k /\ Col(k * EraseSize + r) = r
  BY <1>1, <1>2, InBlock
<1>9. BlockStart(k * EraseSize + r) = k * EraseSize
  BY <1>8 DEF BlockStart
<1> QED BY <1>1, <1>3, <1>6, <1>7, <1>8, <1>9 DEF k, n, r, G

\* The address an offset stands for.
LEMMA LogPhys ==
  ASSUME NEW B, NEW o \in Nat, o < Cardinality(Blocks \ B) * EraseSize,
         NEW p, p = NthIn(Blocks \ B, BlockOf(o)) * EraseSize + Col(o)
  PROVE  /\ p \in Addr /\ p \in Nat /\ p < Size /\ BlockOf(p) \notin B /\ LogIn(B, p) = o
         /\ BlockOf(p) = NthIn(Blocks \ B, BlockOf(o)) /\ Col(p) = Col(o)
<1> DEFINE G == Blocks \ B
           q == BlockOf(o)
           r == Col(o)
           n == Cardinality(G)
           b == NthIn(G, q)
<1>1. q \in Nat /\ r \in Nat /\ r < EraseSize /\ o = q * EraseSize + r /\ q * EraseSize \in Nat
  BY BlockFacts
<1>2. n \in Nat /\ G \subseteq Blocks
  BY RankFinite
<1>3. q < n
  <2> HIDE DEF q, r, n, G
  <2>1. n <= q => n * EraseSize <= q * EraseSize
    BY <1>1, <1>2, Sizes, Products
  <2>2. n * EraseSize \in Nat /\ o < n * EraseSize
    BY <1>2, Sizes, Products DEF n, G
  <2> QED BY <1>1, <1>2, <2>1, <2>2
<1>4. b \in G /\ RankIn(G, b) = q
  <2> HIDE DEF G, q, n
  <2>1. q < Cardinality(G)
    BY <1>3 DEF n
  <2> QED BY <1>1, <1>2, <2>1, NthFacts
<1>5. b \in Nat /\ b < NumBlocks
  BY <1>4, Sizes DEF Blocks
<1>6. p = b * EraseSize + r
  OBVIOUS
<1> HIDE DEF b, r, q, n
<1>7. p \in Nat /\ BlockOf(p) = b /\ Col(p) = r
  BY <1>1, <1>5, <1>6, InBlock
<1>8. p < Size /\ p \in Addr
  BY <1>5, <1>7, BlockInside
<1>9. LogIn(B, p) = q * EraseSize + r
  BY <1>4, <1>7 DEF LogIn
<1> QED BY <1>1, <1>4, <1>7, <1>8, <1>9 DEF b, q, r

LEMMA LogOrder ==
  ASSUME NEW B, NEW a \in Nat, NEW b \in Nat
  PROVE  /\ BlockOf(a) = BlockOf(b) => LogIn(B, b) + a = LogIn(B, a) + b
         /\ a < b /\ a < Size /\ BlockOf(a) \notin B => LogIn(B, a) < LogIn(B, b)
<1> DEFINE G == Blocks \ B
           j == RankIn(G, BlockOf(a))
           k == RankIn(G, BlockOf(b))
<1>1. /\ Col(a) \in Nat /\ Col(a) < EraseSize /\ BlockOf(a) \in Nat /\ a = BlockStart(a) + Col(a)
      /\ Col(b) \in Nat /\ Col(b) < EraseSize /\ BlockOf(b) \in Nat /\ b = BlockStart(b) + Col(b)
      /\ BlockStart(a) \in Nat /\ BlockStart(b) \in Nat
  BY BlockFacts
<1>2. G \subseteq Blocks /\ j \in Nat /\ k \in Nat
  BY RankFinite
<1>3. LogIn(B, a) = j * EraseSize + Col(a) /\ LogIn(B, b) = k * EraseSize + Col(b)
  BY DEF LogIn
<1>4. j * EraseSize \in Nat /\ k * EraseSize \in Nat
  <2> HIDE DEF j, k
  <2> QED BY <1>2, Sizes, Products
<1>5. BlockOf(a) = BlockOf(b) => BlockStart(a) = BlockStart(b) /\ j = k
  BY BlockOrder
<1>6. BlockOf(a) = BlockOf(b) => LogIn(B, b) + a = LogIn(B, a) + b
  <2> HIDE DEF j, k
  <2> QED BY <1>1, <1>3, <1>4, <1>5
<1>7. ASSUME a < b, a < Size, BlockOf(a) \notin B PROVE LogIn(B, a) < LogIn(B, b)
  <2>1. BlockOf(a) <= BlockOf(b)
    BY <1>7, BlockOrder
  <2>2. CASE BlockOf(a) = BlockOf(b)
    <3> HIDE DEF j, k
    <3> QED BY <1>1, <1>3, <1>4, <1>5, <1>7, <2>2
  <2>3. CASE BlockOf(a) < BlockOf(b)
    <3>1. BlockOf(a) \in G
      BY <1>7, BlockInside
    <3>2. j + 1 <= k
      <4> HIDE DEF G
      <4> QED BY <1>1, <1>2, <2>3, <3>1, RankGrows
    <3> HIDE DEF j, k, G
    <3>3. j * EraseSize + EraseSize <= k * EraseSize
      BY <1>2, <3>2, StartsApart
    <3> QED BY <1>1, <1>3, <1>4, <3>3, Sizes
  <2> QED BY <1>1, <2>1, <2>2, <2>3
<1> QED BY <1>6, <1>7

LEMMA LogUnique ==
  ASSUME NEW B, NEW a \in Addr, NEW b \in Addr, BlockOf(a) \notin B, BlockOf(b) \notin B,
         LogIn(B, a) = LogIn(B, b)
  PROVE  a = b
<1>1. a \in Nat /\ b \in Nat /\ a < Size /\ b < Size
  BY Sizes DEF Addr
<1>2. ~(a < b) /\ ~(b < a)
  <2>1. LogIn(B, a) \in Nat
    BY <1>1, LogFacts
  <2>2. (a < b => LogIn(B, a) < LogIn(B, b)) /\ (b < a => LogIn(B, b) < LogIn(B, a))
    BY <1>1, LogOrder
  <2> QED BY <2>1, <2>2
<1> QED BY <1>1, <1>2

\* A bad block has no offsets of its own.
LEMMA LogAfter ==
  ASSUME NEW B, NEW a \in Nat, a < Size
  PROVE  /\ BlockOf(a) \in B => LogIn(B, a + EraseSize) = LogIn(B, a)
         /\ BlockOf(a) \notin B => LogIn(B, a + EraseSize) = LogIn(B, a) + EraseSize
<1> DEFINE G == Blocks \ B
           q == BlockOf(a)
           k == RankIn(G, q)
<1>1. q \in Nat /\ Col(a) \in Nat
  BY BlockFacts
<1>2. G \subseteq Blocks /\ k \in Nat
  BY RankFinite
<1>3. BlockOf(a + EraseSize) = q + 1 /\ Col(a + EraseSize) = Col(a)
  BY BlockAfter
<1>4. LogIn(B, a) = k * EraseSize + Col(a)
      /\ LogIn(B, a + EraseSize) = RankIn(G, q + 1) * EraseSize + Col(a)
  BY <1>3 DEF LogIn
<1>5. q \in Blocks
  BY BlockInside
<1>6. (q \in B => RankIn(G, q + 1) = k) /\ (q \notin B => RankIn(G, q + 1) = k + 1)
  BY <1>1, <1>2, <1>5, RankStep
<1> HIDE DEF G, q, k
<1>7. (k + 1) * EraseSize = k * EraseSize + EraseSize /\ k * EraseSize \in Nat
  BY <1>2, Sizes, Products
<1> QED BY <1>1, <1>4, <1>6, <1>7, Sizes DEF q

\* When a block becomes bad, addresses up to it keep their offsets, and those
\* behind get none before it.
LEMMA LogWithout ==
  ASSUME NEW B, NEW c \in Nat, NEW a \in Nat
  PROVE  /\ BlockOf(a) <= c => LogIn(B \cup {c}, a) = LogIn(B, a)
         /\ c <= BlockOf(a) => LogIn(B \cup {c}, a) >= RankIn(Blocks \ B, c) * EraseSize
         /\ Cardinality(Blocks \ (B \cup {c})) * EraseSize >= RankIn(Blocks \ B, c) * EraseSize
         /\ RankIn(Blocks \ B, c) \in Nat
<1> DEFINE G == Blocks \ B
           H == Blocks \ (B \cup {c})
           q == BlockOf(a)
           k == RankIn(G, c)
<1>1. q \in Nat /\ Col(a) \in Nat
  BY BlockFacts
<1>2. H = G \ {c} /\ G \subseteq Blocks /\ H \subseteq Blocks
  OBVIOUS
<1>3. k \in Nat /\ RankIn(H, q) \in Nat /\ Cardinality(H) \in Nat
  BY <1>2, RankFinite
<1>4. /\ q <= c => RankIn(H, q) = RankIn(G, q)
      /\ c <= q => RankIn(H, q) >= k
      /\ Cardinality(H) >= k
  BY <1>1, <1>2, RankWithout
<1>5. LogIn(B, a) = RankIn(G, q) * EraseSize + Col(a)
      /\ LogIn(B \cup {c}, a) = RankIn(H, q) * EraseSize + Col(a)
  BY DEF LogIn
<1> HIDE DEF G, H, q, k
<1>6. c <= q => RankIn(H, q) * EraseSize >= k * EraseSize
  BY <1>3, <1>4, Sizes, Products
<1>7. Cardinality(H) * EraseSize >= k * EraseSize
  BY <1>3, <1>4, Sizes, Products
<1>8. k * EraseSize \in Nat /\ RankIn(H, q) * EraseSize \in Nat
  BY <1>3, Sizes, Products
<1>9. c <= q => LogIn(B \cup {c}, a) >= k * EraseSize
  BY <1>1, <1>5, <1>6, <1>8
<1> QED BY <1>3, <1>4, <1>5, <1>7, <1>9 DEF G, H, q, k

(***************************************************************************)
(* The two loops.  Each pass has a greater offset, so both end.            *)
(***************************************************************************)
LEMMA SkipUnfold ==
  ASSUME NEW ofs \in Nat, NEW s \in Nat
  PROVE  Skip[<<ofs, s>>] =
           IF ofs < BlockStart(s) /\ ofs < Size
           THEN Skip[<<ofs + EraseSize, IF BlockOf(ofs) \in bad THEN s + EraseSize ELSE s>>]
           ELSE s
<1> DEFINE D == Nat \X Nat
           Go(x) == x[1] < BlockStart(x[2]) /\ x[1] < Size
           Nx(x) == <<x[1] + EraseSize, IF BlockOf(x[1]) \in bad THEN x[2] + EraseSize ELSE x[2]>>
           E(g, x) == IF Go(x) THEN g[Nx(x)] ELSE x[2]
           Is(g, m) == g = [x \in D |-> g[x]] /\ \A x \in D : x[1] + m >= Size => g[x] = E(g, x)
           S == {m \in Nat : \E g : Is(g, m)}
<1>1. 0 \in S
  <2> DEFINE g == [x \in D |-> x[2]]
  <2>1. ASSUME NEW x \in D, x[1] + 0 >= Size PROVE g[x] = E(g, x)
    <3>1. x[1] \in Nat /\ ~(x[1] < Size)
      BY <2>1, Sizes
    <3> QED BY <3>1
  <2>2. g = [x \in D |-> g[x]]
    OBVIOUS
  <2>3. Is(g, 0)
    BY <2>1, <2>2
  <2>4. \E h : Is(h, 0)
    BY <2>3
  <2> QED BY <2>4
<1>2. ASSUME NEW k \in 1 .. Size, k - 1 \in S PROVE k \in S
  <2>0. k \in Nat
    OBVIOUS
  <2>1. PICK g : Is(g, k - 1)
    BY <1>2
  <2> DEFINE h == [x \in D |-> E(g, x)]
  <2>2. h = [x \in D |-> h[x]]
    OBVIOUS
  <2>3. ASSUME NEW x \in D, x[1] + k >= Size PROVE h[x] = E(h, x)
    <3>1. h[x] = E(g, x)
      OBVIOUS
    <3>2. CASE ~Go(x)
      BY <3>1, <3>2
    <3>3. CASE Go(x)
      <4> DEFINE y == Nx(x)
      <4>1. x[1] \in Nat /\ x[2] \in Nat /\ x[1] + EraseSize \in Nat /\ x[2] + EraseSize \in Nat
        BY Sizes
      <4>2. y \in D /\ y[1] = x[1] + EraseSize
        BY <4>1
      <4> HIDE DEF y
      <4>3. y[1] + (k - 1) >= Size
        BY <2>0, <2>3, <4>1, <4>2, Sizes
      <4>4. g[y] = E(g, y)
        BY <2>1, <4>2, <4>3
      <4>5. h[y] = E(g, y)
        BY <4>2
      <4>6. h[x] = h[y]
        BY <3>1, <3>3, <4>4, <4>5 DEF y
      <4> QED BY <3>3, <4>6 DEF y
    <3> QED BY <3>2, <3>3
  <2>4. Is(h, k)
    BY <2>2, <2>3
  <2>5. \E f : Is(f, k)
    BY <2>4
  <2> QED BY <2>0, <2>5
<1>3. Size \in S
  <2> HIDE DEF S
  <2>1. Size \in Nat /\ Size \in 0 .. Size
    BY Sizes
  <2>2. \A i \in 0 .. Size : i \in S
    BY <1>1, <1>2, <2>1, UpTo
  <2> QED BY <2>1, <2>2
<1>4. PICK g : Is(g, Size)
  BY <1>3
<1>5. \A x \in D : g[x] = E(g, x)
  <2>1. \A x \in D : x[1] + Size >= Size
    BY Sizes
  <2> QED BY <1>4, <2>1
<1>6. g = [x \in D |-> E(g, x)]
  BY <1>4, <1>5
<1>7. Skip = [x \in D |-> E(Skip, x)]
  BY <1>6 DEF Skip
<1>8. <<ofs, s>> \in D
  OBVIOUS
<1>9. Skip[<<ofs, s>>] = E(Skip, <<ofs, s>>)
  <2> HIDE DEF E
  <2> QED BY <1>7, <1>8
<1> QED BY <1>9

LEMMA PieceFacts ==
  ASSUME NEW ofs \in Nat, NEW need \in Nat, need > 0
  PROVE  /\ Piece(ofs, need) \in Nat /\ Piece(ofs, need) > 0 /\ Piece(ofs, need) <= need
         /\ PgCol(ofs) \in Nat /\ PgCol(ofs) < WriteSize
         /\ Piece(ofs, need) = IF need >= WriteSize THEN WriteSize - PgCol(ofs) ELSE need
<1>1. PgCol(ofs) \in Nat /\ PgCol(ofs) < WriteSize
  BY Sizes, Divides DEF PgCol
<1>2. Piece(ofs, need) = IF need >= WriteSize THEN WriteSize - PgCol(ofs) ELSE need
  BY DEF Piece, PgCol
<1> QED BY <1>1, <1>2, Sizes

LEMMA PathUnfold ==
  ASSUME NEW ofs \in Nat, NEW need \in Nat
  PROVE  Path[<<ofs, need>>] =
           IF need = 0 \/ ofs >= Size THEN <<>>
           ELSE IF BlockOf(ofs) \in bad THEN Path[<<ofs + EraseSize, need>>]
           ELSE IF ofs + Piece(ofs, need) > Size THEN <<>>
           ELSE [i \in 1 .. Piece(ofs, need) |-> ofs + i - 1]
                  \o Path[<<ofs + Piece(ofs, need), need - Piece(ofs, need)>>]
<1> DEFINE D == Nat \X Nat
           N(x) == Piece(x[1], x[2])
           Stop(x) == x[2] = 0 \/ x[1] >= Size
           Hop(x) == <<x[1] + EraseSize, x[2]>>
           Nx(x) == <<x[1] + N(x), x[2] - N(x)>>
           Run(x) == [i \in 1 .. N(x) |-> x[1] + i - 1]
           E(g, x) == IF Stop(x) THEN <<>>
                      ELSE IF BlockOf(x[1]) \in bad THEN g[Hop(x)]
                      ELSE IF x[1] + N(x) > Size THEN <<>>
                      ELSE Run(x) \o g[Nx(x)]
           Is(g, m) == g = [x \in D |-> g[x]] /\ \A x \in D : x[1] + m >= Size => g[x] = E(g, x)
           S == {m \in Nat : \E g : Is(g, m)}
<1>1. 0 \in S
  <2> DEFINE g == [x \in D |-> <<>>]
  <2>1. ASSUME NEW x \in D, x[1] + 0 >= Size PROVE g[x] = E(g, x)
    <3>1. x[1] \in Nat /\ x[1] >= Size
      BY <2>1, Sizes
    <3> QED BY <3>1
  <2>2. g = [x \in D |-> g[x]]
    OBVIOUS
  <2>3. Is(g, 0)
    BY <2>1, <2>2
  <2>4. \E h : Is(h, 0)
    BY <2>3
  <2> QED BY <2>4
<1>2. ASSUME NEW k \in 1 .. Size, k - 1 \in S PROVE k \in S
  <2>0. k \in Nat
    OBVIOUS
  <2>1. PICK g : Is(g, k - 1)
    BY <1>2
  <2> DEFINE h == [x \in D |-> E(g, x)]
  <2>2. h = [x \in D |-> h[x]]
    OBVIOUS
  <2>3. ASSUME NEW x \in D, x[1] + k >= Size PROVE h[x] = E(h, x)
    <3>1. h[x] = E(g, x)
      OBVIOUS
    <3>2. x[1] \in Nat /\ x[2] \in Nat
      OBVIOUS
    <3>3. CASE Stop(x)
      BY <3>1, <3>3
    <3>4. CASE ~Stop(x)
      <4>0. x[2] > 0
        BY <3>2, <3>4
      <4>1. /\ N(x) \in Nat /\ N(x) > 0 /\ N(x) <= x[2]
        BY <3>2, <4>0, PieceFacts
      <4>2. ASSUME NEW y \in D, y[1] > x[1] PROVE h[y] = g[y]
        <5>1. y[1] + (k - 1) >= Size
          BY <2>0, <2>3, <3>2, <4>2, Sizes
        <5>2. g[y] = E(g, y)
          BY <2>1, <5>1
        <5> QED BY <5>2
      <4>3. Hop(x) \in D /\ Hop(x)[1] = x[1] + EraseSize /\ x[1] + EraseSize > x[1]
        BY <3>2, Sizes
      <4>4. Nx(x) \in D /\ Nx(x)[1] = x[1] + N(x) /\ x[1] + N(x) > x[1]
        <5> DEFINE n == N(x)
        <5>1. n \in Nat /\ n > 0 /\ n <= x[2]
          BY <4>1
        <5> HIDE DEF n
        <5>2. x[1] + n \in Nat /\ x[2] - n \in Nat /\ x[1] + n > x[1]
          BY <3>2, <5>1
        <5> QED BY <5>2 DEF n
      <4>5. h[Hop(x)] = g[Hop(x)] /\ h[Nx(x)] = g[Nx(x)]
        <5> HIDE DEF h, Hop, Nx
        <5>1. Hop(x)[1] > x[1] /\ Nx(x)[1] > x[1]
          BY <4>3, <4>4
        <5> QED BY <4>2, <4>3, <4>4, <5>1
      <4> HIDE DEF h, Hop, Nx, N, Run, Stop
      <4> QED BY <3>1, <4>5
    <3> QED BY <3>3, <3>4
  <2>4. Is(h, k)
    BY <2>2, <2>3
  <2>5. \E f : Is(f, k)
    BY <2>4
  <2> QED BY <2>0, <2>5
<1>3. Size \in S
  <2> HIDE DEF S
  <2>1. Size \in Nat /\ Size \in 0 .. Size
    BY Sizes
  <2>2. \A i \in 0 .. Size : i \in S
    BY <1>1, <1>2, <2>1, UpTo
  <2> QED BY <2>1, <2>2
<1>4. PICK g : Is(g, Size)
  BY <1>3
<1>5. \A x \in D : g[x] = E(g, x)
  <2>1. \A x \in D : x[1] + Size >= Size
    BY Sizes
  <2> QED BY <1>4, <2>1
<1>6. g = [x \in D |-> E(g, x)]
  BY <1>4, <1>5
<1>7. Path = [x \in D |-> E(Path, x)]
  BY <1>6 DEF Path
<1>8. <<ofs, need>> \in D
  OBVIOUS
<1>9. Path[<<ofs, need>>] = E(Path, <<ofs, need>>)
  <2> HIDE DEF E
  <2> QED BY <1>7, <1>8
<1> QED BY <1>9

\* The start moves by a block for each bad one in front of it.
Skipped(k, s, r, j) ==
  /\ j \in Nat /\ j <= NumBlocks /\ j <= BlockOf(r) /\ (j = BlockOf(r) \/ j = NumBlocks)
  /\ r \in Nat /\ Col(r) = Col(s)
  /\ BlockOf(r) + RankIn(Blocks \ bad, j) + k = BlockOf(s) + RankIn(Blocks \ bad, k) + j

LEMMA SkipPass ==
  ASSUME NEW k \in Nat, k <= NumBlocks, NEW s \in Nat, k <= BlockOf(s)
  PROVE  \E j : Skipped(k, s, Skip[<<k * EraseSize, s>>], j)
<1> DEFINE G == Blocks \ bad
           Holds(m) == \A x \in Nat : m <= BlockOf(x) => \E j : Skipped(m, x, Skip[<<m * EraseSize, x>>], j)
           S == {d \in 0 .. NumBlocks : Holds(NumBlocks - d)}
<1>0. NumBlocks \in Nat /\ G \subseteq Blocks
  BY Sizes
<1>1. ASSUME NEW m \in Nat, m <= NumBlocks, NEW x \in Nat, m <= BlockOf(x),
             m = NumBlocks \/ m = BlockOf(x)
      PROVE  \E j : Skipped(m, x, Skip[<<m * EraseSize, x>>], j)
  <2>1. m * EraseSize \in Nat
    BY Sizes, Products
  <2>2. ~(m * EraseSize < BlockStart(x) /\ m * EraseSize < Size)
    <3>1. CASE m = NumBlocks
      <4>1. m * EraseSize = Size
        BY <3>1, Sizes
      <4> QED BY <4>1, Sizes
    <3>2. CASE m = BlockOf(x)
      <4>1. m * EraseSize = BlockStart(x)
        BY <3>2 DEF BlockStart
      <4> QED BY <2>1, <4>1
    <3> QED BY <1>1, <3>1, <3>2
  <2>3. Skip[<<m * EraseSize, x>>] = x
    BY <2>1, <2>2, SkipUnfold
  <2>4. BlockOf(x) \in Nat /\ RankIn(G, m) \in Nat
    BY <1>0, BlockFacts, RankFinite
  <2>5. BlockOf(x) + RankIn(G, m) + m = BlockOf(x) + RankIn(G, m) + m
    OBVIOUS
  <2>6. Skipped(m, x, x, m)
    BY <1>1, <2>5 DEF Skipped
  <2> QED BY <2>3, <2>6
<1>2. 0 \in S
  <2>1. NumBlocks - 0 = NumBlocks /\ NumBlocks <= NumBlocks
    BY <1>0
  <2>2. Holds(NumBlocks)
    BY <1>0, <1>1, <2>1
  <2> QED BY <1>0, <2>1, <2>2
<1>3. ASSUME NEW d \in 1 .. NumBlocks, d - 1 \in S PROVE d \in S
  <2> DEFINE m == NumBlocks - d
  <2>1. m \in Nat /\ m < NumBlocks /\ NumBlocks - (d - 1) = m + 1 /\ m + 1 <= NumBlocks /\ m + 1 \in Nat
        /\ d \in 0 .. NumBlocks
    BY <1>0
  <2>2. Holds(m + 1)
    BY <1>3, <2>1
  <2> HIDE DEF m
  <2>3. ASSUME NEW x \in Nat, m <= BlockOf(x)
        PROVE  \E j : Skipped(m, x, Skip[<<m * EraseSize, x>>], j)
    <3>1. CASE m = BlockOf(x)
      <4>1. m <= NumBlocks
        BY <2>1, <1>0
      <4> QED BY <1>1, <2>1, <2>3, <3>1, <4>1
    <3>2. CASE m # BlockOf(x)
      <4> DEFINE z == IF m \in bad THEN x + EraseSize ELSE x
                 o == m * EraseSize
                 q == BlockOf(x)
      <4>1. q \in Nat /\ m < q
        <5>1. q \in Nat
          BY BlockFacts
        <5> QED BY <2>1, <2>3, <3>2, <5>1
      <4>2. o \in Nat /\ o < Size /\ o < BlockStart(x) /\ BlockOf(o) = m
        <5>1. o \in Nat /\ BlockOf(o + 0) = m
          BY <2>1, Sizes, InBlock
        <5>2. o + EraseSize <= NumBlocks * EraseSize
          BY <1>0, <2>1, StartsApart
        <5>3. o + EraseSize <= q * EraseSize
          BY <2>1, <4>1, StartsApart
        <5>4. BlockStart(x) = q * EraseSize /\ BlockStart(x) \in Nat
          BY BlockFacts
        <5> HIDE DEF o, q
        <5> QED BY <5>1, <5>2, <5>3, <5>4, Sizes
      <4>3. Skip[<<o, x>>] = Skip[<<o + EraseSize, z>>]
        BY <4>2, SkipUnfold
      <4>4. o + EraseSize = (m + 1) * EraseSize
        BY <2>1, Sizes, Products
      <4>5. /\ z \in Nat /\ Col(z) = Col(x)
            /\ BlockOf(z) = IF m \in bad THEN q + 1 ELSE q
        BY BlockAfter
      <4>6. m + 1 <= BlockOf(z)
        BY <2>1, <4>1, <4>5
      <4>7. PICK j : Skipped(m + 1, z, Skip[<<(m + 1) * EraseSize, z>>], j)
        <5> HIDE DEF z
        <5> QED BY <2>2, <4>5, <4>6
      <4> DEFINE r == Skip[<<o, x>>]
      <4>8. Skipped(m + 1, z, r, j)
        BY <4>3, <4>4, <4>7
      <4>9. m \in Blocks /\ (RankIn(G, m + 1) = IF m \in bad THEN RankIn(G, m) ELSE RankIn(G, m) + 1)
        <5>1. m \in Blocks
          BY <1>0, <2>1 DEF Blocks
        <5>2. m \in G <=> m \notin bad
          BY <5>1
        <5> HIDE DEF G
        <5> QED BY <1>0, <2>1, <5>1, <5>2, RankStep
      <4>10. Skipped(m, x, r, j)
        <5> DEFINE a == RankIn(G, j)
                   b == RankIn(G, m)
                   c == RankIn(G, m + 1)
                   p == BlockOf(r)
        <5>1. a \in Nat /\ b \in Nat /\ j \in Nat /\ r \in Nat
          BY <1>0, <4>8, RankFinite DEF Skipped
        <5>2. p \in Nat
          BY <5>1, BlockFacts
        <5>3. p + a + (m + 1) = BlockOf(z) + c + j
          BY <4>8 DEF Skipped
        <5>4. (m \in bad => BlockOf(z) = q + 1 /\ c = b) /\ (m \notin bad => BlockOf(z) = q /\ c = b + 1)
          BY <4>5, <4>9
        <5> HIDE DEF a, b, c, p, q, z
        <5>5. p + a + m = q + b + j
          BY <2>1, <4>1, <5>1, <5>2, <5>3, <5>4
        <5> QED BY <4>5, <4>8, <5>5 DEF Skipped, a, b, p, q
      <4> QED BY <4>10
    <3> QED BY <3>1, <3>2
  <2>4. Holds(m)
    BY <2>3
  <2> QED BY <2>1, <2>4 DEF m
<1>4. NumBlocks - k \in S
  <2> HIDE DEF S
  <2>1. \A i \in 0 .. NumBlocks : i \in S
    BY <1>0, <1>2, <1>3, UpTo
  <2> QED BY <1>0, <2>1
<1>5. NumBlocks - (NumBlocks - k) = k
  BY <1>0
<1> QED BY <1>4, <1>5

LEMMA SkipFacts ==
  ASSUME NEW start \in Nat, NEW s, s = SkipBad(start)
  PROVE  /\ s \in Nat /\ Col(s) = Col(start) /\ s <= start + Size
         /\ s < Size => LogIn(bad, s) = start
         /\ s >= Size => start >= Cardinality(Blocks \ bad) * EraseSize
<1> DEFINE G == Blocks \ bad
           q == BlockOf(start)
           p == BlockOf(s)
           n == Cardinality(G)
<1>0. NumBlocks \in Nat /\ G \subseteq Blocks /\ n \in Nat
  BY Sizes, RankFinite
<1>1. q \in Nat /\ start = q * EraseSize + Col(start) /\ Col(start) \in Nat
  BY BlockFacts
<1>2. 0 * EraseSize = 0 /\ 0 \in Nat /\ 0 <= NumBlocks /\ 0 <= q
  BY <1>0, <1>1, Sizes
<1>3. PICK j : Skipped(0, start, Skip[<<0 * EraseSize, start>>], j)
  <2> HIDE DEF q
  <2> QED BY <1>2, SkipPass DEF q
<1>4. Skipped(0, start, s, j)
  BY <1>2, <1>3 DEF SkipBad
<1>5. s \in Nat /\ Col(s) = Col(start) /\ j \in Nat /\ j <= NumBlocks /\ j <= p
      /\ (j = p \/ j = NumBlocks) /\ p + RankIn(G, j) + 0 = q + RankIn(G, 0) + j
  BY <1>4 DEF Skipped
<1>6. RankIn(G, 0) = 0 /\ RankIn(G, j) \in Nat /\ p \in Nat /\ s = p * EraseSize + Col(s)
  BY <1>0, <1>5, RankEnds, RankFinite, BlockFacts
<1>7. p + RankIn(G, j) = q + j
  <2> HIDE DEF p, q, G
  <2> QED BY <1>1, <1>5, <1>6
<1>8. s <= start + Size
  <2>1. p <= q + NumBlocks
    <3> HIDE DEF p, q, G
    <3> QED BY <1>0, <1>1, <1>5, <1>6, <1>7
  <2> HIDE DEF p, q
  <2>2. p * EraseSize <= (q + NumBlocks) * EraseSize
    BY <1>0, <1>1, <1>6, <2>1, Sizes, Products
  <2>3. (q + NumBlocks) * EraseSize = q * EraseSize + Size
    BY <1>0, <1>1, Sizes, Products
  <2>4. p * EraseSize \in Nat /\ q * EraseSize \in Nat
    BY <1>1, <1>6, Sizes, Products
  <2> QED BY <1>1, <1>5, <1>6, <2>2, <2>3, <2>4, Sizes
<1>9. ASSUME s < Size PROVE LogIn(bad, s) = start
  <2>1. p < NumBlocks
    BY <1>5, <1>9, BlockInside
  <2>2. j = p
    BY <1>0, <1>5, <1>6, <2>1
  <2>3. RankIn(G, p) = q
    <3> HIDE DEF p, q, G
    <3> QED BY <1>1, <1>6, <1>7, <2>2
  <2> QED BY <1>1, <1>5, <2>3 DEF LogIn
<1>10. ASSUME s >= Size PROVE start >= n * EraseSize
  <2>1. p >= NumBlocks
    BY <1>5, <1>10, BlockInside
  <2>2. j = NumBlocks
    <3> HIDE DEF p
    <3> QED BY <1>0, <1>5, <1>6, <2>1
  <2>3. RankIn(G, j) = n
    <3> HIDE DEF G
    <3> QED BY <1>0, <2>2, RankEnds DEF n
  <2>4. n <= q
    <3> HIDE DEF p, q, n
    <3> QED BY <1>0, <1>1, <1>6, <1>7, <2>1, <2>2, <2>3
  <2> HIDE DEF q, n
  <2>5. n * EraseSize <= q * EraseSize /\ n * EraseSize \in Nat /\ q * EraseSize \in Nat
    BY <1>0, <1>1, <2>4, Sizes, Products
  <2> QED BY <1>1, <2>5
<1> QED BY <1>5, <1>8, <1>9, <1>10

(***************************************************************************)
(* The invariant.                                                          *)
(***************************************************************************)
Fails == [erase : Nat, write : Nat, full : Nat, head : Nat, mark : Nat]

Locals == [off : Nat, len : Nat, imglen : Nat, wcnt : Nat, mtdoffset : Nat,
           blockstart : Nat \cup {-1}, head : Nat, tail : Nat, headoffset : Nat,
           tailoffset : Nat, headend : Nat, tailstart : Nat, tempoffset : Nat,
           dataBack : BOOLEAN]

\* A call is in a block it has opened (Inside), or is to open one or has taken
\* the whole image (Outside).
Under   == pc \in {"loop", "blk"}
Inside  == Under /\ ~NewBlock
Outside == (Under /\ NewBlock) \/ (pc = "done" /\ w.imglen = 0)

\* Of the block under way: its addresses, the image bytes it has taken, those
\* before them, the next page to program, and what each byte is to be.
Within(v)   == v.blockstart .. (v.blockstart + EraseSize) - 1
Taken(v)    == Lesser(v.mtdoffset, v.tailstart) - v.headend
Base(v)     == v.wcnt - Taken(v)
Front(v)    == IF v.head > 0 THEN v.tempoffset ELSE v.mtdoffset
Content(v, b, a) == IF v.headend <= a /\ a < v.tailstart THEN Img(Base(v) + (a - v.headend))
                                                         ELSE b[a - v.blockstart]

Typed ==
  /\ TypeOK
  /\ w \in Locals /\ hist \in [bad : SUBSET Blocks, n : Fails]
  /\ buf \in [0 .. EraseSize - 1 -> Addr \cup {Erased, Zero}]
  /\ hist.n.mark <= hist.n.erase /\ hist.n.full <= hist.n.write /\ hist.n.head <= hist.n.write
  /\ w.dataBack => hist.n.write > 0
  /\ pc = "idle" => w = Idle /\ hist.n = NoFails /\ flash = [a \in Addr |-> a]
  /\ pc # "idle" => w.off \in Addr /\ w.len > 0
  /\ pc = "done" /\ w.imglen > 0 => ret = -1

\* The locals of an open block.
Layout(v) ==
  LET end == v.blockstart + EraseSize
  IN /\ v.blockstart \in Nat /\ Col(v.blockstart) = 0 /\ end <= Size
     /\ v.blockstart <= v.headend /\ v.headend < v.tailstart /\ v.tailstart <= end
     /\ v.headend <= v.mtdoffset /\ v.mtdoffset <= end
     /\ v.headoffset + v.head = v.headend - v.blockstart
     /\ v.head > 0 => v.tempoffset = v.blockstart + v.headoffset /\ v.mtdoffset = v.headend
     /\ PgCol(Front(v)) = 0
     /\ v.tail + v.tailoffset = EraseSize
     /\ v.mtdoffset <= v.tailstart =>
          v.tailoffset = v.tailstart - v.blockstart /\ v.imglen >= v.tailstart - v.mtdoffset
     /\ v.mtdoffset > v.tailstart => v.tailoffset = v.mtdoffset - v.blockstart /\ v.imglen = 0
     /\ v.mtdoffset <= v.tailstart /\ v.tailstart < end => v.imglen = v.tailstart - v.mtdoffset
     /\ Taken(v) <= v.wcnt

Geometry == Inside =>
  /\ Layout(w) /\ BlockOf(w.blockstart) \notin bad
  /\ w.headend > w.blockstart => Base(w) = 0 /\ hist.n.head = 0 /\ Col(w.headend) = Col(w.off)

\* Only the first block is entered in its middle.
NextBlock == Outside =>
  /\ w.imglen > 0 \/ (pc # "blk" /\ w.head = 0 /\ w.tail = 0)
  /\ w.imglen > 0 /\ Col(w.mtdoffset) # 0 =>
       w.wcnt = 0 /\ hist.n.head = 0 /\ Col(w.mtdoffset) = Col(w.off)

\* The blocks ahead are as they were.
Ahead ==
  /\ Inside => \A a \in Addr : a >= w.blockstart + EraseSize => flash[a] = a
  /\ Outside /\ w.imglen > 0 => \A a \in Addr : a >= BlockStart(w.mtdoffset) => flash[a] = a

Local == Typed /\ Geometry /\ NextBlock /\ Ahead

\* An open block is filled up to the next page, and erased from there.
Filled == Inside =>
  \A a \in Within(w) : flash[a] = IF a < Front(w) THEN Content(w, buf, a) ELSE Erased

(***************************************************************************)
(* One page.                                                               *)
(***************************************************************************)
LEMMA LayoutFacts ==
  ASSUME Local, InBody, ~NewBlock
  PROVE  /\ Inside /\ Layout(w) /\ w \in Locals /\ w.mtdoffset < w.blockstart + EraseSize
         /\ Front(w) \in Nat /\ PgCol(Front(w)) = 0
         /\ w.blockstart <= Front(w) /\ Front(w) + WriteSize <= w.blockstart + EraseSize
<1>1. w \in Locals
  BY DEF Local, Typed
<1>2. Inside
  BY DEF InBody, Inside, Under
<1>3. Layout(w)
  BY <1>2 DEF Local, Geometry
<1>4. w.mtdoffset < w.blockstart + EraseSize
  <2>1. w.blockstart = BlockStart(w.mtdoffset) /\ w.mtdoffset \in Nat
    BY <1>1 DEF NewBlock, Locals
  <2> QED BY <2>1, BlockFacts
<1>5. Front(w) \in Nat /\ w.blockstart <= Front(w) /\ Front(w) < w.blockstart + EraseSize
  <2> DEFINE bs == w.blockstart
             he == w.headend
             mo == w.mtdoffset
             ho == w.headoffset
             h  == w.head
             tp == w.tempoffset
  <2>1. /\ bs \in Nat /\ he \in Nat /\ mo \in Nat /\ ho \in Nat /\ h \in Nat /\ tp \in Nat
        /\ bs <= he /\ he <= mo /\ mo < bs + EraseSize /\ ho + h = he - bs
        /\ h > 0 => tp = bs + ho /\ mo = he
    BY <1>1, <1>3, <1>4 DEF Layout, Locals
  <2>2. Front(w) = IF h > 0 THEN tp ELSE mo
    BY DEF Front
  <2> HIDE DEF bs, he, mo, ho, h, tp
  <2> QED BY <2>1, <2>2, Sizes DEF bs
<1>6. w.blockstart \in Nat /\ Col(w.blockstart) = 0 /\ PgCol(Front(w)) = 0
  BY <1>3 DEF Layout
<1>7. Front(w) + WriteSize <= w.blockstart + EraseSize
  BY <1>5, <1>6, PageFacts
<1> QED BY <1>1, <1>2, <1>3, <1>4, <1>5, <1>6, <1>7

\* The locals after a page.
LEMMA AdvancedFields ==
  ASSUME w \in Locals, NEW v, v = Advanced
  PROVE  /\ v.off = w.off /\ v.len = w.len /\ v.blockstart = w.blockstart /\ v.headend = w.headend
         /\ v.tailstart = w.tailstart /\ v.dataBack = w.dataBack
         /\ v.head = w.head - HeadPart /\ v.headoffset = w.headoffset + HeadPart
         /\ v.tempoffset = w.tempoffset + HeadPart
         /\ v.imglen = w.imglen - ImgPart /\ v.wcnt = w.wcnt + ImgPart
         /\ v.mtdoffset = w.mtdoffset + ImgPart + TailPart
         /\ v.tail = w.tail - TailPart /\ v.tailoffset = w.tailoffset + TailPart
         /\ v = [off |-> v.off, len |-> v.len, imglen |-> v.imglen, wcnt |-> v.wcnt,
                 mtdoffset |-> v.mtdoffset, blockstart |-> v.blockstart, head |-> v.head,
                 tail |-> v.tail, headoffset |-> v.headoffset, tailoffset |-> v.tailoffset,
                 headend |-> v.headend, tailstart |-> v.tailstart, tempoffset |-> v.tempoffset,
                 dataBack |-> v.dataBack]
<1> HIDE DEF HeadPart, ImgPart, TailPart
<1> QED BY DEF Locals, Advanced

\* A page is whole: what is left of the head, then image, then tail.
LEMMA PageParts ==
  ASSUME Local, InBody, ~NewBlock, NEW hp, NEW ip, NEW tl,
         hp = HeadPart, ip = ImgPart, tl = TailPart
  PROVE  LET next == w.mtdoffset + ip + tl
             end  == w.blockstart + EraseSize
         IN /\ hp \in Nat /\ ip \in Nat /\ tl \in Nat
            /\ hp <= w.head /\ ip <= w.imglen /\ tl <= w.tail
            /\ (hp > 0 <=> w.head > 0) /\ next <= end
            /\ w.head > WriteSize => hp = WriteSize /\ ip = 0 /\ tl = 0
                                     /\ w.tempoffset + hp = w.blockstart + (w.headoffset + hp)
            /\ w.head <= WriteSize => hp = w.head /\ next = Front(w) + WriteSize
                                      /\ hp + ip + tl = WriteSize
            /\ w.mtdoffset <= w.tailstart => ip = Lesser(next, w.tailstart) - w.mtdoffset
            /\ ip > 0 => w.mtdoffset + ip <= w.tailstart
            /\ tl > 0 => w.tailoffset = (w.mtdoffset + ip) - w.blockstart
                         /\ w.mtdoffset + ip >= w.tailstart
            /\ next <= w.tailstart => w.tailoffset + tl = w.tailstart - w.blockstart
                                      /\ w.imglen - ip >= w.tailstart - next
            /\ next > w.tailstart => w.tailoffset + tl = next - w.blockstart /\ w.imglen - ip = 0
            /\ next <= w.tailstart /\ w.tailstart < end => w.imglen - ip = w.tailstart - next
            /\ Lesser(next, w.tailstart) = Lesser(w.mtdoffset, w.tailstart) + ip
<1> DEFINE bs == w.blockstart
           he == w.headend
           ts == w.tailstart
           mo == w.mtdoffset
           h  == w.head
           t  == w.tail
           il == w.imglen
           ho == w.headoffset
           to == w.tailoffset
           tp == w.tempoffset
           f  == Front(w)
           e  == bs + EraseSize
<1>1. /\ he \in Nat /\ ts \in Nat /\ mo \in Nat /\ h \in Nat /\ t \in Nat /\ il \in Nat
      /\ ho \in Nat /\ to \in Nat /\ tp \in Nat
  BY LayoutFacts DEF Locals
<1>2. /\ bs \in Nat /\ bs <= he /\ he < ts /\ ts <= e /\ he <= mo /\ mo < e
      /\ ho + h = he - bs /\ (h > 0 => tp = bs + ho /\ mo = he)
  BY LayoutFacts DEF Layout
<1>3. t + to = EraseSize
  BY LayoutFacts DEF Layout
<1>4. /\ mo <= ts => to = ts - bs /\ il >= ts - mo
      /\ mo > ts => to = mo - bs /\ il = 0
      /\ mo <= ts /\ ts < e => il = ts - mo
  BY LayoutFacts DEF Layout
<1>5. f \in Nat /\ f + WriteSize <= e /\ f = IF h > 0 THEN tp ELSE mo
  BY LayoutFacts DEF Front
<1>6. hp = Lesser(h, WriteSize) /\ ip = Lesser(il, WriteSize - hp)
      /\ tl = Lesser(t, WriteSize - hp - ip)
  BY DEF HeadPart, ImgPart, TailPart
<1>7. WriteSize \in Nat /\ WriteSize > 0 /\ EraseSize \in Nat
  BY Sizes
<1> HIDE DEF bs, he, ts, mo, h, t, il, ho, to, tp, f
<1>8. e \in Nat /\ t + to = e - bs /\ f < e
  BY <1>1, <1>2, <1>3, <1>5, <1>7
<1> HIDE DEF e
<1>9. /\ hp \in Nat /\ ip \in Nat /\ tl \in Nat /\ hp <= h /\ ip <= il /\ tl <= t
      /\ (hp > 0 <=> h > 0) /\ mo + ip + tl <= e
      /\ (h > WriteSize => hp = WriteSize /\ ip = 0 /\ tl = 0 /\ tp + hp = bs + (ho + hp))
      /\ h <= WriteSize => hp = h /\ mo + ip + tl = f + WriteSize /\ hp + ip + tl = WriteSize
      /\ mo <= ts => ip = Lesser(mo + ip + tl, ts) - mo
      /\ ip > 0 => mo + ip <= ts
      /\ tl > 0 => to = (mo + ip) - bs /\ mo + ip >= ts
      /\ mo + ip + tl <= ts => to + tl = ts - bs /\ il - ip >= ts - (mo + ip + tl)
      /\ mo + ip + tl > ts => to + tl = (mo + ip + tl) - bs /\ il - ip = 0
      /\ mo + ip + tl <= ts /\ ts < e => il - ip = ts - (mo + ip + tl)
      /\ Lesser(mo + ip + tl, ts) = Lesser(mo, ts) + ip
  <2>1. /\ he \in Nat /\ ts \in Nat /\ mo \in Nat /\ h \in Nat /\ t \in Nat /\ il \in Nat
        /\ ho \in Nat /\ to \in Nat /\ tp \in Nat /\ bs \in Nat /\ e \in Nat /\ f \in Nat
        /\ WriteSize \in Nat /\ WriteSize > 0
        /\ bs <= he /\ he < ts /\ ts <= e /\ he <= mo /\ mo < e
        /\ ho + h = he - bs /\ (h > 0 => tp = bs + ho /\ mo = he)
        /\ t + to = e - bs
        /\ (mo <= ts => to = ts - bs /\ il >= ts - mo)
        /\ (mo > ts => to = mo - bs /\ il = 0)
        /\ (mo <= ts /\ ts < e => il = ts - mo)
        /\ (f = IF h > 0 THEN tp ELSE mo) /\ f < e /\ f + WriteSize <= e
        /\ hp = Lesser(h, WriteSize) /\ ip = Lesser(il, WriteSize - hp)
        /\ tl = Lesser(t, WriteSize - hp - ip)
    BY <1>1, <1>2, <1>4, <1>5, <1>6, <1>7, <1>8
  <2> QED
    <3>1. CASE h > WriteSize
      <4>1. hp = WriteSize /\ ip = 0 /\ tl = 0
        BY <2>1, <3>1 DEF Lesser
      <4> QED BY <2>1, <3>1, <4>1 DEF Lesser
    <3>2. CASE h <= WriteSize /\ mo <= ts /\ f + WriteSize <= ts
      <4>1. hp = h /\ hp \in Nat
        BY <2>1, <3>2 DEF Lesser
      <4>2. f = mo - h
        BY <2>1, <3>2
      <4>3. ip = WriteSize - hp /\ ip \in Nat /\ ip <= il
        BY <2>1, <3>2, <4>1, <4>2 DEF Lesser
      <4>4. tl = 0
        BY <2>1, <4>1, <4>3 DEF Lesser
      <4> QED BY <2>1, <3>2, <4>1, <4>2, <4>3, <4>4 DEF Lesser
    <3>3. CASE h <= WriteSize /\ mo <= ts /\ f + WriteSize > ts
      <4>1. hp = h /\ hp \in Nat
        BY <2>1, <3>3 DEF Lesser
      <4>2. f = mo - h
        BY <2>1, <3>3
      <4>3. ts < e /\ il = ts - mo
        BY <2>1, <3>3
      <4>4. ip = ts - mo /\ ip \in Nat
        BY <2>1, <3>3, <4>1, <4>2, <4>3 DEF Lesser
      <4>5. t = e - ts
        BY <2>1, <3>3
      <4>6. tl = WriteSize - hp - ip /\ tl \in Nat /\ mo + ip + tl = f + WriteSize
        BY <2>1, <3>3, <4>1, <4>2, <4>4, <4>5 DEF Lesser
      <4> QED BY <2>1, <3>3, <4>1, <4>2, <4>3, <4>4, <4>5, <4>6 DEF Lesser
    <3>4. CASE mo > ts
      <4>1. h = 0 /\ f = mo /\ il = 0
        BY <2>1, <3>4
      <4>2. hp = 0 /\ ip = 0
        BY <2>1, <4>1 DEF Lesser
      <4>3. t = e - mo
        BY <2>1, <3>4
      <4>4. tl = WriteSize
        BY <2>1, <4>1, <4>2, <4>3 DEF Lesser
      <4>5. Lesser(mo + ip + tl, ts) = ts /\ Lesser(mo, ts) = ts
        BY <2>1, <3>4, <4>2, <4>4 DEF Lesser
      <4>6. to = mo - bs /\ mo + ip = mo /\ mo + ip + tl = mo + WriteSize /\ il - ip = 0
        BY <2>1, <3>4, <4>1, <4>2, <4>4
      <4>7. to + tl = (mo + WriteSize) - bs /\ mo + WriteSize > ts /\ mo >= ts /\ bs <= mo /\ mo + WriteSize <= e /\ tl <= t
        BY <2>1, <3>4, <4>1, <4>3, <4>4, <4>6
      <4> HIDE DEF Lesser
      <4>8. ~(h > WriteSize) /\ ~(mo <= ts) /\ ~(mo + WriteSize <= ts) /\ ~(h > 0) /\ ~(hp > 0) /\ ~(ip > 0)
        BY <2>1, <3>4, <4>1, <4>2
      <4>11. hp \in Nat /\ ip \in Nat /\ tl \in Nat /\ hp <= h /\ ip <= il /\ tl <= t
        BY <2>1, <4>1, <4>2, <4>4, <4>7
      <4>12. mo + ip + tl <= e /\ bs <= f
        BY <2>1, <4>1, <4>6, <4>7
      <4>13. h <= WriteSize => hp = h /\ mo + ip + tl = f + WriteSize /\ hp + ip + tl = WriteSize
        BY <2>1, <4>1, <4>2, <4>4, <4>6
      <4>14. Lesser(mo + ip + tl, ts) = Lesser(mo, ts) + ip
        BY <2>1, <4>2, <4>5
      <4> QED BY <2>1, <4>6, <4>7, <4>8, <4>11, <4>12, <4>13, <4>14
    <3>5. \/ h > WriteSize
          \/ h <= WriteSize /\ (\/ mo > ts
                                \/ mo <= ts /\ f + WriteSize <= ts
                                \/ mo <= ts /\ f + WriteSize > ts)
      BY <2>1
    <3> QED BY <3>1, <3>2, <3>3, <3>4, <3>5
<1> QED BY <1>9 DEF bs, he, ts, mo, h, t, il, ho, to, tp, f, e

LEMMA AdvancedLayout ==
  ASSUME Local, InBody, ~NewBlock, NEW v, v = Advanced
  PROVE  /\ v \in Locals /\ Layout(v) /\ Front(v) = Front(w) + WriteSize
         /\ Base(v) = Base(w) /\ Base(w) \in Nat /\ v.imglen + v.wcnt = w.imglen + w.wcnt
         /\ v.mtdoffset < v.blockstart + EraseSize => Front(v) < v.blockstart + EraseSize
         /\ v.mtdoffset = v.blockstart + EraseSize =>
              /\ v.head = 0 /\ v.tail = 0 /\ v.wcnt = Base(v) + (v.tailstart - v.headend)
              /\ Front(v) = v.blockstart + EraseSize
              /\ v.tailstart < v.blockstart + EraseSize => v.imglen = 0
<1> DEFINE hp == HeadPart
           ip == ImgPart
           tl == TailPart
           bs == w.blockstart
           he == w.headend
           ts == w.tailstart
           mo == w.mtdoffset
           h  == w.head
           t  == w.tail
           il == w.imglen
           wc == w.wcnt
           ho == w.headoffset
           to == w.tailoffset
           tp == w.tempoffset
           f  == Front(w)
           e  == bs + EraseSize
           no == mo + ip + tl
<1>1. /\ w \in Locals /\ Layout(w) /\ mo < e /\ f \in Nat /\ PgCol(f) = 0
      /\ f + WriteSize <= e
  BY LayoutFacts
<1>2. /\ he \in Nat /\ ts \in Nat /\ mo \in Nat /\ h \in Nat /\ t \in Nat /\ il \in Nat
      /\ wc \in Nat /\ ho \in Nat /\ to \in Nat /\ tp \in Nat
      /\ w.off \in Nat /\ w.len \in Nat /\ w.dataBack \in BOOLEAN
  BY <1>1 DEF Locals
<1>3. /\ bs \in Nat /\ Col(bs) = 0 /\ e <= Size /\ bs <= he /\ he < ts /\ ts <= e /\ he <= mo
      /\ ho + h = he - bs /\ (h > 0 => tp = bs + ho /\ mo = he) /\ t + to = EraseSize
      /\ Lesser(mo, ts) - he <= wc
  BY <1>1 DEF Layout, Taken
<1>4. /\ hp \in Nat /\ ip \in Nat /\ tl \in Nat
      /\ hp <= h /\ ip <= il /\ tl <= t /\ no <= e
      /\ (h > WriteSize => hp = WriteSize /\ ip = 0 /\ tl = 0 /\ tp + hp = bs + (ho + hp))
      /\ (h <= WriteSize => hp = h /\ no = f + WriteSize)
      /\ (no <= ts => to + tl = ts - bs /\ il - ip >= ts - no)
      /\ (no > ts => to + tl = no - bs /\ il - ip = 0)
      /\ (no <= ts /\ ts < e => il - ip = ts - no)
      /\ Lesser(no, ts) = Lesser(mo, ts) + ip
  BY PageParts
<1>5. /\ v.off = w.off /\ v.len = w.len /\ v.blockstart = bs /\ v.headend = he
      /\ v.tailstart = ts /\ v.dataBack = w.dataBack
      /\ v.head = h - hp /\ v.headoffset = ho + hp /\ v.tempoffset = tp + hp
      /\ v.imglen = il - ip /\ v.wcnt = wc + ip /\ v.mtdoffset = no
      /\ v.tail = t - tl /\ v.tailoffset = to + tl
      /\ v = [off |-> v.off, len |-> v.len, imglen |-> v.imglen, wcnt |-> v.wcnt,
              mtdoffset |-> v.mtdoffset, blockstart |-> v.blockstart, head |-> v.head,
              tail |-> v.tail, headoffset |-> v.headoffset, tailoffset |-> v.tailoffset,
              headend |-> v.headend, tailstart |-> v.tailstart, tempoffset |-> v.tempoffset,
              dataBack |-> v.dataBack]
  BY <1>1, AdvancedFields
<1>6. f = IF h > 0 THEN tp ELSE mo
  BY DEF Front
<1>7. Front(v) = IF h - hp > 0 THEN tp + hp ELSE no
  BY <1>5 DEF Front
<1>8. Base(w) = wc - (Lesser(mo, ts) - he)
  BY DEF Base, Taken
<1>9. Base(v) = (wc + ip) - (Lesser(no, ts) - he) /\ Taken(v) = Lesser(no, ts) - he
  BY <1>5 DEF Base, Taken
<1>10. Lesser(mo, ts) \in Nat /\ Lesser(mo, ts) >= he /\ Lesser(no, ts) \in Nat
  BY <1>2, <1>3, <1>4 DEF Lesser
<1>11. WriteSize \in Nat /\ WriteSize > 0 /\ EraseSize \in Nat
  BY Sizes
<1>12. no = e => Lesser(no, ts) = ts
  BY <1>2, <1>3, <1>11 DEF Lesser
<1> HIDE DEF hp, ip, tl, bs, he, ts, mo, h, t, il, wc, ho, to, tp, f, no, Lesser, Base
<1>13. Base(v) = Base(w) /\ Base(w) \in Nat
  BY <1>2, <1>3, <1>4, <1>8, <1>9, <1>10
<1>14. Front(v) = f + WriteSize
  <2>1. h > WriteSize => h - hp > 0 /\ h > 0 /\ hp = WriteSize
    BY <1>2, <1>4, <1>11
  <2>2. h <= WriteSize => ~(h - hp > 0) /\ no = f + WriteSize
    BY <1>2, <1>4, <1>11
  <2>3. h > WriteSize \/ h <= WriteSize
    BY <1>2, <1>11
  <2> QED BY <1>6, <1>7, <2>1, <2>2, <2>3
<1>15. v \in Locals
  <2>1. /\ h - hp \in Nat /\ ho + hp \in Nat /\ tp + hp \in Nat /\ il - ip \in Nat
        /\ wc + ip \in Nat /\ no \in Nat /\ t - tl \in Nat /\ to + tl \in Nat
    BY <1>2, <1>4 DEF no
  <2> QED BY <1>2, <1>3, <1>5, <2>1 DEF Locals
<1>16. Layout(v)
  <2>1. PgCol(Front(v)) = 0
    BY <1>1, <1>14, PageAfter
  <2>2. (ho + hp) + (h - hp) = he - bs
    BY <1>2, <1>3, <1>4
  <2>3. h - hp > 0 => tp + hp = bs + (ho + hp) /\ no = he
    BY <1>2, <1>3, <1>4, <1>11 DEF no
  <2>4. (t - tl) + (to + tl) = EraseSize
    BY <1>2, <1>3, <1>4, <1>11
  <2>5. he <= no
    BY <1>2, <1>3, <1>4 DEF no
  <2>6. Taken(v) <= wc + ip
    BY <1>2, <1>3, <1>4, <1>9, <1>10
  <2> QED BY <1>3, <1>4, <1>5, <2>1, <2>2, <2>3, <2>4, <2>5, <2>6 DEF Layout
<1>17. (il - ip) + (wc + ip) = il + wc
  BY <1>2, <1>4
<1>18. no < e => f + WriteSize < e
  BY <1>2, <1>3, <1>4, <1>6, <1>11 DEF no
<1>19. no = e => h - hp = 0 /\ t - tl = 0 /\ wc + ip = Base(v) + (ts - he)
                 /\ f + WriteSize = e /\ (ts < e => il - ip = 0)
  <2> SUFFICES ASSUME no = e PROVE h - hp = 0 /\ t - tl = 0 /\ wc + ip = Base(v) + (ts - he)
                 /\ f + WriteSize = e /\ (ts < e => il - ip = 0)
    OBVIOUS
  <2>0. no > mo
    BY <1>1
  <2>1. h <= WriteSize
    BY <1>2, <1>4, <1>11, <2>0 DEF no
  <2>2. h - hp = 0 /\ f + WriteSize = e
    BY <1>2, <1>4, <2>1
  <2>3. to + tl = EraseSize
    BY <1>2, <1>3, <1>4, <1>11
  <2>4. t - tl = 0
    BY <1>2, <1>3, <1>4, <2>3, <1>11
  <2>5. wc + ip = Base(v) + (ts - he)
    BY <1>2, <1>4, <1>9, <1>10, <1>12
  <2>6. ts < e => il - ip = 0
    BY <1>2, <1>3, <1>4, <1>11
  <2> QED BY <2>2, <2>4, <2>5, <2>6
<1> QED BY <1>5, <1>13, <1>14, <1>15, <1>16, <1>17, <1>18, <1>19
        DEF hp, ip, tl, bs, he, ts, mo, h, t, il, wc, ho, to, tp, f, no

\* The page is what its block is to hold there.
LEMMA PageBytes ==
  ASSUME Local, InBody, ~NewBlock
  PROVE  /\ PageAddr = Front(w)
         /\ \A a \in Nat : Front(w) <= a /\ a < Front(w) + WriteSize
              => PageByte(a - PageAddr) = Content(w, buf, a)
<1> DEFINE hp == HeadPart
           ip == ImgPart
           tl == TailPart
           bs == w.blockstart
           he == w.headend
           ts == w.tailstart
           mo == w.mtdoffset
           h  == w.head
           wc == w.wcnt
           ho == w.headoffset
           to == w.tailoffset
           tp == w.tempoffset
           f  == Front(w)
           bb == Base(w)
<1>1. /\ w \in Locals /\ Layout(w) /\ f \in Nat
  BY LayoutFacts
<1>2. /\ he \in Nat /\ ts \in Nat /\ mo \in Nat /\ h \in Nat
      /\ wc \in Nat /\ ho \in Nat /\ to \in Nat /\ tp \in Nat
  BY <1>1 DEF Locals
<1>3. /\ bs \in Nat /\ bs <= he /\ he < ts /\ he <= mo
      /\ ho + h = he - bs /\ (h > 0 => tp = bs + ho /\ mo = he)
      /\ (mo > ts => w.imglen = 0)
  BY <1>1 DEF Layout
<1>4. /\ hp \in Nat /\ ip \in Nat /\ tl \in Nat /\ hp <= h /\ ip <= w.imglen
      /\ (hp > 0 <=> h > 0)
      /\ (h > WriteSize => hp = WriteSize /\ ip = 0 /\ tl = 0)
      /\ (h <= WriteSize => hp = h /\ hp + ip + tl = WriteSize)
      /\ (ip > 0 => mo + ip <= ts)
      /\ (tl > 0 => to = (mo + ip) - bs /\ mo + ip >= ts)
  BY PageParts
<1>5. f = IF h > 0 THEN tp ELSE mo
  BY DEF Front
<1>6. PageAddr = f
  <2>1. PageAddr = IF hp > 0 THEN tp ELSE mo
    BY DEF PageAddr
  <2> HIDE DEF hp, h, f
  <2> QED BY <1>4, <1>5, <2>1
<1>7. mo <= ts => bb = wc - (mo - he)
  <2>1. bb = wc - (Lesser(mo, ts) - he)
    BY DEF Base, Taken
  <2> HIDE DEF bb, wc, mo, ts, he
  <2> QED BY <1>2, <2>1 DEF Lesser
<1>8. WriteSize \in Nat /\ WriteSize > 0
  BY Sizes
<1>9. ASSUME NEW a \in Nat, f <= a, a < f + WriteSize
      PROVE  PageByte(a - f) = Content(w, buf, a)
  <2> DEFINE i == a - f
  <2>1. PageByte(i) = CASE i < hp -> buf[ho + i]
                        [] i >= hp /\ i < hp + ip -> Img(wc + i - hp)
                        [] i >= hp + ip /\ i < hp + ip + tl -> buf[to + i - hp - ip]
                        [] OTHER -> Erased
    BY DEF PageByte
  <2>2. Content(w, buf, a) = IF he <= a /\ a < ts THEN Img(bb + (a - he)) ELSE buf[a - bs]
    BY DEF Content
  <2>3. i \in Nat /\ i < WriteSize /\ a = f + i
    BY <1>1, <1>8, <1>9
  <2> HIDE DEF i, hp, ip, tl, bs, he, ts, mo, h, wc, ho, to, tp, f, bb
  <2>4. i < hp + ip + tl
    BY <1>2, <1>4, <1>8, <2>3
  <2>5. ASSUME i < hp PROVE PageByte(i) = Content(w, buf, a)
    <3>1. h > 0 /\ f = tp /\ tp = bs + ho /\ hp <= h
      BY <1>2, <1>3, <1>4, <1>5, <2>3, <2>5
    <3>2. a < he /\ a - bs = ho + i
      BY <1>2, <1>3, <1>4, <2>3, <2>5, <3>1
    <3>3. ~(he <= a) /\ ~(i >= hp) /\ ~(i >= hp + ip)
      BY <1>2, <1>4, <2>3, <2>5, <3>2
    <3> QED BY <2>1, <2>2, <2>5, <3>2, <3>3
  <2>6. ASSUME i >= hp, i < hp + ip PROVE PageByte(i) = Content(w, buf, a)
    <3>1. ip > 0 /\ h <= WriteSize /\ hp = h
      BY <1>2, <1>4, <1>8, <2>3, <2>6
    <3>2. a = mo + (i - hp)
      BY <1>2, <1>3, <1>5, <2>3, <3>1
    <3>3. he <= a /\ a < ts /\ mo <= ts
      BY <1>2, <1>3, <1>4, <2>3, <2>6, <3>1, <3>2
    <3>4. bb + (a - he) = wc + i - hp
      BY <1>2, <1>4, <1>7, <2>3, <3>2, <3>3
    <3>5. ~(i < hp) /\ ~(i >= hp + ip)
      BY <1>4, <2>3, <2>6
    <3> QED BY <2>1, <2>2, <2>6, <3>3, <3>4, <3>5
  <2>7. ASSUME i >= hp + ip PROVE PageByte(i) = Content(w, buf, a)
    <3>1. tl > 0 /\ h <= WriteSize /\ hp = h
      BY <1>2, <1>4, <1>8, <2>3, <2>4, <2>7
    <3>2. a = mo + (i - hp)
      BY <1>2, <1>3, <1>5, <2>3, <3>1
    <3>3. a >= ts
      BY <1>2, <1>4, <2>3, <2>7, <3>1, <3>2
    <3>4. a - bs = to + i - hp - ip
      BY <1>2, <1>3, <1>4, <2>3, <3>1, <3>2
    <3>5. ~(i < hp) /\ ~(i < hp + ip) /\ ~(a < ts)
      BY <1>2, <1>4, <2>3, <2>7, <3>3
    <3> QED BY <2>1, <2>2, <2>4, <2>7, <3>4, <3>5
  <2>8. i < hp \/ (i >= hp /\ i < hp + ip) \/ i >= hp + ip
    BY <1>4, <2>3
  <2> QED BY <2>5, <2>6, <2>7, <2>8 DEF i
<1> QED BY <1>6, <1>9

(***************************************************************************)
(* The next block.                                                         *)
(***************************************************************************)
LEMMA OutsideFacts ==
  ASSUME Local, InBody, NewBlock
  PROVE  /\ Outside /\ ~Inside /\ w.imglen > 0 /\ w \in Locals /\ pc \in {"loop", "blk"}
         /\ Col(w.mtdoffset) # 0 => w.wcnt = 0 /\ hist.n.head = 0 /\ Col(w.mtdoffset) = Col(w.off)
<1>1. w \in Locals /\ Outside /\ ~Inside /\ pc \in {"loop", "blk"}
  BY DEF Local, Typed, InBody, Outside, Inside, Under
<1>2. w.imglen > 0
  <2>1. w.imglen > 0 \/ (pc # "blk" /\ w.head = 0 /\ w.tail = 0)
    BY <1>1 DEF Local, NextBlock
  <2>2. pc # "blk" => w.imglen > 0 \/ w.head > 0 \/ w.tail > 0
    BY DEF InBody, MoreToDo
  <2>3. ~(0 > 0)
    OBVIOUS
  <2> QED BY <2>1, <2>2, <2>3
<1> QED BY <1>1, <1>2 DEF Local, NextBlock

LEMMA OpenedFields ==
  ASSUME w \in Locals, NEW v, v = Opened
  PROVE  /\ v.off = w.off /\ v.len = w.len /\ v.imglen = w.imglen /\ v.wcnt = w.wcnt
         /\ v.mtdoffset = w.mtdoffset /\ v.blockstart = BlockStart(w.mtdoffset)
         /\ v.head = HeadSize /\ v.tail = TailSize /\ v.headoffset = 0
         /\ v.tailoffset = EraseSize - TailSize /\ v.headend = w.mtdoffset
         /\ v.tailstart = BlockStart(w.mtdoffset) + EraseSize - TailSize
         /\ v.tempoffset = (IF Partly THEN BlockStart(w.mtdoffset) ELSE w.tempoffset)
         /\ v.dataBack = (IF Partly THEN FALSE ELSE w.dataBack)
         /\ v = [off |-> v.off, len |-> v.len, imglen |-> v.imglen, wcnt |-> v.wcnt,
                 mtdoffset |-> v.mtdoffset, blockstart |-> v.blockstart, head |-> v.head,
                 tail |-> v.tail, headoffset |-> v.headoffset, tailoffset |-> v.tailoffset,
                 headend |-> v.headend, tailstart |-> v.tailstart, tempoffset |-> v.tempoffset,
                 dataBack |-> v.dataBack]
<1> HIDE DEF HeadSize, TailSize, Partly, BlockStart
<1> QED BY DEF Locals, Opened

LEMMA OpenedLayout ==
  ASSUME Local, InBody, NewBlock, w.mtdoffset < Size, NEW v, v = Opened
  PROVE  /\ v \in Locals /\ Layout(v) /\ Base(v) = w.wcnt
         /\ v.blockstart = BlockStart(w.mtdoffset) /\ Front(v) = v.blockstart
         /\ v.headend = w.mtdoffset
         /\ v.tailstart = (IF w.mtdoffset + w.imglen >= v.blockstart + EraseSize
                           THEN v.blockstart + EraseSize ELSE w.mtdoffset + w.imglen)
         /\ (Partly <=> v.blockstart < v.headend \/ v.tailstart < v.blockstart + EraseSize)
<1> DEFINE mo == w.mtdoffset
           bs == BlockStart(mo)
           e  == bs + EraseSize
           il == w.imglen
           hs == HeadSize
           tz == TailSize
           ts == bs + EraseSize - tz
<1>1. w \in Locals /\ il > 0
  BY OutsideFacts
<1>2. mo \in Nat /\ il \in Nat /\ w.wcnt \in Nat
  BY <1>1 DEF Locals
<1>3. /\ bs \in Nat /\ bs <= mo /\ mo < e /\ e <= Size /\ Col(bs) = 0 /\ EraseSize \in Nat
  <2>1. bs \in Nat /\ bs = BlockOf(mo) * EraseSize /\ BlockOf(mo) \in Nat /\ bs <= mo /\ mo < e
    BY <1>2, BlockFacts
  <2>2. BlockOf(mo) * EraseSize + 0 = bs /\ 0 < EraseSize /\ EraseSize \in Nat
    BY <2>1, Sizes
  <2>3. Col(bs) = 0
    BY <2>1, <2>2, InBlock
  <2> QED BY <1>2, <2>1, <2>2, <2>3, BlockInside
<1>4. hs = mo - bs /\ tz = IF mo + il >= e THEN 0 ELSE e - (mo + il)
  BY DEF HeadSize, TailSize
<1>5. /\ v.off = w.off /\ v.len = w.len /\ v.imglen = il /\ v.wcnt = w.wcnt
      /\ v.mtdoffset = mo /\ v.blockstart = bs /\ v.head = hs /\ v.tail = tz /\ v.headoffset = 0
      /\ v.tailoffset = EraseSize - tz /\ v.headend = mo /\ v.tailstart = ts
      /\ v.tempoffset = (IF Partly THEN bs ELSE w.tempoffset)
      /\ v.dataBack = (IF Partly THEN FALSE ELSE w.dataBack)
  BY <1>1, OpenedFields
<1>6. Partly <=> hs > 0 \/ tz > 0
  BY DEF Partly
<1>7. w.off \in Nat /\ w.len \in Nat /\ w.tempoffset \in Nat /\ w.dataBack \in BOOLEAN
  BY <1>1 DEF Locals
<1> HIDE DEF mo, bs, il, hs, tz
<1>8. hs \in Nat /\ tz \in Nat /\ tz <= EraseSize /\ mo < ts /\ ts <= e /\ ts \in Nat
      /\ ts = IF mo + il >= e THEN e ELSE mo + il
  <2>1. CASE mo + il >= e
    BY <1>2, <1>3, <1>4, <2>1
  <2>2. CASE mo + il < e
    BY <1>1, <1>2, <1>3, <1>4, <2>2
  <2> QED BY <1>2, <1>3, <2>1, <2>2
<1>9. v \in Locals
  <2>1. EraseSize - tz \in Nat
    BY <1>3, <1>8
  <2>2. v.tempoffset \in Nat /\ v.dataBack \in BOOLEAN
    BY <1>3, <1>5, <1>7
  <2>3. v = [off |-> v.off, len |-> v.len, imglen |-> v.imglen, wcnt |-> v.wcnt,
             mtdoffset |-> v.mtdoffset, blockstart |-> v.blockstart, head |-> v.head,
             tail |-> v.tail, headoffset |-> v.headoffset, tailoffset |-> v.tailoffset,
             headend |-> v.headend, tailstart |-> v.tailstart, tempoffset |-> v.tempoffset,
             dataBack |-> v.dataBack]
    BY <1>1, OpenedFields
  <2>4. /\ v.off \in Nat /\ v.len \in Nat /\ v.imglen \in Nat /\ v.wcnt \in Nat
        /\ v.mtdoffset \in Nat /\ v.blockstart \in Nat /\ v.head \in Nat /\ v.tail \in Nat
        /\ v.headoffset \in Nat /\ v.tailoffset \in Nat /\ v.headend \in Nat
        /\ v.tailstart \in Nat
    <3> HIDE DEF ts
    <3> QED BY <1>2, <1>3, <1>5, <1>7, <1>8, <2>1
  <2> HIDE DEF ts
  <2> QED BY <2>2, <2>3, <2>4 DEF Locals
<1>10. Front(v) = bs
  <2>1. hs > 0 => v.tempoffset = bs
    BY <1>5, <1>6
  <2>2. ~(hs > 0) => mo = bs
    BY <1>2, <1>3, <1>4, <1>8
  <2> QED BY <1>5, <2>1, <2>2 DEF Front
<1>11. Taken(v) = 0 /\ Base(v) = w.wcnt
  <2>1. Lesser(mo, ts) = mo
    BY <1>8 DEF Lesser
  <2>2. Taken(v) = mo - mo
    BY <1>5, <2>1 DEF Taken
  <2>3. Taken(v) = 0
    BY <1>2, <2>2
  <2>4. Base(v) = w.wcnt - 0
    BY <1>5, <2>3 DEF Base
  <2> QED BY <1>2, <2>3, <2>4
<1>12. Layout(v)
  <2>1. PgCol(Front(v)) = 0
    BY <1>3, <1>10, PageFacts
  <2>2. 0 + hs = mo - bs /\ tz + (EraseSize - tz) = EraseSize /\ EraseSize - tz = ts - bs
    BY <1>2, <1>3, <1>4, <1>8
  <2>3. hs > 0 => v.tempoffset = bs + 0
    BY <1>3, <1>5, <1>6
  <2>4. il >= ts - mo /\ (ts < e => il = ts - mo)
    BY <1>2, <1>3, <1>8
  <2>5. mo <= ts /\ ~(mo > ts) /\ mo <= e /\ 0 <= w.wcnt
    BY <1>2, <1>3, <1>8
  <2>6. v.blockstart + EraseSize = e
    BY <1>5
  <2> HIDE DEF ts, e
  <2> QED BY <1>2, <1>3, <1>5, <1>8, <1>11, <2>1, <2>2, <2>3, <2>4, <2>5, <2>6 DEF Layout
<1>13. (hs > 0 <=> bs < mo) /\ (tz > 0 <=> ts < e)
  BY <1>2, <1>3, <1>4, <1>8
<1> QED BY <1>5, <1>6, <1>8, <1>9, <1>10, <1>11, <1>12, <1>13 DEF mo, bs, il

(***************************************************************************)
(* What the driver calls leave in the flash.                               *)
(***************************************************************************)
LEMMA ErasedAtFacts ==
  ASSUME flash \in [Addr -> Bytes], NEW b \in Nat, Col(b) = 0, NEW f, f = ErasedAt(b)
  PROVE  /\ f \in [Addr -> Bytes]
         /\ \A a \in Addr : f[a] = IF b <= a /\ a < b + EraseSize THEN Erased ELSE flash[a]
<1>1. f = [a \in Addr |-> IF BlockStart(a) = b THEN Erased ELSE flash[a]]
  BY DEF ErasedAt
<1>2. Erased \in Bytes
  BY DEF Bytes
<1>3. f \in [Addr -> Bytes]
  BY <1>1, <1>2
<1>4. ASSUME NEW a \in Addr PROVE BlockStart(a) = b <=> b <= a /\ a < b + EraseSize
  <2>1. a \in Nat
    BY DEF Addr
  <2> QED BY <2>1, SameBlock, BlockFacts
<1> QED BY <1>1, <1>3, <1>4

LEMMA ContentFacts ==
  ASSUME Local, InBody, ~NewBlock
  PROVE  /\ Base(w) \in Nat /\ Base(w) + (w.tailstart - w.headend) <= w.len
         /\ \A a \in Nat : w.headend <= a /\ a < w.tailstart =>
              /\ a - w.headend \in Nat /\ Base(w) + (a - w.headend) \in 0 .. w.len - 1
         /\ \A a \in Within(w) : a \in Nat /\ a \in Addr /\ a - w.blockstart \in 0 .. EraseSize - 1
         /\ \A a \in Within(w) : Content(w, buf, a) \in Bytes
<1> DEFINE he == w.headend
           ts == w.tailstart
           mo == w.mtdoffset
           bs == w.blockstart
           wc == w.wcnt
           il == w.imglen
           b  == Base(w)
<1>1. w \in Locals /\ Layout(w) /\ TypeOK /\ buf \in [0 .. EraseSize - 1 -> Addr \cup {Erased, Zero}]
  BY LayoutFacts DEF Local, Typed
<1>2. he \in Nat /\ ts \in Nat /\ mo \in Nat /\ wc \in Nat /\ il \in Nat /\ w.len \in Nat
      /\ wc = w.len - il
  BY <1>1 DEF Locals, TypeOK
<1>3. /\ bs \in Nat /\ bs + EraseSize <= Size /\ he < ts /\ (mo <= ts => il >= ts - mo)
      /\ he <= mo
  BY <1>1 DEF Layout
<1>4. b = wc - (Lesser(mo, ts) - he)
  BY DEF Base, Taken
<1>5. b \in Nat
  BY AdvancedLayout
<1>6. b + (ts - he) <= w.len
  <2> HIDE DEF he, ts, mo, wc, il, b
  <2> QED BY <1>2, <1>3, <1>4 DEF Lesser
<1>7. ASSUME NEW a \in Nat, he <= a, a < ts PROVE a - he \in Nat /\ b + (a - he) \in 0 .. w.len - 1
  <2> HIDE DEF he, ts, b
  <2> QED BY <1>2, <1>5, <1>6, <1>7
<1>8. ASSUME NEW a \in Within(w) PROVE a \in Nat /\ a \in Addr /\ a - bs \in 0 .. EraseSize - 1
  <2>1. a \in bs .. (bs + EraseSize) - 1
    BY DEF Within
  <2> HIDE DEF bs
  <2> QED BY <1>3, <2>1, Sizes DEF Addr
<1>9. ASSUME NEW a \in Within(w) PROVE Content(w, buf, a) \in Bytes
  <2>1. a \in Nat /\ a - bs \in 0 .. EraseSize - 1
    BY <1>8
  <2>2. buf[a - bs] \in Bytes
    BY <1>1, <2>1 DEF Bytes
  <2>3. he <= a /\ a < ts => Img(b + (a - he)) \in Bytes
    <3>1. \A i \in 0 .. w.len - 1 : Img(i) \in Bytes
      BY DEF Bytes
    <3> HIDE DEF b, he, ts
    <3> QED BY <1>7, <2>1, <3>1
  <2>4. Content(w, buf, a) = IF he <= a /\ a < ts THEN Img(b + (a - he)) ELSE buf[a - bs]
    BY DEF Content
  <2> HIDE DEF b, he, ts, bs
  <2> QED BY <2>2, <2>3, <2>4
<1> QED BY <1>5, <1>6, <1>7, <1>8, <1>9

LEMMA ProgrammedFacts ==
  ASSUME Local, InBody, ~NewBlock, NEW f, f = Programmed
  PROVE  /\ f \in [Addr -> Bytes]
         /\ \A a \in Addr : f[a] = IF Front(w) <= a /\ a < Front(w) + WriteSize
                                   THEN Content(w, buf, a) ELSE flash[a]
         /\ \A a \in Addr : a \notin Within(w) => f[a] = flash[a]
<1> DEFINE p == Front(w)
<1>1. p \in Nat /\ w.blockstart <= p /\ p + WriteSize <= w.blockstart + EraseSize
      /\ w.blockstart \in Nat
  BY LayoutFacts DEF Layout
<1>2. f = [a \in Addr |-> IF a \in p .. p + WriteSize - 1 THEN PageByte(a - p) ELSE flash[a]]
  BY PageBytes DEF Programmed
<1> HIDE DEF p
<1>3. ASSUME NEW a \in Addr
      PROVE  /\ a \in p .. p + WriteSize - 1 <=> p <= a /\ a < p + WriteSize
             /\ a \in Nat
             /\ p <= a /\ a < p + WriteSize => a \in Within(w)
  BY <1>1, Sizes DEF Addr, Within
<1>4. ASSUME NEW a \in Addr
      PROVE  f[a] = IF p <= a /\ a < p + WriteSize THEN Content(w, buf, a) ELSE flash[a]
  <2>1. p <= a /\ a < p + WriteSize => PageByte(a - p) = Content(w, buf, a)
    BY <1>3, PageBytes DEF p
  <2> QED BY <1>2, <1>3, <2>1
<1>5. flash \in [Addr -> Bytes]
  BY DEF Local, Typed, TypeOK
<1>6. \A a \in Addr : f[a] \in Bytes
  BY <1>3, <1>4, <1>5, ContentFacts
<1>7. f \in [Addr -> Bytes]
  BY <1>2, <1>6
<1> QED BY <1>3, <1>4, <1>7 DEF p

(***************************************************************************)
(* The locals, step by step.                                               *)
(***************************************************************************)
LEMMA IdleFields ==
  /\ Idle.off = 0 /\ Idle.len = 0 /\ Idle.imglen = 0 /\ Idle.wcnt = 0 /\ Idle.mtdoffset = 0
  /\ Idle.blockstart = -1 /\ Idle.head = 0 /\ Idle.tail = 0 /\ Idle.dataBack = FALSE
  /\ Idle \in Locals
BY DEF Idle, Locals

LEMMA LocalInit == ASSUME Init PROVE Local
<1>1. /\ flash = [a \in Addr |-> a] /\ bad \subseteq Blocks /\ pc = "idle" /\ w = Idle
      /\ buf = [i \in 0 .. EraseSize - 1 |-> Zero] /\ ret = 0 /\ hist = [bad |-> bad, n |-> NoFails]
  BY RequestAssumption DEF Init
<1>2. NoFails \in Fails /\ NoFails.mark = 0 /\ NoFails.erase = 0 /\ NoFails.full = 0
      /\ NoFails.write = 0 /\ NoFails.head = 0
  BY DEF NoFails, Fails
<1>3. flash \in [Addr -> Bytes] /\ buf \in [0 .. EraseSize - 1 -> Addr \cup {Erased, Zero}]
      /\ buf \in [0 .. EraseSize - 1 -> Bytes]
  BY <1>1 DEF Bytes
<1>4. 0 \in 0 .. 0 /\ 0 = 0 - 0 /\ 0 \in 0 .. 2 * Size /\ 0 \in 0 .. EraseSize
  BY Sizes
<1>5. TypeOK
  BY <1>1, <1>3, <1>4, IdleFields DEF TypeOK
<1>6. Typed
  BY <1>1, <1>2, <1>3, <1>5, IdleFields DEF Typed
<1>7. ~Inside /\ ~Outside
  BY <1>1 DEF Inside, Outside, Under
<1> QED BY <1>6, <1>7 DEF Local, Geometry, NextBlock, Ahead

LEMMA LocalBegin ==
  ASSUME Local, NEW off \in Offsets, NEW len \in Lengths, Begin(off, len)
  PROVE  /\ Local' /\ ~Inside'
         /\ w'.off = off /\ w'.len = len /\ w'.imglen = len /\ w'.wcnt = 0
         /\ pc' = "loop" => Outside' /\ w'.mtdoffset = SkipBad(off)
         /\ pc' # "loop" => ~Outside' /\ ret' = -1
         /\ hist.n = NoFails /\ flash = [a \in Addr |-> a]
<1> DEFINE mo == IF Fits(off, len) THEN SkipBad(off) ELSE off
<1>1. /\ pc = "idle" /\ w' = [Idle EXCEPT !.off = off, !.len = len, !.imglen = len, !.mtdoffset = mo]
      /\ IF Fits(off, len) THEN pc' = "loop" /\ ret' = 0 ELSE pc' = "done" /\ ret' = -1
      /\ flash' = flash /\ bad' = bad /\ buf' = buf /\ hist' = hist
  BY DEF Begin
<1>2. off \in Addr /\ off \in Nat /\ off < Size /\ len \in Nat /\ len > 0
  BY RequestAssumption, Sizes DEF Addr
<1>3. mo \in Nat /\ mo <= off + Size /\ Col(mo) = Col(off)
  <2>1. SkipBad(off) \in Nat /\ SkipBad(off) <= off + Size /\ Col(SkipBad(off)) = Col(off)
    BY <1>2, SkipFacts
  <2> QED BY <1>2, <2>1, Sizes
<1>4. Typed /\ TypeOK
  BY DEF Local, Typed
<1> HIDE DEF mo
<1>5. /\ w'.off = off /\ w'.len = len /\ w'.imglen = len /\ w'.wcnt = 0 /\ w'.mtdoffset = mo
      /\ w'.blockstart = -1 /\ w'.head = 0 /\ w'.tail = 0 /\ w'.dataBack = FALSE
  BY <1>1 DEF Idle
<1>6. w' \in Locals
  BY <1>1, <1>2, <1>3 DEF Idle, Locals
<1>7. mo \in 0 .. 2 * Size /\ 0 \in 0 .. EraseSize /\ len \in 0 .. len /\ 0 = len - len
  BY <1>2, <1>3, Sizes
<1>8. buf \in [0 .. EraseSize - 1 -> Addr \cup {Erased, Zero}] /\ flash = [a \in Addr |-> a]
      /\ hist.n = NoFails /\ hist \in [bad : SUBSET Blocks, n : Fails]
  BY <1>1, <1>4 DEF Typed
<1>9. flash' \in [Addr -> Bytes'] /\ buf' \in [0 .. EraseSize - 1 -> Bytes']
  BY <1>1, <1>8 DEF Bytes
<1>10. TypeOK'
  <2>1. bad' \subseteq Blocks /\ (bad' = hist'.bad \/ hist'.n.erase + hist'.n.write > 0)
    BY <1>1, <1>4 DEF TypeOK
  <2>2. pc' \in {"idle", "loop", "blk", "done"} /\ ret' \in {0, 1, -1, EIO}
    BY <1>1
  <2> QED BY <1>5, <1>7, <1>9, <2>1, <2>2 DEF TypeOK
<1>11. Typed'
  <2>1. pc' # "idle" /\ (pc' = "done" /\ w'.imglen > 0 => ret' = -1)
    BY <1>1
  <2>2. hist'.n.mark <= hist'.n.erase /\ hist'.n.full <= hist'.n.write /\ hist'.n.head <= hist'.n.write
    BY <1>1, <1>4 DEF Typed
  <2> QED BY <1>1, <1>2, <1>5, <1>6, <1>8, <1>10, <2>1, <2>2 DEF Typed
<1>12. NewBlock'
  <2>1. BlockStart(mo) \in Nat
    BY <1>3, BlockFacts
  <2> QED BY <1>5, <2>1 DEF NewBlock
<1>13. ~Inside' /\ (pc' = "loop" => Outside') /\ (pc' # "loop" => ~Outside' /\ ret' = -1)
  <2>1. pc' = "loop" \/ (pc' = "done" /\ ret' = -1)
    BY <1>1
  <2>2. ~(len = 0)
    BY <1>2
  <2> QED BY <1>5, <1>12, <2>1, <2>2 DEF Inside, Outside, Under
<1>14. NextBlock' /\ Geometry' /\ Ahead'
  <2>1. NextBlock'
    <3>1. hist'.n.head = 0
      BY <1>1, <1>8 DEF NoFails
    <3> QED BY <1>2, <1>3, <1>5, <3>1 DEF NextBlock
  <2>2. Geometry'
    BY <1>13 DEF Geometry
  <2>3. Ahead'
    BY <1>1, <1>8, <1>13 DEF Ahead
  <2> QED BY <2>1, <2>2, <2>3
<1>15. pc' = "loop" => mo = SkipBad(off)
  BY <1>1 DEF mo
<1> QED BY <1>5, <1>8, <1>11, <1>13, <1>14, <1>15 DEF Local

\* A call that gives up, or that ends with the image written.
LEMMA LocalClose ==
  ASSUME Local, NEW r \in {0, 1, -1, EIO}, pc \in {"loop", "blk"}, Close(r), Outside,
         w.imglen = 0 => pc = "loop",
         UNCHANGED <<flash, bad, w, buf, hist>>
  PROVE  Local' /\ pc' = "done" /\ (w'.imglen > 0 => ~Outside' /\ ret' = -1)
         /\ (w'.imglen = 0 => Outside') /\ ~Inside'
<1>1. /\ pc' = "done" /\ ret' = IF w.imglen > 0 THEN -1 ELSE r
      /\ flash' = flash /\ bad' = bad /\ w' = w /\ buf' = buf /\ hist' = hist
  BY DEF Close
<1>2. TypeOK /\ w \in Locals /\ w.imglen \in Nat
  BY DEF Local, Typed, Locals
<1>3. ~Inside' /\ (Outside' <=> w.imglen = 0) /\ (w.imglen > 0 => w.imglen # 0)
  BY <1>1, <1>2 DEF Inside, Outside, Under
<1>4. TypeOK'
  <2>1. ret' \in {0, 1, -1, EIO} /\ pc' \in {"idle", "loop", "blk", "done"}
    BY <1>1
  <2> QED BY <1>1, <1>2, <2>1 DEF TypeOK, Bytes
<1>5. Typed'
  <2>1. pc' # "idle" /\ (pc' = "done" /\ w'.imglen > 0 => ret' = -1)
    BY <1>1
  <2>2. w.off \in Addr /\ w.len > 0
    BY DEF Local, Typed
  <2> QED BY <1>1, <1>4, <2>1, <2>2 DEF Local, Typed
<1>6. Geometry' /\ Ahead'
  BY <1>1, <1>3 DEF Geometry, Ahead
<1>7. NextBlock'
  <2>1. w.imglen = 0 => w.head = 0 /\ w.tail = 0
    BY <1>3 DEF Local, NextBlock
  <2>2. Outside' => w.head = 0 /\ w.tail = 0 /\ ~(w.imglen > 0)
    BY <1>3, <2>1
  <2> QED BY <1>1, <2>2 DEF NextBlock
<1>8. w'.imglen = w.imglen /\ (w.imglen > 0 => ret' = -1)
  BY <1>1
<1> QED BY <1>1, <1>3, <1>5, <1>6, <1>7, <1>8 DEF Local

LEMMA LocalGiveUp ==
  ASSUME Local, OpenPastEnd \/ OpenReadFail
  PROVE  Local' /\ ~Outside' /\ ~Inside' /\ ret' = -1 /\ UNCHANGED <<flash, bad, w, buf, hist>>
         /\ Outside
<1>1. InBody /\ NewBlock /\ UNCHANGED <<flash, bad, w, buf, hist>> /\ (Close(-1) \/ Close(0))
  BY DEF OpenPastEnd, OpenReadFail, CanOpen
<1>2. Outside /\ w.imglen > 0 /\ pc \in {"loop", "blk"} /\ w \in Locals
  BY <1>1, OutsideFacts
<1>3. ~(w.imglen = 0) /\ w'.imglen = w.imglen
  BY <1>1, <1>2 DEF Locals
<1>4. -1 \in {0, 1, -1, EIO} /\ 0 \in {0, 1, -1, EIO}
  OBVIOUS
<1>5. Local' /\ ~Outside' /\ ~Inside' /\ ret' = -1
  <2>1. CASE Close(-1)
    BY <1>1, <1>2, <1>3, <1>4, <2>1, LocalClose
  <2>2. CASE Close(0)
    BY <1>1, <1>2, <1>3, <1>4, <2>2, LocalClose
  <2> QED BY <1>1, <2>1, <2>2
<1> QED BY <1>1, <1>2, <1>5

LEMMA LocalFinish ==
  ASSUME Local, Finish
  PROVE  /\ Local' /\ ~Inside' /\ Outside
         /\ UNCHANGED <<flash, bad, w, buf, hist>> /\ pc' = "done"
         /\ (w.imglen = 0 => Outside') /\ (w.imglen > 0 => ~Outside' /\ ret' = -1)
<1>1. pc = "loop" /\ ~MoreToDo /\ Close(ret) /\ UNCHANGED <<flash, bad, w, buf, hist>>
  BY DEF Finish
<1>2. w \in Locals /\ ret \in {0, 1, -1, EIO}
  BY DEF Local, Typed, TypeOK
<1>3. NewBlock
  <2> SUFFICES ASSUME ~NewBlock PROVE FALSE
    OBVIOUS
  <2>1. Inside
    BY <1>1 DEF Inside, Under
  <2>2. Layout(w)
    BY <2>1 DEF Local, Geometry
  <2> DEFINE mo == w.mtdoffset
             bs == w.blockstart
             ts == w.tailstart
             il == w.imglen
             h  == w.head
             t  == w.tail
             to == w.tailoffset
  <2>3. /\ mo \in Nat /\ ts \in Nat /\ il \in Nat /\ h \in Nat /\ t \in Nat /\ to \in Nat
    BY <1>2 DEF Locals
  <2>4. bs = BlockStart(mo)
    BY DEF NewBlock
  <2>5. mo < bs + EraseSize
    BY <2>3, <2>4, BlockFacts
  <2>6. /\ bs \in Nat /\ bs + EraseSize <= Size /\ t + to = EraseSize
        /\ mo <= ts => to = ts - bs /\ il >= ts - mo
        /\ mo > ts => to = mo - bs
    BY <2>2 DEF Layout
  <2>7. ~((il > 0 \/ h > 0 \/ t > 0) /\ mo < Size)
    BY <1>1 DEF MoreToDo
  <2> HIDE DEF mo, bs, ts, il, h, t, to
  <2>8. mo < Size
    BY <2>3, <2>5, <2>6, Sizes
  <2>9. ~(il > 0) /\ ~(t > 0)
    BY <2>7, <2>8
  <2>10. il = 0 /\ t = 0
    BY <2>3, <2>9
  <2>11. to = EraseSize
    BY <2>3, <2>6, <2>10, Sizes
  <2>12. mo <= ts \/ mo > ts
    BY <2>3
  <2> QED BY <2>3, <2>5, <2>6, <2>10, <2>11, <2>12, Sizes
<1>4. Outside
  BY <1>1, <1>3 DEF Outside, Under
<1>5. pc \in {"loop", "blk"} /\ w'.imglen = w.imglen
  BY <1>1
<1> HIDE DEF Close
<1> QED BY <1>1, <1>2, <1>4, <1>5, LocalClose

LEMMA LocalOpenBad ==
  ASSUME Local, OpenBad
  PROVE  /\ Local' /\ ~Inside' /\ Outside' /\ Outside /\ w.imglen > 0 /\ w.mtdoffset < Size
         /\ BlockOf(w.mtdoffset) \in bad
         /\ w'.off = w.off /\ w'.len = w.len /\ w'.imglen = w.imglen /\ w'.wcnt = w.wcnt
         /\ w'.mtdoffset = w.mtdoffset + EraseSize /\ w'.dataBack = w.dataBack
         /\ UNCHANGED <<flash, bad, buf, hist>>
<1> DEFINE mo == w.mtdoffset
<1>1. /\ InBody /\ NewBlock /\ mo < Size /\ pc' = "blk" /\ ret' = 1
      /\ w' = [w EXCEPT !.blockstart = BlockStart(mo), !.head = 0, !.tail = 0,
                        !.mtdoffset = mo + EraseSize]
      /\ flash' = flash /\ bad' = bad /\ buf' = buf /\ hist' = hist
      /\ BlockOf(mo) \in bad
  BY DEF OpenBad
<1>2. Outside /\ w.imglen > 0 /\ w \in Locals
      /\ (Col(mo) # 0 => w.wcnt = 0 /\ hist.n.head = 0 /\ Col(mo) = Col(w.off))
  BY <1>1, OutsideFacts
<1>3. /\ mo \in Nat
  BY <1>2 DEF Locals
<1>4. /\ BlockStart(mo) \in Nat /\ BlockStart(mo + EraseSize) = BlockStart(mo) + EraseSize
      /\ Col(mo + EraseSize) = Col(mo) /\ mo + EraseSize \in Nat
  BY <1>3, BlockFacts, BlockAfter
<1> DEFINE no == mo + EraseSize
<1>5. w' = [w EXCEPT !.blockstart = BlockStart(mo), !.head = 0, !.tail = 0, !.mtdoffset = no]
  BY <1>1
<1> HIDE DEF mo, no, BlockStart
<1>6. /\ w'.off = w.off /\ w'.len = w.len /\ w'.imglen = w.imglen /\ w'.wcnt = w.wcnt
      /\ w'.mtdoffset = no /\ w'.dataBack = w.dataBack /\ w'.blockstart = BlockStart(mo)
      /\ w'.head = 0 /\ w'.tail = 0
  BY <1>2, <1>5 DEF Locals
<1>7. w' \in Locals
  BY <1>2, <1>4, <1>5 DEF Locals, no
<1>8. TypeOK'
  <2>1. TypeOK
    BY DEF Local, Typed
  <2>2. no \in 0 .. 2 * Size /\ 0 \in 0 .. EraseSize
    BY <1>1, <1>3, <1>4, Sizes DEF no
  <2>3. ret' \in {0, 1, -1, EIO} /\ pc' \in {"idle", "loop", "blk", "done"}
    BY <1>1
  <2> QED BY <1>1, <1>6, <2>1, <2>2, <2>3 DEF TypeOK, Bytes
<1>9. Typed'
  <2>1. pc' # "idle" /\ pc' # "done" /\ pc # "idle"
    BY <1>1 DEF InBody
  <2>2. Typed
    BY DEF Local
  <2> QED BY <1>1, <1>6, <1>7, <1>8, <2>1, <2>2 DEF Typed
<1>10. Outside' /\ ~Inside'
  <2>1. BlockStart(no) # BlockStart(mo)
    BY <1>4, Sizes DEF no
  <2> QED BY <1>1, <1>6, <2>1 DEF Outside, Inside, Under, NewBlock
<1>11. NextBlock' /\ Geometry' /\ Ahead'
  <2>1. NextBlock'
    BY <1>1, <1>2, <1>4, <1>6 DEF NextBlock, no
  <2>2. Geometry'
    BY <1>10 DEF Geometry
  <2>3. ASSUME NEW a \in Addr, a >= BlockStart(no) PROVE flash[a] = a
    <3>1. a >= BlockStart(mo)
      BY <1>4, <2>3, Sizes DEF no, Addr
    <3> QED BY <1>2, <3>1 DEF Local, Ahead, mo
  <2>4. Ahead'
    BY <1>1, <1>6, <1>10, <2>3 DEF Ahead
  <2> QED BY <2>1, <2>2, <2>4
<1> QED BY <1>1, <1>2, <1>6, <1>9, <1>10, <1>11 DEF Local, mo, no

\* What entering a good block has kept of it, and left in it.
LEMMA SavedFacts ==
  ASSUME Local, InBody, NewBlock, w.mtdoffset < Size, NEW b, b = BlockStart(w.mtdoffset)
  PROVE  /\ b \in Nat /\ Col(b) = 0 /\ b + EraseSize <= Size
         /\ Saved \in [0 .. EraseSize - 1 -> Addr \cup {Erased, Zero}]
         /\ Partly /\ ~w.dataBack => \A i \in 0 .. EraseSize - 1 : Saved[i] = b + i
         /\ ~(Partly /\ ~w.dataBack) => Saved = buf
         /\ ErasedAt(b) \in [Addr -> Bytes]
         /\ \A a \in Addr : ErasedAt(b)[a] = IF b <= a /\ a < b + EraseSize THEN Erased ELSE flash[a]
         /\ \A a \in Addr : a >= b => flash[a] = a
<1>1. w \in Locals /\ Outside /\ w.imglen > 0
  BY OutsideFacts
<1>2. w.mtdoffset \in Nat
  BY <1>1 DEF Locals
<1>3. b \in Nat /\ b = BlockOf(w.mtdoffset) * EraseSize /\ BlockOf(w.mtdoffset) \in Nat
      /\ b + EraseSize <= Size
  BY <1>2, BlockFacts, BlockInside
<1>4. Col(b) = 0
  <2>1. BlockOf(w.mtdoffset) * EraseSize + 0 = b /\ 0 < EraseSize /\ EraseSize \in Nat
    BY <1>3, Sizes
  <2> QED BY <1>3, <2>1, InBlock
<1>5. \A a \in Addr : a >= b => flash[a] = a
  BY <1>1 DEF Local, Ahead
<1>6. ASSUME NEW i \in 0 .. EraseSize - 1 PROVE b + i \in Addr /\ flash[b + i] = b + i
  <2>1. b + i \in Addr /\ b + i >= b
    BY <1>3, Sizes DEF Addr
  <2> QED BY <1>5, <2>1
<1>7. Saved = IF Partly /\ ~w.dataBack THEN [i \in 0 .. EraseSize - 1 |-> flash[b + i]] ELSE buf
  BY DEF Saved
<1>8. buf \in [0 .. EraseSize - 1 -> Addr \cup {Erased, Zero}] /\ flash \in [Addr -> Bytes]
  BY DEF Local, Typed, TypeOK
<1>9. Saved \in [0 .. EraseSize - 1 -> Addr \cup {Erased, Zero}]
  <2> DEFINE c == Partly /\ ~w.dataBack
  <2> HIDE DEF c
  <2>1. Saved = IF c THEN [i \in 0 .. EraseSize - 1 |-> flash[b + i]] ELSE buf
    BY <1>7 DEF c
  <2>2. CASE c
    BY <1>6, <2>1, <2>2
  <2>3. CASE ~c
    BY <1>8, <2>1, <2>3
  <2> QED BY <2>2, <2>3
<1>10. Partly /\ ~w.dataBack => \A i \in 0 .. EraseSize - 1 : Saved[i] = b + i
  BY <1>6, <1>7
<1>11. ~(Partly /\ ~w.dataBack) => Saved = buf
  BY <1>7
<1>12. /\ ErasedAt(b) \in [Addr -> Bytes]
       /\ \A a \in Addr : ErasedAt(b)[a] = IF b <= a /\ a < b + EraseSize THEN Erased ELSE flash[a]
  BY <1>3, <1>4, <1>8, ErasedAtFacts
<1> QED BY <1>3, <1>4, <1>5, <1>9, <1>10, <1>11, <1>12

LEMMA LocalOpenGood ==
  ASSUME Local, OpenGood
  PROVE  /\ Local' /\ Inside' /\ ~Outside' /\ Outside /\ w.imglen > 0 /\ w.mtdoffset < Size
         /\ InBody /\ NewBlock /\ w' = Opened /\ buf' = Saved
         /\ \A a \in Addr : /\ a \in Within(w') => flash'[a] = Erased
                            /\ a \notin Within(w') => flash'[a] = flash[a]
         /\ UNCHANGED <<bad, hist>> /\ w'.off = w.off /\ w'.len = w.len
<1> DEFINE b == BlockStart(w.mtdoffset)
<1>1. /\ InBody /\ NewBlock /\ w.mtdoffset < Size /\ BlockOf(w.mtdoffset) \notin bad
      /\ w' = Opened /\ buf' = Saved /\ flash' = ErasedAt(b) /\ pc' = "blk" /\ ret' = 0
      /\ bad' = bad /\ hist' = hist
  BY DEF OpenGood, CanOpen
<1>2. /\ Outside /\ ~Inside /\ w.imglen > 0 /\ w \in Locals
      /\ (Col(w.mtdoffset) # 0 => w.wcnt = 0 /\ hist.n.head = 0 /\ Col(w.mtdoffset) = Col(w.off))
  BY <1>1, OutsideFacts
<1>3. /\ w' \in Locals /\ Layout(w') /\ Base(w') = w.wcnt /\ w'.blockstart = b /\ w'.headend = w.mtdoffset
      /\ Front(w') = b
  BY <1>1, OpenedLayout
<1>4. /\ w'.off = w.off /\ w'.len = w.len /\ w'.imglen = w.imglen /\ w'.wcnt = w.wcnt
      /\ w'.mtdoffset = w.mtdoffset /\ (w'.dataBack => w.dataBack)
  <2>1. w'.dataBack = IF Partly THEN FALSE ELSE w.dataBack
    BY <1>1, <1>2, OpenedFields
  <2> QED BY <1>1, <1>2, <2>1, OpenedFields
<1>5. /\ b \in Nat /\ Col(b) = 0 /\ b + EraseSize <= Size
      /\ buf' \in [0 .. EraseSize - 1 -> Addr \cup {Erased, Zero}]
      /\ flash' \in [Addr -> Bytes]
      /\ \A a \in Addr : flash'[a] = IF b <= a /\ a < b + EraseSize THEN Erased ELSE flash[a]
      /\ \A a \in Addr : a >= b => flash[a] = a
  BY <1>1, SavedFacts
<1> HIDE DEF b
<1>6. w.mtdoffset \in Nat /\ b <= w.mtdoffset /\ BlockStart(w.mtdoffset) = b
      /\ BlockOf(b) = BlockOf(w.mtdoffset)
  <2>1. w.mtdoffset \in Nat
    BY <1>2 DEF Locals
  <2>2. b <= w.mtdoffset /\ w.mtdoffset < b + EraseSize
    BY <2>1, BlockFacts DEF b
  <2> QED BY <1>5, <2>1, <2>2, SameBlock DEF b
<1>7. Inside' /\ ~Outside'
  <2>1. ~NewBlock'
    BY <1>3, <1>4, <1>6 DEF NewBlock, BlockStart, BlockOf
  <2> QED BY <1>1, <2>1 DEF Inside, Outside, Under
<1>8. TypeOK'
  <2>1. TypeOK /\ w' \in Locals
    BY <1>3 DEF Local, Typed
  <2>2. w'.head \in 0 .. EraseSize /\ w'.tail \in 0 .. EraseSize
    <3> DEFINE h == w'.head
               t == w'.tail
               to == w'.tailoffset
               ho == w'.headoffset
               he == w'.headend
    <3>1. h \in Nat /\ t \in Nat /\ to \in Nat /\ ho \in Nat /\ he \in Nat
      BY <2>1 DEF Locals
    <3>2. ho + h = he - b /\ t + to = EraseSize /\ he < w'.tailstart
          /\ w'.tailstart <= b + EraseSize /\ w'.tailstart \in Nat
      BY <1>3, <2>1 DEF Layout, Locals
    <3> HIDE DEF h, t, to, ho, he
    <3>3. h \in 0 .. EraseSize /\ t \in 0 .. EraseSize
      BY <1>5, <3>1, <3>2, Sizes
    <3> QED BY <3>3 DEF h, t
  <2>3. ret' \in {0, 1, -1, EIO} /\ pc' \in {"idle", "loop", "blk", "done"}
    BY <1>1
  <2>4. flash' \in [Addr -> Bytes'] /\ buf' \in [0 .. EraseSize - 1 -> Bytes']
    BY <1>4, <1>5 DEF Bytes
  <2>5. /\ bad' \subseteq Blocks /\ w'.imglen \in 0 .. w'.len /\ w'.wcnt = w'.len - w'.imglen
        /\ w'.mtdoffset \in 0 .. 2 * Size /\ (bad' = hist'.bad \/ hist'.n.erase + hist'.n.write > 0)
    BY <1>1, <1>4, <2>1 DEF TypeOK
  <2> QED BY <2>2, <2>3, <2>4, <2>5 DEF TypeOK
<1>9. Typed'
  <2>1. pc' # "idle" /\ pc' # "done" /\ pc # "idle"
    BY <1>1 DEF InBody
  <2>2. Typed
    BY DEF Local
  <2> QED BY <1>1, <1>3, <1>4, <1>5, <1>8, <2>1, <2>2 DEF Typed
<1>10. NextBlock' /\ Geometry' /\ Ahead'
  <2>1. NextBlock'
    BY <1>7 DEF NextBlock
  <2>2. Geometry'
    <3>1. w'.headend > w'.blockstart => Base(w') = 0 /\ hist'.n.head = 0 /\ Col(w'.headend) = Col(w'.off)
      <4> SUFFICES ASSUME w.mtdoffset > b PROVE w.wcnt = 0 /\ hist.n.head = 0 /\ Col(w.mtdoffset) = Col(w.off)
        BY <1>1, <1>3, <1>4
      <4>1. Col(w.mtdoffset) # 0
        <5>1. Col(w.mtdoffset) = w.mtdoffset - b
          BY <1>6, BlockFacts
        <5> QED BY <1>5, <1>6, <5>1
      <4> QED BY <1>2, <4>1
    <3>2. BlockOf(w'.blockstart) \notin bad'
      BY <1>1, <1>3, <1>6
    <3> QED BY <1>3, <3>1, <3>2 DEF Geometry, Layout, Taken, Base, Front, Col, PgCol, BlockOf
  <2>3. Ahead'
    <3>1. ASSUME NEW a \in Addr, a >= b + EraseSize PROVE flash'[a] = a
      <4>1. a >= b /\ ~(a < b + EraseSize)
        BY <1>5, <3>1, Sizes DEF Addr
      <4> QED BY <1>5, <4>1
    <3> QED BY <1>3, <1>7, <3>1 DEF Ahead
  <2> QED BY <2>1, <2>2, <2>3
<1>11. \A a \in Addr : a \in Within(w') <=> b <= a /\ a < b + EraseSize
  <2>1. Within(w') = b .. (b + EraseSize) - 1
    BY <1>3 DEF Within
  <2> QED BY <1>5, <2>1, Sizes DEF Addr
<1>12. \A a \in Addr : /\ a \in Within(w') => flash'[a] = Erased
                       /\ a \notin Within(w') => flash'[a] = flash[a]
  BY <1>5, <1>11
<1> QED BY <1>1, <1>2, <1>4, <1>7, <1>9, <1>10, <1>12 DEF Local

LEMMA LocalOpenEraseFail ==
  ASSUME Local, OpenEraseFail
  PROVE  /\ Local' /\ ~Inside' /\ Outside /\ w.imglen > 0 /\ w.mtdoffset < Size
         /\ \/ Outside' /\ w'.mtdoffset = w.mtdoffset + EraseSize
            \/ ~Outside' /\ ret' = -1
         /\ w'.off = w.off /\ w'.len = w.len /\ w'.imglen = w.imglen /\ w'.wcnt = w.wcnt
         /\ bad' = bad \cup {BlockOf(w.mtdoffset)} /\ BlockOf(w.mtdoffset) \notin bad
         /\ hist'.bad = hist.bad /\ hist'.n.erase = hist.n.erase + 1 /\ hist'.n.write = hist.n.write
         /\ hist'.n.full = hist.n.full /\ hist'.n.head = hist.n.head
         /\ \A a \in Addr : /\ BlockOf(a) # BlockOf(w.mtdoffset) => flash'[a] = flash[a]
                            /\ flash'[a] \in {flash[a], Erased}
<1> DEFINE b == BlockStart(w.mtdoffset)
           mo == w.mtdoffset
           il == w.imglen
           First == /\ w' = [Opened EXCEPT !.mtdoffset = @ + EraseSize]
                    /\ pc' = "blk" /\ ret' = 0
                    /\ hist' = [hist EXCEPT !.n.erase = @ + 1]
           Second == /\ w' = Opened /\ Close(EIO)
                     /\ hist' = [hist EXCEPT !.n.erase = @ + 1, !.n.mark = @ + 1]
<1>1. /\ InBody /\ NewBlock /\ mo < Size /\ BlockOf(mo) \notin bad
      /\ buf' = Saved /\ bad' = bad \cup {BlockOf(mo)}
      /\ (flash' = flash \/ flash' = ErasedAt(b))
  BY DEF OpenEraseFail, CanOpen
<1>2. First \/ Second
  BY DEF OpenEraseFail
<1>3. /\ Outside /\ ~Inside /\ il > 0 /\ w \in Locals /\ pc \in {"loop", "blk"}
      /\ (Col(mo) # 0 => w.wcnt = 0 /\ hist.n.head = 0 /\ Col(mo) = Col(w.off))
  BY <1>1, OutsideFacts
<1> DEFINE v == Opened
<1>4. /\ v \in Locals /\ Layout(v) /\ v.blockstart = b
  BY <1>1, OpenedLayout
<1>5. /\ v.off = w.off /\ v.len = w.len /\ v.imglen = il /\ v.wcnt = w.wcnt
      /\ v.mtdoffset = mo /\ (v.dataBack => w.dataBack)
  <2>1. v.dataBack = IF Partly THEN FALSE ELSE w.dataBack
    BY <1>3, OpenedFields
  <2> QED BY <1>3, <2>1, OpenedFields
<1> HIDE DEF v
<1>6. /\ b \in Nat /\ Col(b) = 0 /\ b + EraseSize <= Size
      /\ buf' \in [0 .. EraseSize - 1 -> Addr \cup {Erased, Zero}]
      /\ ErasedAt(b) \in [Addr -> Bytes]
      /\ \A a \in Addr : ErasedAt(b)[a] = IF b <= a /\ a < b + EraseSize THEN Erased ELSE flash[a]
      /\ \A a \in Addr : a >= b => flash[a] = a
  BY <1>1, SavedFacts
<1>7. mo \in Nat /\ il \in Nat /\ BlockOf(mo) \in Blocks
  <2>1. mo \in Nat /\ il \in Nat
    BY <1>3 DEF Locals
  <2> QED BY <1>1, <2>1, BlockInside
<1>8. \A a \in Addr : b <= a /\ a < b + EraseSize => BlockOf(a) = BlockOf(mo)
  <2>1. b <= mo /\ mo < b + EraseSize
    BY <1>7, BlockFacts
  <2>2. BlockOf(mo) = BlockOf(b)
    BY <1>6, <1>7, <2>1, SameBlock
  <2>3. ASSUME NEW a \in Addr, b <= a, a < b + EraseSize PROVE BlockOf(a) = BlockOf(mo)
    <3>1. a \in Nat
      BY DEF Addr
    <3> QED BY <1>6, <2>2, <2>3, <3>1, SameBlock
  <2> QED BY <2>3
<1>9. flash \in [Addr -> Bytes] /\ TypeOK /\ Typed
  BY DEF Local, Typed, TypeOK
<1>10. flash' \in [Addr -> Bytes]
  BY <1>1, <1>6, <1>9
<1>11. \A a \in Addr : /\ BlockOf(a) # BlockOf(mo) => flash'[a] = flash[a]
                       /\ flash'[a] \in {flash[a], Erased}
  BY <1>1, <1>6, <1>8
<1>12. /\ b + EraseSize = BlockStart(mo + EraseSize) /\ Col(mo + EraseSize) = Col(mo)
       /\ mo + EraseSize \in Nat
  BY <1>7, BlockAfter
<1>13. /\ (First \/ Second) /\ hist'.bad = hist.bad /\ hist'.n.erase = hist.n.erase + 1
       /\ hist'.n.write = hist.n.write /\ hist'.n.full = hist.n.full /\ hist'.n.head = hist.n.head
       /\ hist' \in [bad : SUBSET Blocks, n : Fails] /\ hist'.n.mark <= hist'.n.erase
       /\ hist.n.erase \in Nat /\ hist.n.write \in Nat
  <2>1. hist \in [bad : SUBSET Blocks, n : Fails] /\ hist.n.mark <= hist.n.erase
    BY <1>9 DEF Typed
  <2>2. CASE First
    BY <1>2, <2>1, <2>2 DEF Fails
  <2>3. CASE Second
    <3> DEFINE n == hist.n
               g == [hist EXCEPT !.n = [n EXCEPT !.erase = n.erase + 1]]
    <3>1. n \in Fails /\ hist.bad \in SUBSET Blocks
      BY <2>1
    <3>2. hist' = [g EXCEPT !.n = [g.n EXCEPT !.mark = n.mark + 1]]
      BY <2>3
    <3>3. g = [bad |-> hist.bad, n |-> [erase |-> n.erase + 1, write |-> n.write, full |-> n.full,
                                        head |-> n.head, mark |-> n.mark]]
      BY <2>1, <3>1 DEF Fails
    <3> HIDE DEF g
    <3>4. hist' = [bad |-> hist.bad, n |-> [erase |-> n.erase + 1, write |-> n.write, full |-> n.full,
                                            head |-> n.head, mark |-> n.mark + 1]]
      BY <3>2, <3>3
    <3> HIDE DEF n, First, Second
    <3> QED BY <1>2, <2>1, <3>1, <3>4 DEF Fails, n
  <2> QED BY <1>2, <2>2, <2>3
<1> DEFINE no == w'.mtdoffset
<1>14. /\ w' \in Locals /\ w'.off = w.off /\ w'.len = w.len /\ w'.imglen = il /\ w'.wcnt = w.wcnt
       /\ w'.blockstart = b /\ (w'.dataBack => w.dataBack) /\ w'.head = v.head /\ w'.tail = v.tail
       /\ (First => no = mo + EraseSize) /\ (Second => no = mo)
  <2>1. CASE First
    <3>1. w' = [v EXCEPT !.mtdoffset = mo + EraseSize]
      BY <1>5, <2>1 DEF v
    <3>2. EraseSize \in Nat /\ EraseSize > 0 /\ mo + EraseSize # mo
      BY <1>7, Sizes
    <3> HIDE DEF mo, b, il, First
    <3>3. w' \in Locals
      BY <1>4, <1>12, <3>1 DEF Locals
    <3>4. /\ w'.off = v.off /\ w'.len = v.len /\ w'.imglen = v.imglen /\ w'.wcnt = v.wcnt
          /\ w'.blockstart = v.blockstart /\ w'.dataBack = v.dataBack /\ w'.head = v.head /\ w'.tail = v.tail
          /\ w'.mtdoffset = mo + EraseSize
      BY <1>4, <3>1 DEF Locals
    <3>5. ~Second
      BY <3>2, <3>4, <1>5 DEF v
    <3> QED BY <1>4, <1>5, <2>1, <3>3, <3>4, <3>5
  <2>2. CASE Second /\ ~First
    <3>1. w' = v
      BY <2>2 DEF v
    <3> HIDE DEF First, Second
    <3> QED BY <1>4, <1>5, <2>2, <3>1
  <2> QED BY <1>2, <2>1, <2>2
<1>15. TypeOK'
  <2>1. v.head \in 0 .. EraseSize /\ v.tail \in 0 .. EraseSize
    <3> DEFINE h == v.head
               t == v.tail
               to == v.tailoffset
               ho == v.headoffset
               he == v.headend
    <3>1. h \in Nat /\ t \in Nat /\ to \in Nat /\ ho \in Nat /\ he \in Nat /\ v.tailstart \in Nat
      BY <1>4 DEF Locals
    <3>2. ho + h = he - b /\ t + to = EraseSize /\ he < v.tailstart /\ v.tailstart <= b + EraseSize
      BY <1>4 DEF Layout
    <3> HIDE DEF h, t, to, ho, he, b
    <3>3. h \in 0 .. EraseSize /\ t \in 0 .. EraseSize
      BY <1>6, <3>1, <3>2, Sizes
    <3> QED BY <3>3 DEF h, t
  <2>2. ret' \in {0, 1, -1, EIO} /\ pc' \in {"idle", "loop", "blk", "done"}
    BY <1>2 DEF Close
  <2>3. flash' \in [Addr -> Bytes'] /\ buf' \in [0 .. EraseSize - 1 -> Bytes']
    BY <1>6, <1>10, <1>14 DEF Bytes
  <2>4. /\ bad' \subseteq Blocks /\ w'.imglen \in 0 .. w'.len /\ w'.wcnt = w'.len - w'.imglen
    BY <1>1, <1>7, <1>9, <1>14 DEF TypeOK
  <2>5. no \in 0 .. 2 * Size
    <3> HIDE DEF First, Second, no, mo
    <3> QED BY <1>1, <1>2, <1>7, <1>14, Sizes
  <2>6. hist'.n.erase + hist'.n.write > 0
    BY <1>13
  <2> QED BY <1>14, <2>1, <2>2, <2>3, <2>4, <2>5, <2>6 DEF TypeOK
<1>16. pc' # "idle" /\ (pc' = "done" => ret' = -1) /\ pc # "idle"
       /\ (First => pc' = "blk") /\ (Second => pc' = "done")
  BY <1>2, <1>3 DEF Close
<1>17. Typed'
  <2> HIDE DEF First, Second, mo, b, il, no
  <2>1. /\ hist.n.full <= hist.n.write /\ hist.n.head <= hist.n.write /\ w.off \in Addr /\ w.len > 0
        /\ (w.dataBack => hist.n.write > 0)
    BY <1>9, <1>16 DEF Typed
  <2> QED BY <1>6, <1>13, <1>14, <1>15, <1>16, <2>1 DEF Typed
<1>18. ~Inside' /\ (First => Outside') /\ (Second => ~Outside' /\ ret' = -1)
  <2>1. First => NewBlock'
    <3> SUFFICES ASSUME First PROVE NewBlock'
      OBVIOUS
    <3>1. w'.blockstart = b /\ BlockStart(w'.mtdoffset) = b + EraseSize
      BY <1>12, <1>14
    <3>2. BlockStart(w'.mtdoffset) # w'.blockstart
      BY <1>6, <3>1, Sizes
    <3> QED BY <3>2 DEF NewBlock, BlockStart, BlockOf
  <2>2. w'.imglen # 0
    BY <1>3, <1>7, <1>14
  <2> HIDE DEF First, Second
  <2> QED BY <1>2, <1>16, <2>1, <2>2 DEF Inside, Outside, Under
<1>19. NextBlock' /\ Geometry' /\ Ahead'
  <2> HIDE DEF First, Second
  <2>1. NextBlock'
    <3> SUFFICES ASSUME First PROVE NextBlock'
      BY <1>2, <1>18 DEF NextBlock
    <3>1. w'.imglen > 0
      BY <1>3, <1>14
    <3>2. Col(w'.mtdoffset) = Col(mo)
      BY <1>12, <1>14
    <3> QED BY <1>3, <1>13, <1>14, <3>1, <3>2 DEF NextBlock, Col
  <2>2. Geometry'
    BY <1>18 DEF Geometry
  <2>3. Ahead'
    <3> SUFFICES ASSUME First PROVE Ahead'
      BY <1>2, <1>18 DEF Ahead
    <3>1. ASSUME NEW a \in Addr, a >= b + EraseSize PROVE flash'[a] = a
      <4>1. a >= b /\ ~(a < b + EraseSize)
        BY <1>6, <3>1, Sizes DEF Addr
      <4> QED BY <1>1, <1>6, <4>1
    <3>2. BlockStart(w'.mtdoffset) = b + EraseSize
      BY <1>12, <1>14
    <3>3. \A a \in Addr : a >= BlockStart(w'.mtdoffset) => flash'[a] = a
      BY <3>1, <3>2
    <3> QED BY <1>18, <3>3 DEF Ahead, BlockStart, BlockOf
  <2> QED BY <2>1, <2>2, <2>3
<1>20. (Outside' /\ w'.mtdoffset = w.mtdoffset + EraseSize) \/ (~Outside' /\ ret' = -1)
  <2> HIDE DEF First, Second
  <2> QED BY <1>2, <1>14, <1>18
<1> QED BY <1>1, <1>3, <1>11, <1>13, <1>14, <1>17, <1>18, <1>19, <1>20 DEF Local

LEMMA LocalWritePage ==
  ASSUME Local, WritePage
  PROVE  /\ Local' /\ Inside /\ ~Outside /\ InBody /\ ~NewBlock
         /\ w'.off = w.off /\ w'.len = w.len /\ w'.blockstart = w.blockstart
         /\ w'.headend = w.headend /\ w'.tailstart = w.tailstart
         /\ Base(w') = Base(w) /\ Front(w') = Front(w) + WriteSize
         /\ \/ Inside' /\ ~Outside'
            \/ /\ Outside' /\ ~Inside' /\ w'.mtdoffset = w.blockstart + EraseSize
               /\ w'.wcnt = Base(w) + (w.tailstart - w.headend)
               /\ Front(w') = w.blockstart + EraseSize
               /\ w.tailstart < w.blockstart + EraseSize => w'.imglen = 0
         /\ UNCHANGED <<bad, buf, hist>>
         /\ \A a \in Addr : flash'[a] = IF Front(w) <= a /\ a < Front(w) + WriteSize
                                        THEN Content(w, buf, a) ELSE flash[a]
         /\ \A a \in Addr : a \notin Within(w) => flash'[a] = flash[a]
<1>1. /\ InBody /\ ~NewBlock /\ w' = Advanced /\ flash' = Programmed /\ pc' = "loop"
      /\ bad' = bad /\ buf' = buf /\ ret' = ret /\ hist' = hist
  BY DEF WritePage, CanWrite
<1>2. /\ Inside /\ Layout(w) /\ w \in Locals
  BY <1>1, LayoutFacts
<1>3. ~Outside
  BY <1>1 DEF InBody, Outside
<1> DEFINE e == w.blockstart + EraseSize
<1>4. /\ w' \in Locals /\ Layout(w') /\ Front(w') = Front(w) + WriteSize /\ Base(w') = Base(w)
      /\ w'.imglen + w'.wcnt = w.imglen + w.wcnt
      /\ w'.mtdoffset = w'.blockstart + EraseSize =>
              /\ w'.head = 0 /\ w'.tail = 0 /\ w'.wcnt = Base(w') + (w'.tailstart - w'.headend)
              /\ Front(w') = w'.blockstart + EraseSize
              /\ w'.tailstart < w'.blockstart + EraseSize => w'.imglen = 0
  BY <1>1, AdvancedLayout
<1>5. /\ w'.off = w.off /\ w'.len = w.len /\ w'.blockstart = w.blockstart
      /\ w'.headend = w.headend /\ w'.tailstart = w.tailstart /\ w'.dataBack = w.dataBack
  BY <1>1, <1>2, AdvancedFields
<1>6. /\ flash' \in [Addr -> Bytes]
      /\ \A a \in Addr : flash'[a] = IF Front(w) <= a /\ a < Front(w) + WriteSize
                                     THEN Content(w, buf, a) ELSE flash[a]
      /\ \A a \in Addr : a \notin Within(w) => flash'[a] = flash[a]
  BY <1>1, ProgrammedFacts
<1>7. /\ w.blockstart \in Nat /\ Col(w.blockstart) = 0 /\ e <= Size
      /\ w.headend \in Nat /\ w.tailstart \in Nat /\ w.blockstart <= w.headend /\ w.headend < w.tailstart
      /\ w.tailstart <= e
  BY <1>2 DEF Layout, Locals
<1> DEFINE mo == w'.mtdoffset
           il == w'.imglen
           wc == w'.wcnt
           t  == w'.tail
           h  == w'.head
<1>8. mo \in Nat /\ w.blockstart <= mo /\ mo <= e /\ il \in Nat /\ wc \in Nat /\ t \in Nat /\ h \in Nat
      /\ t <= EraseSize /\ h <= EraseSize
  <2> DEFINE to == w'.tailoffset
             ho == w'.headoffset
  <2>1. mo \in Nat /\ il \in Nat /\ wc \in Nat /\ t \in Nat /\ h \in Nat /\ to \in Nat /\ ho \in Nat
    BY <1>4 DEF Locals
  <2>2. t + to = EraseSize /\ ho + h = w.headend - w.blockstart /\ w.headend <= mo /\ mo <= e
    BY <1>4, <1>5 DEF Layout
  <2> HIDE DEF to, ho, mo, il, wc, t, h
  <2> QED BY <1>7, <2>1, <2>2, Sizes
<1>9. TypeOK /\ Typed
  BY DEF Local, Typed
<1>10. TypeOK'
  <2>1. flash' \in [Addr -> Bytes'] /\ buf' \in [0 .. EraseSize - 1 -> Bytes']
    BY <1>1, <1>5, <1>6, <1>9 DEF Bytes, TypeOK
  <2>2. il \in 0 .. w'.len /\ wc = w'.len - il
    <3>1. w.wcnt = w.len - w.imglen /\ w.len \in Nat /\ w.imglen \in Nat /\ il + wc = w.imglen + w.wcnt
      BY <1>2, <1>4, <1>9 DEF TypeOK, Locals
    <3> HIDE DEF il, wc
    <3> QED BY <1>5, <1>8, <3>1
  <2>3. mo \in 0 .. 2 * Size /\ t \in 0 .. EraseSize /\ h \in 0 .. EraseSize
    <3> HIDE DEF mo, t, h
    <3> QED BY <1>7, <1>8, Sizes
  <2>4. ret' \in {0, 1, -1, EIO} /\ pc' \in {"idle", "loop", "blk", "done"}
        /\ bad' \subseteq Blocks /\ (bad' = hist'.bad \/ hist'.n.erase + hist'.n.write > 0)
    BY <1>1, <1>9 DEF TypeOK
  <2> QED BY <2>1, <2>2, <2>3, <2>4 DEF TypeOK
<1>11. Typed'
  <2>1. pc' # "idle" /\ pc' # "done" /\ pc # "idle"
    BY <1>1 DEF InBody
  <2> QED BY <1>1, <1>4, <1>5, <1>9, <1>10, <2>1 DEF Typed
<1>12. (mo < e => Inside' /\ ~Outside') /\ (mo = e => Outside' /\ ~Inside') /\ (mo < e \/ mo = e)
  <2>1. mo < e => BlockStart(mo) = w.blockstart
    BY <1>7, <1>8, SameBlock
  <2>2. mo = e => BlockStart(mo) # w.blockstart
    <3>1. BlockStart(w.blockstart) = w.blockstart
      BY <1>7, SameBlock, Sizes
    <3>2. BlockStart(e) = w.blockstart + EraseSize
      BY <1>7, <3>1, BlockAfter
    <3>3. w.blockstart + EraseSize # w.blockstart
      BY <1>7, Sizes
    <3> QED BY <3>2, <3>3
  <2>3. NewBlock' <=> w'.blockstart # BlockStart(mo)
    BY DEF NewBlock, BlockStart, BlockOf
  <2>4. pc' \in {"loop", "blk"}
    BY <1>1
  <2>5. (NewBlock' => Outside' /\ ~Inside') /\ (~NewBlock' => Inside' /\ ~Outside')
    BY <1>1 DEF Inside, Outside, Under
  <2> HIDE DEF mo, e
  <2>6. mo < e \/ mo = e
    <3>1. e \in Nat
      BY <1>7, Sizes DEF e
    <3> QED BY <1>8, <3>1
  <2> QED BY <1>5, <2>1, <2>2, <2>3, <2>5, <2>6
<1>13. Geometry'
  <2>1. BlockOf(w.blockstart) \notin bad
        /\ (w.headend > w.blockstart => Base(w) = 0 /\ hist.n.head = 0 /\ Col(w.headend) = Col(w.off))
    BY <1>2 DEF Local, Geometry
  <2>2. BlockOf(w'.blockstart) \notin bad'
        /\ (w'.headend > w'.blockstart => Base(w') = 0 /\ hist'.n.head = 0 /\ Col(w'.headend) = Col(w'.off))
    BY <1>1, <1>4, <1>5, <2>1
  <2> QED BY <1>4, <2>2 DEF Geometry, Layout, Taken, Base, Front, Col, PgCol, BlockOf
<1>14. NextBlock'
  <2> SUFFICES ASSUME Outside' PROVE NextBlock'
    BY DEF NextBlock
  <2>1. mo = e
    BY <1>12
  <2>2. w'.head = 0 /\ w'.tail = 0
    BY <1>4, <1>5, <2>1
  <2>3. Col(mo) = 0
    <3>1. Col(e) = Col(w.blockstart)
      BY <1>7, BlockAfter
    <3> QED BY <1>7, <2>1, <3>1
  <2>4. pc' # "blk"
    BY <1>1
  <2> QED BY <2>2, <2>3, <2>4 DEF NextBlock, Col
<1>15. Ahead'
  <2>1. \A a \in Addr : a >= e => flash[a] = a
    BY <1>2 DEF Local, Ahead
  <2>2. ASSUME NEW a \in Addr, a >= e PROVE flash'[a] = a
    <3>1. a \notin Within(w)
      BY <1>7, <2>2, Sizes DEF Within, Addr
    <3> QED BY <1>6, <2>1, <2>2, <3>1
  <2>3. Outside' => \A a \in Addr : a >= BlockStart(mo) => a >= e
    <3> SUFFICES ASSUME Outside' PROVE BlockStart(mo) = e
      OBVIOUS
    <3>1. BlockStart(w.blockstart) = w.blockstart
      BY <1>7, SameBlock, Sizes
    <3>2. BlockStart(e) = w.blockstart + EraseSize
      BY <1>7, <3>1, BlockAfter
    <3> QED BY <1>12, <3>2
  <2>4. Outside' => \A a \in Addr : a >= BlockStart(mo) => flash'[a] = a
    BY <2>2, <2>3
  <2>5. \A a \in Addr : a >= w'.blockstart + EraseSize => flash'[a] = a
    BY <1>5, <2>2
  <2> QED BY <2>4, <2>5 DEF Ahead, BlockStart, BlockOf
<1>16. \/ Inside' /\ ~Outside'
       \/ /\ Outside' /\ ~Inside' /\ w'.mtdoffset = e
          /\ w'.wcnt = Base(w) + (w.tailstart - w.headend)
          /\ Front(w') = e
          /\ w.tailstart < e => w'.imglen = 0
  <2>1. mo = e => w'.wcnt = Base(w) + (w.tailstart - w.headend) /\ Front(w') = e
                  /\ (w.tailstart < e => w'.imglen = 0)
    BY <1>4, <1>5
  <2> QED BY <1>12, <2>1
<1> QED BY <1>1, <1>2, <1>3, <1>4, <1>5, <1>6, <1>11, <1>13, <1>14, <1>15, <1>16 DEF Local

\* The image bytes of the block given up are taken back.
LEMMA RewindFacts ==
  ASSUME Local, InBody, ~NewBlock, NEW v, v = Advanced
  PROVE  /\ Rewind = Taken(v) /\ Rewind \in Nat /\ Rewind <= v.wcnt /\ v.wcnt - Rewind = Base(w)
         /\ v.imglen + Rewind \in Nat /\ v.imglen + Rewind > 0
         /\ w.tailstart < w.blockstart + EraseSize => v.imglen + Rewind = w.tailstart - w.headend
<1> DEFINE o  == v.mtdoffset
           he == w.headend
           ts == w.tailstart
           il == v.imglen
           wc == v.wcnt
           e  == w.blockstart + EraseSize
<1>1. v \in Locals /\ Layout(v) /\ Base(v) = Base(w) /\ w \in Locals
  BY AdvancedLayout, LayoutFacts
<1>2. v.headend = he /\ v.tailstart = ts /\ v.blockstart = w.blockstart
  BY <1>1, AdvancedFields
<1>3. o \in Nat /\ he \in Nat /\ ts \in Nat /\ il \in Nat /\ wc \in Nat
  BY <1>1 DEF Locals
<1>4. he < ts /\ he <= o /\ (o <= ts => il >= ts - o) /\ Taken(v) <= wc
      /\ (o <= ts /\ ts < e => il = ts - o) /\ (o > ts => il = 0)
  BY <1>1, <1>2 DEF Layout
<1>5. Rewind = CASE o <= he -> 0
                 [] o > he /\ o <= ts -> o - he
                 [] OTHER -> ts - he
  BY DEF Rewind
<1>6. Taken(v) = Lesser(o, ts) - he /\ Base(v) = wc - Taken(v)
  BY <1>2 DEF Taken, Base
<1> HIDE DEF o, he, ts, il, wc, e
<1>7. Rewind = Lesser(o, ts) - he
  <2>1. CASE o <= he
    <3>1. o = he /\ Lesser(o, ts) = he /\ ~(o > he)
      BY <1>3, <1>4, <2>1 DEF Lesser
    <3>2. Rewind = 0
      BY <1>5, <2>1, <3>1
    <3> QED BY <1>3, <3>1, <3>2
  <2>2. CASE o > he /\ o <= ts
    <3>1. ~(o <= he) /\ Lesser(o, ts) = o
      BY <1>3, <2>2 DEF Lesser
    <3> QED BY <1>5, <2>2, <3>1
  <2>3. CASE o > ts
    <3>1. ~(o <= he) /\ ~(o <= ts) /\ Lesser(o, ts) = ts
      BY <1>3, <1>4, <2>3 DEF Lesser
    <3> QED BY <1>5, <3>1
  <2> QED BY <1>3, <2>1, <2>2, <2>3
<1>8. Rewind \in Nat /\ Rewind <= wc /\ wc - Rewind = Base(w) /\ Rewind = Taken(v)
  BY <1>1, <1>3, <1>4, <1>6, <1>7 DEF Lesser
<1>9. il + Rewind \in Nat /\ il + Rewind > 0 /\ (ts < e => il + Rewind = ts - he)
  BY <1>3, <1>4, <1>7, <1>8 DEF Lesser
<1> QED BY <1>8, <1>9 DEF ts, he, il, wc, e

LEMMA LocalWriteFail ==
  ASSUME Local, WriteFail
  PROVE  /\ Local' /\ Inside /\ ~Outside /\ Outside' /\ ~Inside'
         /\ w'.off = w.off /\ w'.len = w.len /\ w'.mtdoffset = w.blockstart + EraseSize
         /\ w'.wcnt = Base(w) /\ w'.imglen > 0 /\ w'.dataBack
         /\ w.tailstart < w.blockstart + EraseSize => w'.imglen = w.tailstart - w.headend
         /\ bad' = bad \cup {BlockOf(w.blockstart)} /\ BlockOf(w.blockstart) \notin bad /\ buf' = buf
         /\ hist'.bad = hist.bad /\ hist'.n.erase = hist.n.erase /\ hist'.n.write = hist.n.write + 1
         /\ hist'.n.full = hist.n.full + (IF w.headend = w.blockstart
                                             /\ w.tailstart = w.blockstart + EraseSize THEN 1 ELSE 0)
         /\ hist'.n.head = hist.n.head + (IF w.headend > w.blockstart THEN 1 ELSE 0)
         /\ hist.n.full \in Nat /\ hist.n.head \in Nat
         /\ \A a \in Addr : a \notin Within(w) => flash'[a] = flash[a]
         /\ InBody /\ ~NewBlock
         /\ flash' = Programmed \/ \A a \in Addr : flash'[a] \in {flash[a], Erased}
<1> DEFINE v == Advanced
           e == w.blockstart + EraseSize
           r == Rewind
           Full == w.headend = w.blockstart /\ w.tailstart = e
           HasHead == w.headend > w.blockstart
<1>1. /\ InBody /\ ~NewBlock /\ bad' = bad \cup {BlockOf(PageAddr)} /\ pc' = "loop" /\ buf' = buf
      /\ ret' \in {0, EIO}
      /\ (flash' = ErasedAt(w.blockstart) \/ flash' = flash \/ flash' = Programmed)
  BY DEF WriteFail, CanWrite
<1>2. w' = [v EXCEPT !.mtdoffset = w.blockstart + EraseSize, !.imglen = v.imglen + r,
                     !.wcnt = v.wcnt - r, !.dataBack = TRUE]
  BY DEF WriteFail
<1>3. hist' = [hist EXCEPT !.n.write = @ + 1, !.n.full = @ + (IF Full THEN 1 ELSE 0),
                           !.n.head = @ + (IF HasHead THEN 1 ELSE 0)]
  BY DEF WriteFail
<1>4. /\ Inside /\ Layout(w) /\ w \in Locals /\ Front(w) \in Nat /\ w.blockstart <= Front(w)
      /\ Front(w) + WriteSize <= e /\ PageAddr = Front(w)
  BY <1>1, LayoutFacts, PageBytes
<1>5. ~Outside
  BY <1>1 DEF InBody, Outside
<1>6. /\ v \in Locals /\ Layout(v) /\ v.imglen + v.wcnt = w.imglen + w.wcnt
  BY <1>1, AdvancedLayout
<1>7. /\ v.off = w.off /\ v.len = w.len /\ v.blockstart = w.blockstart
      /\ v.headend = w.headend /\ v.tailstart = w.tailstart
  BY <1>4, AdvancedFields
<1>8. /\ r \in Nat /\ r <= v.wcnt /\ v.wcnt - r = Base(w)
      /\ v.imglen + r \in Nat /\ v.imglen + r > 0
      /\ w.tailstart < e => v.imglen + r = w.tailstart - w.headend
  BY <1>1, RewindFacts
<1>9. /\ w.blockstart \in Nat /\ Col(w.blockstart) = 0 /\ e <= Size /\ e \in Nat
      /\ w.headend \in Nat /\ w.tailstart \in Nat /\ w.blockstart <= w.headend
      /\ w.headend < w.tailstart /\ w.tailstart <= e
  BY <1>4, Sizes DEF Layout, Locals
<1>10. Base(w) \in Nat
  BY <1>1, AdvancedLayout
<1> HIDE DEF v, e, r, Full, HasHead
<1>11. /\ w' \in Locals /\ w'.off = w.off /\ w'.len = w.len /\ w'.mtdoffset = e
       /\ w'.imglen = v.imglen + r /\ w'.wcnt = Base(w) /\ w'.dataBack = TRUE
       /\ w'.blockstart = w.blockstart /\ w'.head = v.head /\ w'.tail = v.tail
  <2>1. w' = [v EXCEPT !.mtdoffset = e, !.imglen = v.imglen + r, !.wcnt = Base(w), !.dataBack = TRUE]
    BY <1>2, <1>8 DEF e
  <2> QED BY <1>6, <1>7, <1>8, <1>9, <1>10, <2>1 DEF Locals
<1>12. BlockOf(PageAddr) = BlockOf(w.blockstart) /\ BlockOf(w.blockstart) \in Blocks
       /\ BlockOf(w.blockstart) \notin bad
  <2>1. w.blockstart <= Front(w) /\ Front(w) < w.blockstart + EraseSize
    BY <1>4, <1>9, Sizes DEF e
  <2>2. BlockOf(Front(w)) = BlockOf(w.blockstart)
    BY <1>4, <1>9, <2>1, SameBlock
  <2>3. w.blockstart < Size
    BY <1>9, Sizes DEF e
  <2>4. BlockOf(w.blockstart) \in Blocks
    BY <1>9, <2>3, BlockInside
  <2> QED BY <1>4, <2>2, <2>4 DEF Local, Geometry
<1>13. \A a \in Addr : a \notin Within(w) => flash'[a] = flash[a]
  <2>1. flash \in [Addr -> Bytes]
    BY DEF Local, Typed, TypeOK
  <2>2. ASSUME NEW a \in Addr, a \notin Within(w) PROVE ErasedAt(w.blockstart)[a] = flash[a]
    <3>1. ~(w.blockstart <= a /\ a < w.blockstart + EraseSize)
      BY <1>9, <2>2, Sizes DEF Within, Addr
    <3> QED BY <1>9, <2>1, <3>1, ErasedAtFacts
  <2>3. \A a \in Addr : a \notin Within(w) => Programmed[a] = flash[a]
    BY <1>1, ProgrammedFacts
  <2> QED BY <1>1, <2>2, <2>3
<1>14. /\ flash' \in [Addr -> Bytes]
       /\ flash' = Programmed \/ \A a \in Addr : flash'[a] \in {flash[a], Erased}
  <2>1. flash \in [Addr -> Bytes]
    BY DEF Local, Typed, TypeOK
  <2>2. ErasedAt(w.blockstart) \in [Addr -> Bytes]
        /\ \A a \in Addr : ErasedAt(w.blockstart)[a] \in {flash[a], Erased}
    BY <1>9, <2>1, ErasedAtFacts
  <2>3. Programmed \in [Addr -> Bytes]
    BY <1>1, ProgrammedFacts
  <2> QED BY <1>1, <2>1, <2>2, <2>3
<1>15. TypeOK /\ Typed
  BY DEF Local, Typed
<1>16. /\ hist' \in [bad : SUBSET Blocks, n : Fails] /\ hist'.bad = hist.bad
       /\ hist'.n.erase = hist.n.erase /\ hist'.n.mark = hist.n.mark
       /\ hist'.n.write = hist.n.write + 1
       /\ hist'.n.full = hist.n.full + (IF Full THEN 1 ELSE 0)
       /\ hist'.n.head = hist.n.head + (IF HasHead THEN 1 ELSE 0)
       /\ hist.n.full \in Nat /\ hist.n.head \in Nat /\ hist.n.write \in Nat /\ hist.n.erase \in Nat
  <2> DEFINE n == hist.n
             k == IF Full THEN 1 ELSE 0
             m == IF HasHead THEN 1 ELSE 0
             g == [hist EXCEPT !.n = [n EXCEPT !.write = n.write + 1]]
             f == [g EXCEPT !.n = [g.n EXCEPT !.full = n.full + k]]
  <2>1. hist \in [bad : SUBSET Blocks, n : Fails]
    BY <1>15 DEF Typed
  <2>2. n \in Fails /\ hist.bad \in SUBSET Blocks
    BY <2>1
  <2>3. k \in Nat /\ m \in Nat
    OBVIOUS
  <2>4. g = [bad |-> hist.bad, n |-> [erase |-> n.erase, write |-> n.write + 1, full |-> n.full,
                                      head |-> n.head, mark |-> n.mark]]
    BY <2>1, <2>2 DEF Fails
  <2>5. g.n.full = n.full
    BY <2>4
  <2> HIDE DEF g, k, m
  <2>6. f = [bad |-> hist.bad, n |-> [erase |-> n.erase, write |-> n.write + 1, full |-> n.full + k,
                                      head |-> n.head, mark |-> n.mark]]
    BY <2>4
  <2>7. f.n.head = n.head
    BY <2>6
  <2>8. hist' = [f EXCEPT !.n = [f.n EXCEPT !.head = n.head + m]]
    BY <1>3, <2>5, <2>7 DEF g, k, m, f
  <2> HIDE DEF f
  <2>9. hist' = [bad |-> hist.bad, n |-> [erase |-> n.erase, write |-> n.write + 1, full |-> n.full + k,
                                          head |-> n.head + m, mark |-> n.mark]]
    BY <2>6, <2>8
  <2> HIDE DEF n
  <2> QED BY <2>2, <2>3, <2>9 DEF Fails, n, k, m
<1>17. TypeOK'
  <2>1. flash' \in [Addr -> Bytes'] /\ buf' \in [0 .. EraseSize - 1 -> Bytes']
    BY <1>1, <1>11, <1>14, <1>15 DEF Bytes, TypeOK
  <2>2. w'.imglen \in 0 .. w'.len /\ w'.wcnt = w'.len - w'.imglen
    <3> DEFINE il == v.imglen
               wc == v.wcnt
    <3>1. w.wcnt = w.len - w.imglen /\ w.len \in Nat /\ w.imglen \in Nat /\ w.wcnt \in Nat
          /\ il + wc = w.imglen + w.wcnt /\ il \in Nat /\ wc \in Nat
      BY <1>4, <1>6, <1>15 DEF TypeOK, Locals
    <3> HIDE DEF il, wc
    <3>2. il + r \in 0 .. w.len /\ wc - r = w.len - (il + r)
      BY <1>8, <3>1 DEF il, wc
    <3> QED BY <1>8, <1>11, <3>2 DEF il, wc
  <2>3. w'.head \in 0 .. EraseSize /\ w'.tail \in 0 .. EraseSize
    <3> DEFINE h == v.head
               t == v.tail
               to == v.tailoffset
               ho == v.headoffset
    <3>1. h \in Nat /\ t \in Nat /\ to \in Nat /\ ho \in Nat
      BY <1>6 DEF Locals
    <3>2. ho + h = w.headend - w.blockstart /\ t + to = EraseSize
      BY <1>6, <1>7 DEF Layout
    <3> HIDE DEF h, t, to, ho
    <3>3. h \in 0 .. EraseSize /\ t \in 0 .. EraseSize
      BY <1>9, <3>1, <3>2, Sizes DEF e
    <3> QED BY <1>11, <3>3 DEF h, t
  <2>4. w'.mtdoffset \in 0 .. 2 * Size
    BY <1>9, <1>11, Sizes
  <2>5. ret' \in {0, 1, -1, EIO} /\ pc' \in {"idle", "loop", "blk", "done"} /\ bad' \subseteq Blocks
    BY <1>1, <1>12, <1>15 DEF TypeOK
  <2>6. hist'.n.erase + hist'.n.write > 0
    BY <1>16
  <2> QED BY <2>1, <2>2, <2>3, <2>4, <2>5, <2>6 DEF TypeOK
<1>18. Typed'
  <2>1. pc' # "idle" /\ pc' # "done" /\ pc # "idle"
    BY <1>1 DEF InBody
  <2>2. hist.n.mark <= hist.n.erase /\ hist.n.full <= hist.n.write /\ hist.n.head <= hist.n.write
        /\ w.off \in Addr /\ w.len > 0
        /\ buf \in [0 .. EraseSize - 1 -> Addr \cup {Erased, Zero}]
    BY <1>15, <2>1 DEF Typed
  <2>3. hist'.n.full <= hist'.n.write /\ hist'.n.head <= hist'.n.write /\ hist'.n.write > 0
    BY <1>16, <2>2
  <2> QED BY <1>1, <1>11, <1>16, <1>17, <2>1, <2>2, <2>3 DEF Typed
<1>19. Outside' /\ ~Inside' /\ BlockStart(e) = e
  <2>1. BlockStart(w.blockstart) = w.blockstart
    BY <1>9, SameBlock, Sizes
  <2>2. BlockStart(e) = w.blockstart + EraseSize
    BY <1>9, <2>1, BlockAfter DEF e
  <2>3. w.blockstart + EraseSize # w.blockstart
    BY <1>9, Sizes
  <2>4. NewBlock'
    BY <1>11, <2>2, <2>3 DEF NewBlock, BlockStart, BlockOf
  <2> QED BY <1>1, <2>2, <2>4 DEF Inside, Outside, Under, e
<1>20. Geometry' /\ NextBlock' /\ Ahead'
  <2>1. Geometry'
    BY <1>19 DEF Geometry
  <2>2. Col(e) = 0
    BY <1>9, BlockAfter DEF e
  <2>3. NextBlock'
    BY <1>8, <1>11, <2>2 DEF NextBlock, Col
  <2>4. \A a \in Addr : a >= e => flash[a] = a
    BY <1>4 DEF Local, Ahead, e
  <2>5. ASSUME NEW a \in Addr, a >= e PROVE flash'[a] = a
    <3>1. a \notin Within(w)
      BY <1>9, <2>5, Sizes DEF Within, Addr, e
    <3> QED BY <1>13, <2>4, <2>5, <3>1
  <2>6. \A a \in Addr : a >= BlockStart(w'.mtdoffset) => flash'[a] = a
    BY <1>11, <1>19, <2>5
  <2>7. Ahead'
    BY <1>19, <2>6 DEF Ahead, BlockStart, BlockOf
  <2> QED BY <2>1, <2>3, <2>7
<1> QED BY <1>1, <1>4, <1>5, <1>8, <1>11, <1>12, <1>13, <1>14, <1>16, <1>18, <1>19, <1>20
        DEF Local, e, Full, HasHead

LEMMA LocalNext == ASSUME Local, Next PROVE Local'
<1>1. ASSUME NEW off \in Offsets, NEW len \in Lengths, Begin(off, len) PROVE Local'
  BY <1>1, LocalBegin
<1>2. CASE OpenPastEnd \/ OpenReadFail
  BY <1>2, LocalGiveUp
<1>3. CASE OpenBad
  BY <1>3, LocalOpenBad
<1>4. CASE OpenGood
  BY <1>4, LocalOpenGood
<1>5. CASE OpenEraseFail
  BY <1>5, LocalOpenEraseFail
<1>6. CASE WritePage
  BY <1>6, LocalWritePage
<1>7. CASE WriteFail
  BY <1>7, LocalWriteFail
<1>8. CASE Finish
  BY <1>8, LocalFinish
<1> QED BY <1>1, <1>2, <1>3, <1>4, <1>5, <1>6, <1>7, <1>8 DEF Next, WriteStep

LEMMA LocalStutter == ASSUME Local, UNCHANGED vars PROVE Local'
<1>1. /\ flash' = flash /\ bad' = bad /\ pc' = pc /\ w' = w /\ buf' = buf /\ ret' = ret /\ hist' = hist
  BY DEF vars
<1>2. Inside' = Inside /\ Outside' = Outside
  BY <1>1 DEF Inside, Outside, Under, NewBlock, BlockStart, BlockOf
<1>3. TypeOK'
  BY <1>1 DEF Local, Typed, TypeOK, Bytes
<1>4. Typed'
  BY <1>1, <1>3 DEF Local, Typed
<1>5. Geometry'
  BY <1>1, <1>2 DEF Local, Geometry, Layout, Taken, Base, Front, Col, PgCol, BlockOf
<1>6. NextBlock'
  BY <1>1, <1>2 DEF Local, NextBlock, Col
<1>7. Ahead'
  BY <1>1, <1>2 DEF Local, Ahead, BlockStart, BlockOf
<1> QED BY <1>4, <1>5, <1>6, <1>7 DEF Local

LEMMA WriteOrNot == ASSUME [UNext]_allVars PROVE Next \/ UNCHANGED vars
BY DEF UNext, Writing, WriteDone, CheckSlice, CheckRest, allVars

\* The values the partition, the buffer and the locals of the write can have.
THEOREM Typing == USpec => []TypeOK
<1>1. UInit => Local
  BY LocalInit DEF UInit
<1>2. Local /\ [UNext]_allVars => Local'
  BY LocalNext, LocalStutter, WriteOrNot
<1>3. Local => TypeOK
  BY DEF Local, Typed
<1> QED BY <1>1, <1>2, <1>3, PTL DEF USpec

(***************************************************************************)
(* Flash discipline.                                                       *)
(***************************************************************************)
LEMMA FilledNext == ASSUME Local, Filled, Next PROVE Filled'
<1> SUFFICES ASSUME Inside' PROVE Filled'
  BY DEF Filled
<1>1. OpenGood \/ WritePage
  <2>1. ASSUME NEW off \in Offsets, NEW len \in Lengths, Begin(off, len) PROVE FALSE
    BY <2>1, LocalBegin
  <2>2. ~OpenPastEnd /\ ~OpenReadFail
    BY LocalGiveUp
  <2>3. ~OpenBad /\ ~OpenEraseFail
    BY LocalOpenBad, LocalOpenEraseFail
  <2>4. ~WriteFail /\ ~Finish
    BY LocalWriteFail, LocalFinish
  <2> QED BY <2>1, <2>2, <2>3, <2>4 DEF Next, WriteStep
<1>2. CASE OpenGood
  <2>1. /\ InBody /\ NewBlock /\ w.mtdoffset < Size /\ w' = Opened
        /\ \A a \in Addr : a \in Within(w') => flash'[a] = Erased
    BY <1>2, LocalOpenGood
  <2>2. Front(w') = w'.blockstart /\ Layout(w')
    BY <2>1, OpenedLayout
  <2>3. ASSUME NEW a \in Within(w') PROVE a \in Addr /\ ~(a < Front(w'))
    BY <2>2, Sizes DEF Layout, Within, Addr
  <2>4. \A a \in Within(w') : flash'[a] = IF a < Front(w') THEN Content(w', buf', a) ELSE Erased
    BY <2>1, <2>3
  <2> QED BY <2>4 DEF Filled, Within, Front, Content, Base, Taken
<1>3. CASE WritePage
  <2>1. /\ Inside /\ InBody /\ ~NewBlock
        /\ w'.blockstart = w.blockstart /\ w'.headend = w.headend /\ w'.tailstart = w.tailstart
        /\ Base(w') = Base(w) /\ Front(w') = Front(w) + WriteSize /\ buf' = buf
        /\ \A a \in Addr : flash'[a] = IF Front(w) <= a /\ a < Front(w) + WriteSize
                                       THEN Content(w, buf, a) ELSE flash[a]
    BY <1>3, LocalWritePage
  <2>2. \A a : Content(w', buf', a) = Content(w, buf, a)
    BY <2>1 DEF Content
  <2>3. Within(w') = Within(w)
    BY <2>1 DEF Within
  <2>4. \A a \in Within(w) : flash[a] = IF a < Front(w) THEN Content(w, buf, a) ELSE Erased
    BY <2>1 DEF Filled
  <2>5. Front(w) \in Nat
    BY <2>1, LayoutFacts
  <2>6. ASSUME NEW a \in Within(w)
        PROVE  flash'[a] = IF a < Front(w') THEN Content(w', buf', a) ELSE Erased
    <3>1. a \in Nat /\ a \in Addr
      BY <2>1, ContentFacts
    <3>2. a < Front(w) + WriteSize <=> a < Front(w) \/ (Front(w) <= a /\ a < Front(w) + WriteSize)
      BY <2>5, <3>1, Sizes
    <3>3. a < Front(w) => ~(Front(w) <= a)
      BY <2>5, <3>1
    <3> QED BY <2>1, <2>2, <2>4, <3>1, <3>2, <3>3
  <2>7. \A a \in Within(w') : flash'[a] = IF a < Front(w') THEN Content(w', buf', a) ELSE Erased
    BY <2>3, <2>6
  <2> QED BY <2>7 DEF Filled, Within, Front, Content, Base, Taken
<1> QED BY <1>1, <1>2, <1>3

LEMMA FilledStutter == ASSUME Filled, UNCHANGED vars PROVE Filled'
<1>1. /\ flash' = flash /\ pc' = pc /\ w' = w /\ buf' = buf
  BY DEF vars
<1>2. Inside' = Inside
  BY <1>1 DEF Inside, Under, NewBlock, BlockStart, BlockOf
<1> QED BY <1>1, <1>2 DEF Filled, Within, Front, Content, Base, Taken

\* The flash f comes next in good order.
Orderly(f) ==
  \A a \in Addr :
    /\ BlockOf(a) \in bad => f[a] = flash[a]
    /\ f[a] \notin {flash[a], Erased} =>
         /\ flash[a] = Erased
         /\ \A b \in Addr : BlockOf(b) = BlockOf(a) /\ b \div WriteSize > a \div WriteSize
                              => f[b] = Erased

LEMMA PageInOrder ==
  ASSUME Local, Filled, InBody, ~NewBlock, NEW f, f = Programmed
  PROVE  Orderly(f)
<1> DEFINE p == Front(w)
           bs == w.blockstart
<1>1. /\ Inside /\ p \in Nat /\ bs <= p /\ p + WriteSize <= bs + EraseSize /\ PgCol(p) = 0
      /\ bs \in Nat /\ Col(bs) = 0
  BY LayoutFacts DEF Layout
<1>2. BlockOf(bs) \notin bad
  BY <1>1 DEF Local, Geometry
<1>3. \A a \in Within(w) : flash[a] = IF a < p THEN Content(w, buf, a) ELSE Erased
  BY <1>1 DEF Filled
<1>4. /\ \A a \in Addr : f[a] = IF p <= a /\ a < p + WriteSize THEN Content(w, buf, a) ELSE flash[a]
      /\ \A a \in Addr : a \notin Within(w) => f[a] = flash[a]
  BY ProgrammedFacts
<1> HIDE DEF p, bs
<1>5. \A a \in Addr : a \in Nat /\ (a \in Within(w) <=> bs <= a /\ a < bs + EraseSize)
  BY <1>1, Sizes DEF Addr, Within, bs
<1>6. \A a \in Addr : a \in Within(w) <=> BlockOf(a) = BlockOf(bs)
  <2>1. ASSUME NEW a \in Addr, a \in Within(w) PROVE BlockOf(a) = BlockOf(bs)
    BY <1>1, <1>5, <2>1, SameBlock
  <2>2. ASSUME NEW a \in Addr, BlockOf(a) = BlockOf(bs) PROVE a \in Within(w)
    <3>1. BlockStart(a) = BlockStart(bs) /\ BlockStart(bs) = bs
      BY <1>1, <1>5, <2>2, BlockOrder, SameBlock, Sizes
    <3>2. bs <= a /\ a < bs + EraseSize
      BY <1>5, <3>1, BlockFacts
    <3> QED BY <1>5, <3>2
  <2> QED BY <2>1, <2>2
<1>7. ASSUME NEW a \in Addr, BlockOf(a) \in bad PROVE f[a] = flash[a]
  BY <1>2, <1>4, <1>6, <1>7
<1>8. ASSUME NEW a \in Addr, f[a] \notin {flash[a], Erased}
      PROVE  /\ flash[a] = Erased
             /\ \A b \in Addr : BlockOf(b) = BlockOf(a) /\ b \div WriteSize > a \div WriteSize
                                  => f[b] = Erased
  <2>1. a \in Nat /\ p <= a /\ a < p + WriteSize /\ a \in Within(w) /\ ~(a < p)
    <3>1. p <= a /\ a < p + WriteSize /\ a \in Within(w)
      BY <1>4, <1>8
    <3> QED BY <1>1, <1>5, <3>1
  <2>2. flash[a] = Erased
    BY <1>3, <2>1
  <2>3. ASSUME NEW b \in Addr, BlockOf(b) = BlockOf(a), b \div WriteSize > a \div WriteSize
        PROVE  f[b] = Erased
    <3>1. b \in Nat /\ b \in Within(w)
      BY <1>5, <1>6, <2>1, <2>3
    <3>2. b >= p + WriteSize
      BY <1>1, <2>1, <2>3, <3>1, PageAfter
    <3>3. ~(b < p) /\ ~(p <= b /\ b < p + WriteSize)
      BY <1>1, <3>1, <3>2, Sizes
    <3> QED BY <1>3, <1>4, <3>1, <3>3
  <2> QED BY <2>2, <2>3
<1> QED BY <1>7, <1>8 DEF Orderly

LEMMA OrderlyNext == ASSUME Local, Filled, Next PROVE bad \subseteq bad' /\ Orderly(flash')
<1>1. ASSUME bad' = bad, flash' = flash PROVE bad \subseteq bad' /\ Orderly(flash')
  BY <1>1 DEF Orderly
<1>2. ASSUME NEW off \in Offsets, NEW len \in Lengths, Begin(off, len)
      PROVE  bad \subseteq bad' /\ Orderly(flash')
  BY <1>1, <1>2 DEF Begin
<1>3. CASE OpenPastEnd \/ OpenReadFail
  BY <1>1, <1>3 DEF OpenPastEnd, OpenReadFail
<1>4. CASE OpenBad
  BY <1>1, <1>4 DEF OpenBad
<1>5. CASE Finish
  BY <1>1, <1>5 DEF Finish
<1>6. CASE OpenGood
  <2>1. bad' = bad /\ Inside' /\ Geometry' /\ w.mtdoffset < Size
        /\ \A a \in Addr : /\ a \in Within(w') => flash'[a] = Erased
                           /\ a \notin Within(w') => flash'[a] = flash[a]
    BY <1>6, LocalOpenGood DEF Local
  <2>2. BlockOf(w'.blockstart) \notin bad /\ w'.blockstart \in Nat /\ Col(w'.blockstart) = 0
    BY <2>1 DEF Geometry, Layout, Col, BlockOf
  <2>3. ASSUME NEW a \in Addr, a \in Within(w') PROVE BlockOf(a) \notin bad
    <3>1. a \in Nat /\ w'.blockstart <= a /\ a < w'.blockstart + EraseSize
      BY <2>2, <2>3, Sizes DEF Addr, Within
    <3> QED BY <2>2, <3>1, SameBlock
  <2> QED BY <2>1, <2>3 DEF Orderly
<1>7. CASE OpenEraseFail
  <2>1. /\ bad \subseteq bad' /\ BlockOf(w.mtdoffset) \notin bad
        /\ \A a \in Addr : /\ BlockOf(a) # BlockOf(w.mtdoffset) => flash'[a] = flash[a]
                           /\ flash'[a] \in {flash[a], Erased}
    BY <1>7, LocalOpenEraseFail
  <2> QED BY <2>1 DEF Orderly
<1>8. CASE WritePage
  <2>1. InBody /\ ~NewBlock /\ flash' = Programmed /\ bad' = bad
    BY <1>8 DEF WritePage, CanWrite
  <2> QED BY <2>1, PageInOrder
<1>9. CASE WriteFail
  <2>1. /\ InBody /\ ~NewBlock /\ bad \subseteq bad' /\ Inside
        /\ BlockOf(w.blockstart) \notin bad
        /\ \A a \in Addr : a \notin Within(w) => flash'[a] = flash[a]
        /\ flash' = Programmed \/ \A a \in Addr : flash'[a] \in {flash[a], Erased}
    BY <1>9, LocalWriteFail
  <2>2. CASE flash' = Programmed
    BY <2>1, <2>2, PageInOrder
  <2>3. CASE \A a \in Addr : flash'[a] \in {flash[a], Erased}
    <3>1. w.blockstart \in Nat /\ Col(w.blockstart) = 0
      BY <2>1 DEF Local, Geometry, Layout
    <3>2. ASSUME NEW a \in Addr, a \in Within(w) PROVE BlockOf(a) \notin bad
      <4>1. a \in Nat /\ w.blockstart <= a /\ a < w.blockstart + EraseSize
        BY <3>1, <3>2, Sizes DEF Addr, Within
      <4> QED BY <2>1, <3>1, <4>1, SameBlock
    <3> QED BY <2>1, <2>3, <3>2 DEF Orderly
  <2> QED BY <2>1, <2>2, <2>3
<1> QED BY <1>2, <1>3, <1>4, <1>5, <1>6, <1>7, <1>8, <1>9 DEF Next, WriteStep

\* A byte is only programmed after an erase of its block and before every later
\* page of the block; a block that is marked bad is left alone, and stays so.
THEOREM FlashInOrder == USpec => ProgramInOrder
<1>1. UInit => Local /\ Filled
  <2>1. UInit => Filled
    BY DEF UInit, Init, Filled, Inside, Under
  <2> QED BY <2>1, LocalInit DEF UInit
<1>2. Local /\ Filled /\ [UNext]_allVars => Local' /\ Filled'
  BY LocalNext, LocalStutter, FilledNext, FilledStutter, WriteOrNot
<1>3. Local /\ Filled /\ [UNext]_allVars =>
        [/\ bad \subseteq bad'
         /\ \A a \in Addr :
              /\ BlockOf(a) \in bad => flash'[a] = flash[a]
              /\ flash'[a] \notin {flash[a], Erased} =>
                   /\ flash[a] = Erased
                   /\ \A b \in Addr : BlockOf(b) = BlockOf(a)
                                      /\ b \div WriteSize > a \div WriteSize
                                        => flash'[b] = Erased]_vars
  BY WriteOrNot, OrderlyNext DEF Orderly
<1> QED BY <1>1, <1>2, <1>3, PTL DEF USpec, ProgramInOrder

(***************************************************************************)
(* Where the image is.                                                     *)
(***************************************************************************)
\* Of the n bytes taken, each is at its offset.
Placed(f, B, o, n) ==
  \A a \in Addr : BlockOf(a) \notin B /\ LogIn(B, a) >= o /\ LogIn(B, a) < o + n
                    => f[a] = Img(LogIn(B, a) - o)

\* While no head was lost.
ImageInv == hist.n.head = 0 =>
  /\ Inside  => Placed(flash, bad, w.off, Base(w)) /\ LogIn(bad, w.headend) = w.off + Base(w)
  /\ Outside =>
       /\ Placed(flash, bad, w.off, w.wcnt)
       /\ w.wcnt > 0 => w.off + w.wcnt <= Cardinality(Blocks \ bad) * EraseSize
       /\ w.imglen > 0 /\ w.mtdoffset < Size => LogIn(bad, w.mtdoffset) = w.off + w.wcnt

\* A run of addresses in a good block is a run of offsets.
LEMMA InRun ==
  ASSUME NEW B, NEW b \in Nat, Col(b) = 0, b + EraseSize <= Size, BlockOf(b) \notin B,
         NEW he \in Nat, NEW ts \in Nat, b <= he, he < ts, ts <= b + EraseSize
  PROVE  /\ LogIn(B, he) \in Nat
         /\ LogIn(B, he) + (ts - he) <= Cardinality(Blocks \ B) * EraseSize
         /\ \A a \in Addr : BlockOf(a) \notin B =>
              (LogIn(B, a) >= LogIn(B, he) /\ LogIn(B, a) < LogIn(B, he) + (ts - he)
                <=> he <= a /\ a < ts)
         /\ \A a \in Addr : b <= a /\ a < b + EraseSize =>
              /\ BlockOf(a) = BlockOf(b) /\ LogIn(B, a) + he = LogIn(B, he) + a
              /\ LogIn(B, a) \in Nat
<1> DEFINE c == ts - 1
           n == Cardinality(Blocks \ B) * EraseSize
<1>1. c \in Nat /\ he <= c /\ c < b + EraseSize /\ he < b + EraseSize /\ he < Size /\ c < Size
      /\ c + 1 = ts
  BY Sizes
<1> HIDE DEF c
<1>2. BlockOf(he) = BlockOf(b) /\ BlockOf(c) = BlockOf(b)
  <2>1. b <= c
    BY <1>1
  <2> QED BY <1>1, <2>1, SameBlock
<1>3. LogIn(B, he) \in Nat /\ LogIn(B, c) \in Nat /\ LogIn(B, c) < n
  BY <1>1, <1>2, LogFacts
<1>4. LogIn(B, c) + he = LogIn(B, he) + c
  BY <1>1, <1>2, LogOrder
<1>5. n \in Nat
  BY RankFinite, Sizes, Products
<1> HIDE DEF n
<1>6. LogIn(B, he) + (ts - he) <= n
  BY <1>1, <1>3, <1>4, <1>5
<1>7. ASSUME NEW a \in Addr, b <= a, a < b + EraseSize
      PROVE  BlockOf(a) = BlockOf(b) /\ LogIn(B, a) + he = LogIn(B, he) + a /\ LogIn(B, a) \in Nat
  <2>1. a \in Nat
    BY DEF Addr
  <2>2. BlockOf(a) = BlockOf(b)
    BY <1>7, <2>1, SameBlock
  <2>3. LogIn(B, a) + he = LogIn(B, he) + a
    BY <1>2, <2>1, <2>2, LogOrder
  <2> QED BY <2>1, <2>2, <2>3, LogFacts
<1>8. ASSUME NEW a \in Addr, BlockOf(a) \notin B
      PROVE  LogIn(B, a) >= LogIn(B, he) /\ LogIn(B, a) < LogIn(B, he) + (ts - he)
               <=> he <= a /\ a < ts
  <2>1. a \in Nat /\ a < Size
    BY Sizes DEF Addr
  <2>2. LogIn(B, a) \in Nat
    BY <2>1, LogFacts
  <2>3. a < he => LogIn(B, a) < LogIn(B, he)
    BY <1>8, <2>1, LogOrder
  <2>4. c < a => LogIn(B, c) < LogIn(B, a)
    BY <1>1, <1>2, <2>1, LogOrder
  <2>5. he <= a /\ a < ts => LogIn(B, a) + he = LogIn(B, he) + a
    <3>1. he <= a /\ a < ts => b <= a /\ a < b + EraseSize
      BY <2>1, Sizes
    <3> QED BY <1>7, <3>1
  <2> QED BY <1>1, <1>3, <1>4, <2>1, <2>2, <2>3, <2>4, <2>5
<1> QED BY <1>3, <1>6, <1>7, <1>8 DEF n

\* What was taken before is not in the block under way.
LEMMA BeforeBlock ==
  ASSUME NEW B, NEW b \in Nat, Col(b) = 0, NEW he \in Nat, b <= he, he < b + EraseSize,
         NEW o \in Nat, NEW n \in Nat, LogIn(B, he) = o + n, he > b => n = 0,
         NEW a \in Addr, LogIn(B, a) >= o, LogIn(B, a) < o + n
  PROVE  ~(b <= a /\ a < b + EraseSize)
<1> SUFFICES ASSUME b <= a, a < b + EraseSize PROVE FALSE
  OBVIOUS
<1>1. a \in Nat
  BY DEF Addr
<1>2. BlockOf(a) = BlockOf(b) /\ BlockOf(he) = BlockOf(b)
  BY <1>1, SameBlock
<1>3. LogIn(B, a) + he = LogIn(B, he) + a
  <2>1. BlockOf(a) = BlockOf(he)
    BY <1>2
  <2> QED BY <1>1, <2>1, LogOrder
<1>4. LogIn(B, a) \in Nat
  BY <1>1, LogFacts
<1> QED BY <1>1, <1>3, <1>4

\* A block goes bad: what is placed before it stays placed.
LEMMA PlacedWithout ==
  ASSUME NEW B, NEW c \in Nat, NEW f, NEW g, NEW o \in Nat, NEW n \in Nat,
         Placed(f, B, o, n), \A a \in Addr : BlockOf(a) # c => g[a] = f[a],
         n = 0 \/ RankIn(Blocks \ B, c) * EraseSize = o + n
  PROVE  /\ Placed(g, B \cup {c}, o, n)
         /\ n > 0 => o + n <= Cardinality(Blocks \ (B \cup {c})) * EraseSize
<1> DEFINE G == Blocks \ B
           H == Blocks \ (B \cup {c})
           k == RankIn(G, c)
<1>0. H = G \ {c} /\ G \subseteq Blocks /\ H \subseteq Blocks
  OBVIOUS
<1>1. k \in Nat /\ Cardinality(H) \in Nat
  BY <1>0, RankFinite
<1>2. n > 0 => o + n <= Cardinality(H) * EraseSize
  <2>1. Cardinality(G \ {c}) >= k
    <3> HIDE DEF G
    <3> QED BY <1>0, RankWithout
  <2>2. Cardinality(H) >= k
    BY <1>0, <2>1
  <2> HIDE DEF H, k
  <2>3. k * EraseSize <= Cardinality(H) * EraseSize
    BY <1>1, <2>2, Sizes, Products
  <2>4. n > 0 => k * EraseSize = o + n
    BY DEF k
  <2> QED BY <2>3, <2>4
<1>3. ASSUME NEW a \in Addr, BlockOf(a) \notin B \cup {c}, LogIn(B \cup {c}, a) >= o,
             LogIn(B \cup {c}, a) < o + n
      PROVE  g[a] = Img(LogIn(B \cup {c}, a) - o)
  <2> DEFINE q == BlockOf(a)
             l == LogIn(B \cup {c}, a)
  <2>1. a \in Nat
    BY DEF Addr
  <2>2. q \in Nat /\ Col(a) \in Nat
    BY <2>1, BlockFacts
  <2>3. l = RankIn(G \ {c}, q) * EraseSize + Col(a) /\ l \in Nat
    BY <1>0, <2>1, LogFacts DEF LogIn
  <2>4. q < c
    <3> SUFFICES ASSUME c <= q PROVE FALSE
      BY <2>2
    <3>1. RankIn(G \ {c}, q) >= k /\ RankIn(G \ {c}, q) \in Nat
      <4> HIDE DEF G, q
      <4>1. RankIn(G \ {c}, q) >= RankIn(G, c)
        BY <1>0, <2>2, RankWithout
      <4> QED BY <1>0, <4>1, RankFinite
    <3> DEFINE m == RankIn(G \ {c}, q)
    <3>2. m >= k /\ m \in Nat /\ l = m * EraseSize + Col(a)
      BY <2>3, <3>1
    <3> HIDE DEF m, k, l
    <3>3. k * EraseSize <= m * EraseSize /\ k * EraseSize \in Nat /\ m * EraseSize \in Nat
      BY <1>1, <3>2, Sizes, Products
    <3>4. n > 0
      BY <1>3, <2>3 DEF l
    <3>5. k * EraseSize = o + n
      BY <3>4 DEF k
    <3> QED BY <1>3, <2>2, <2>3, <3>2, <3>3, <3>5 DEF l
  <2>5. RankIn(G \ {c}, q) = RankIn(G, q)
    <3> HIDE DEF G, q
    <3>1. q <= c
      BY <2>2, <2>4
    <3> QED BY <1>0, <2>2, <3>1, RankWithout
  <2>6. l = LogIn(B, a)
    BY <2>3, <2>5 DEF LogIn
  <2>7. f[a] = Img(LogIn(B, a) - o)
    BY <1>3, <2>6 DEF Placed
  <2>8. g[a] = f[a]
    BY <1>3
  <2> QED BY <2>6, <2>7, <2>8
<1> QED BY <1>2, <1>3 DEF Placed

\* The next block has the offsets of one that goes bad.
LEMMA LogMoves ==
  ASSUME NEW B, NEW a \in Nat, a < Size
  PROVE  LogIn(B \cup {BlockOf(a)}, a + EraseSize) = LogIn(B, a)
<1> DEFINE c == BlockOf(a)
           G == Blocks \ B
<1>1. c \in Nat /\ Blocks \ (B \cup {c}) = G \ {c} /\ G \subseteq Blocks
  BY BlockFacts
<1>2. LogIn(B \cup {c}, a + EraseSize) = LogIn(B \cup {c}, a)
  <2>1. c \in B \cup {c}
    OBVIOUS
  <2> QED BY <2>1, LogAfter
<1>3. RankIn(G \ {c}, c) = RankIn(G, c)
  <2> HIDE DEF G, c
  <2>1. c <= c
    BY <1>1
  <2> QED BY <1>1, <2>1, RankWithout
<1>4. LogIn(B \cup {c}, a) = LogIn(B, a)
  BY <1>1, <1>3 DEF LogIn
<1> QED BY <1>2, <1>4

\* The numbers of a call, and of its open block.
LEMMA CallFacts ==
  ASSUME Local
  PROVE  /\ w.off \in Nat /\ w.len \in Nat /\ w.wcnt \in Nat /\ w.imglen \in Nat
         /\ w.mtdoffset \in Nat /\ w.wcnt = w.len - w.imglen /\ hist.n.head \in Nat
         /\ hist.n.write \in Nat /\ hist.n.full \in Nat /\ hist.n.erase \in Nat
         /\ \A a \in Addr : a \in Nat /\ a < Size
<1>1. \A a \in Addr : a \in Nat /\ a < Size
  BY Sizes DEF Addr
<1> QED BY <1>1 DEF Local, Typed, TypeOK, Locals, Fails

LEMMA InsideFacts ==
  ASSUME Local, Inside
  PROVE  /\ w.blockstart \in Nat /\ Col(w.blockstart) = 0 /\ w.blockstart + EraseSize <= Size
         /\ BlockOf(w.blockstart) \notin bad /\ w.headend \in Nat /\ w.tailstart \in Nat
         /\ w.blockstart <= w.headend /\ w.headend < w.tailstart
         /\ w.tailstart <= w.blockstart + EraseSize
         /\ w.headend < w.blockstart + EraseSize /\ BlockOf(w.blockstart) \in Nat
         /\ Base(w) \in Nat /\ Base(w) + (w.tailstart - w.headend) <= w.len
         /\ w.headend > w.blockstart => Base(w) = 0 /\ hist.n.head = 0 /\ Col(w.headend) = Col(w.off)
         /\ \A a \in Addr : a \in Within(w) <=> w.blockstart <= a /\ a < w.blockstart + EraseSize
<1> DEFINE bs == w.blockstart
           he == w.headend
           ts == w.tailstart
           mo == w.mtdoffset
           wc == w.wcnt
           il == w.imglen
           b  == Base(w)
<1>1. w \in Locals /\ Layout(w)
  BY DEF Local, Typed, Geometry
<1>2. he \in Nat /\ ts \in Nat /\ mo \in Nat /\ wc \in Nat /\ il \in Nat /\ w.len \in Nat
      /\ wc = w.len - il
  BY <1>1, CallFacts DEF Locals
<1>3. /\ bs \in Nat /\ Col(bs) = 0 /\ bs + EraseSize <= Size /\ bs <= he /\ he < ts
      /\ ts <= bs + EraseSize /\ (mo <= ts => il >= ts - mo) /\ he <= mo
      /\ Taken(w) <= wc
  BY <1>1 DEF Layout
<1>4. Taken(w) = Lesser(mo, ts) - he /\ b = wc - Taken(w)
  BY DEF Base, Taken
<1>5. /\ BlockOf(bs) \notin bad
      /\ he > bs => b = 0 /\ hist.n.head = 0 /\ Col(he) = Col(w.off)
  BY DEF Local, Geometry
<1>6. BlockOf(bs) \in Nat
  BY <1>3, BlockFacts
<1>7. \A a \in Addr : a \in Within(w) <=> bs <= a /\ a < bs + EraseSize
  BY <1>3, Sizes DEF Within, Addr
<1> HIDE DEF bs, he, ts, mo, wc, il, b
<1>8. b \in Nat /\ b + (ts - he) <= w.len
  BY <1>2, <1>3, <1>4 DEF Lesser
<1>9. he < bs + EraseSize
  BY <1>2, <1>3, Sizes
<1> QED BY <1>2, <1>3, <1>5, <1>6, <1>7, <1>8, <1>9 DEF bs, he, ts, wc, il, b

LEMMA ImageBegin ==
  ASSUME Local, NEW off \in Offsets, NEW len \in Lengths, Begin(off, len)
  PROVE  ImageInv'
<1>1. /\ ~Inside' /\ w'.off = off /\ w'.len = len /\ w'.imglen = len /\ w'.wcnt = 0
      /\ (Outside' => w'.mtdoffset = SkipBad(off)) /\ bad' = bad
  <2>1. /\ ~Inside' /\ w'.off = off /\ w'.len = len /\ w'.imglen = len /\ w'.wcnt = 0
        /\ (pc' = "loop" => w'.mtdoffset = SkipBad(off)) /\ (pc' # "loop" => ~Outside')
    BY LocalBegin
  <2> QED BY <2>1 DEF Begin
<1>2. off \in Nat
  BY RequestAssumption, Sizes DEF Addr
<1>3. Placed(flash', bad', w'.off, w'.wcnt)
  <2>1. ASSUME NEW a \in Addr, LogIn(bad', a) >= off, LogIn(bad', a) < off + 0 PROVE FALSE
    <3>1. a \in Nat
      BY DEF Addr
    <3>2. LogIn(bad', a) \in Nat
      BY <3>1, LogFacts
    <3> QED BY <1>2, <2>1, <3>2
  <2> QED BY <1>1, <2>1 DEF Placed
<1>4. Outside' /\ w'.mtdoffset < Size => LogIn(bad', w'.mtdoffset) = w'.off + w'.wcnt
  <2> SUFFICES ASSUME Outside', SkipBad(off) < Size PROVE LogIn(bad, SkipBad(off)) = off
    BY <1>1, <1>2
  <2> QED BY <1>2, SkipFacts
<1>5. ~(w'.wcnt > 0)
  BY <1>1
<1> QED BY <1>1, <1>3, <1>4, <1>5 DEF ImageInv

LEMMA ImageOpenBad == ASSUME Local, ImageInv, OpenBad PROVE ImageInv'
<1>1. /\ ~Inside' /\ Outside' /\ Outside /\ w.imglen > 0 /\ w.mtdoffset < Size
      /\ BlockOf(w.mtdoffset) \in bad
      /\ w'.off = w.off /\ w'.len = w.len /\ w'.imglen = w.imglen /\ w'.wcnt = w.wcnt
      /\ w'.mtdoffset = w.mtdoffset + EraseSize
      /\ flash' = flash /\ bad' = bad /\ hist' = hist
  BY LocalOpenBad
<1>2. w.mtdoffset \in Nat
  BY CallFacts
<1>3. LogIn(bad, w.mtdoffset + EraseSize) = LogIn(bad, w.mtdoffset)
  BY <1>1, <1>2, LogAfter
<1> QED BY <1>1, <1>3 DEF ImageInv

LEMMA ImageOpenGood == ASSUME Local, ImageInv, OpenGood PROVE ImageInv'
<1> SUFFICES ASSUME hist'.n.head = 0 PROVE ImageInv'
  BY DEF ImageInv
<1>1. /\ Local' /\ Inside' /\ ~Outside' /\ Outside /\ w.imglen > 0 /\ w.mtdoffset < Size
      /\ InBody /\ NewBlock /\ w' = Opened /\ bad' = bad /\ hist' = hist /\ w'.off = w.off
      /\ \A a \in Addr : a \notin Within(w') => flash'[a] = flash[a]
  BY LocalOpenGood
<1>2. Base(w') = w.wcnt /\ w'.headend = w.mtdoffset
  BY <1>1, OpenedLayout
<1>3. Placed(flash, bad, w.off, w.wcnt) /\ LogIn(bad, w.mtdoffset) = w.off + w.wcnt
  BY <1>1 DEF ImageInv
<1>4. /\ w'.blockstart \in Nat /\ Col(w'.blockstart) = 0 /\ w'.headend \in Nat
      /\ w'.blockstart <= w'.headend /\ w'.headend < w'.blockstart + EraseSize
      /\ (w'.headend > w'.blockstart => Base(w') = 0)
      /\ \A a \in Addr : a \in Within(w') <=> w'.blockstart <= a /\ a < w'.blockstart + EraseSize
  <2>1. Layout(w') /\ w' \in Locals /\ (w'.headend > w'.blockstart => Base(w') = 0)
    BY <1>1 DEF Local, Typed, Geometry, Layout, Base, Taken, Col, PgCol, Front
  <2>2. /\ w'.blockstart \in Nat /\ Col(w'.blockstart) = 0 /\ w'.headend \in Nat
        /\ w'.blockstart <= w'.headend /\ w'.headend < w'.tailstart
        /\ w'.tailstart <= w'.blockstart + EraseSize /\ w'.tailstart \in Nat
    BY <2>1 DEF Layout, Locals
  <2>3. \A a \in Addr : a \in Within(w') <=> w'.blockstart <= a /\ a < w'.blockstart + EraseSize
    BY <2>2, Sizes DEF Within, Addr
  <2> QED BY <2>1, <2>2, <2>3, Sizes
<1>5. w.off \in Nat /\ w.wcnt \in Nat
  BY CallFacts
<1>6. Placed(flash', bad, w.off, w.wcnt)
  <2>1. ASSUME NEW a \in Addr, LogIn(bad, a) >= w.off, LogIn(bad, a) < w.off + w.wcnt
        PROVE  flash'[a] = flash[a]
    <3> DEFINE b == w'.blockstart
               he == w'.headend
    <3>1. /\ b \in Nat /\ Col(b) = 0 /\ he \in Nat /\ b <= he /\ he < b + EraseSize
          /\ LogIn(bad, he) = w.off + w.wcnt /\ (he > b => w.wcnt = 0)
      BY <1>2, <1>3, <1>4
    <3> HIDE DEF b, he
    <3>2. ~(b <= a /\ a < b + EraseSize)
      BY <1>5, <2>1, <3>1, BeforeBlock
    <3>3. a \notin Within(w')
      BY <1>4, <3>2 DEF b
    <3> QED BY <1>1, <3>3
  <2> QED BY <1>3, <2>1 DEF Placed
<1> QED BY <1>1, <1>2, <1>3, <1>6 DEF ImageInv, Base, Taken

LEMMA ImageOpenEraseFail == ASSUME Local, ImageInv, OpenEraseFail PROVE ImageInv'
<1> SUFFICES ASSUME hist'.n.head = 0 PROVE ImageInv'
  BY DEF ImageInv
<1> DEFINE mo == w.mtdoffset
           c  == BlockOf(mo)
<1>1. /\ ~Inside' /\ Outside /\ w.imglen > 0 /\ mo < Size /\ InBody /\ NewBlock
      /\ Outside' => w'.mtdoffset = mo + EraseSize
      /\ w'.off = w.off /\ w'.wcnt = w.wcnt /\ bad' = bad \cup {c} /\ hist.n.head = 0
      /\ \A a \in Addr : BlockOf(a) # c => flash'[a] = flash[a]
  BY LocalOpenEraseFail DEF OpenEraseFail, CanOpen
<1>2. w.off \in Nat /\ w.wcnt \in Nat /\ mo \in Nat /\ c \in Nat
  BY CallFacts, BlockFacts
<1>3. Placed(flash, bad, w.off, w.wcnt) /\ LogIn(bad, mo) = w.off + w.wcnt
  BY <1>1 DEF ImageInv
<1>4. w.wcnt = 0 \/ RankIn(Blocks \ bad, c) * EraseSize = w.off + w.wcnt
  <2>1. Col(mo) # 0 => w.wcnt = 0
    BY <1>1, OutsideFacts
  <2>2. LogIn(bad, mo) = RankIn(Blocks \ bad, c) * EraseSize + Col(mo)
    BY DEF LogIn
  <2>3. RankIn(Blocks \ bad, c) * EraseSize \in Nat
    BY RankFinite, Sizes, Products
  <2> HIDE DEF c, mo
  <2> QED BY <1>3, <2>1, <2>2, <2>3
<1>5. /\ Placed(flash', bad', w.off, w.wcnt)
      /\ w.wcnt > 0 => w.off + w.wcnt <= Cardinality(Blocks \ bad') * EraseSize
  <2> HIDE DEF c
  <2> QED BY <1>1, <1>2, <1>3, <1>4, PlacedWithout
<1>6. LogIn(bad', mo + EraseSize) = w.off + w.wcnt
  BY <1>1, <1>2, <1>3, LogMoves
<1> QED BY <1>1, <1>5, <1>6 DEF ImageInv

LEMMA ImageWriteFail == ASSUME Local, ImageInv, WriteFail PROVE ImageInv'
<1> SUFFICES ASSUME hist'.n.head = 0 PROVE ImageInv'
  BY DEF ImageInv
<1> DEFINE bs == w.blockstart
           c  == BlockOf(bs)
<1>1. /\ ~Inside' /\ Inside /\ w'.mtdoffset = bs + EraseSize
      /\ w'.off = w.off /\ w'.wcnt = Base(w) /\ bad' = bad \cup {c}
      /\ hist'.n.head = hist.n.head + (IF w.headend > bs THEN 1 ELSE 0) /\ hist.n.head \in Nat
      /\ \A a \in Addr : a \notin Within(w) => flash'[a] = flash[a]
  BY LocalWriteFail
<1>2. w.off \in Nat /\ Base(w) \in Nat /\ bs \in Nat /\ c \in Nat /\ Col(bs) = 0 /\ bs < Size
      /\ w.headend \in Nat /\ bs <= w.headend
      /\ \A a \in Addr : a \in Within(w) <=> bs <= a /\ a < bs + EraseSize
  BY <1>1, CallFacts, InsideFacts, Sizes
<1>3. hist.n.head = 0 /\ w.headend = bs
  <2>1. hist.n.head + (IF w.headend > bs THEN 1 ELSE 0) = 0
    BY <1>1
  <2> HIDE DEF bs
  <2> QED BY <1>1, <1>2, <2>1
<1>4. Placed(flash, bad, w.off, Base(w)) /\ LogIn(bad, bs) = w.off + Base(w)
  BY <1>1, <1>3 DEF ImageInv
<1>5. RankIn(Blocks \ bad, c) * EraseSize = w.off + Base(w)
  <2>1. LogIn(bad, bs) = RankIn(Blocks \ bad, c) * EraseSize + Col(bs)
    BY DEF LogIn
  <2>2. RankIn(Blocks \ bad, c) * EraseSize \in Nat
    BY RankFinite, Sizes, Products
  <2> HIDE DEF c, bs
  <2> QED BY <1>2, <1>4, <2>1, <2>2
<1>6. ASSUME NEW a \in Addr, BlockOf(a) # c PROVE flash'[a] = flash[a]
  <2>1. a \in Nat
    BY DEF Addr
  <2>2. ~(bs <= a /\ a < bs + EraseSize)
    BY <1>2, <1>6, <2>1, SameBlock
  <2> QED BY <1>1, <1>2, <2>2
<1>7. /\ Placed(flash', bad', w.off, Base(w))
      /\ Base(w) > 0 => w.off + Base(w) <= Cardinality(Blocks \ bad') * EraseSize
  <2> HIDE DEF c
  <2> QED BY <1>1, <1>2, <1>4, <1>5, <1>6, PlacedWithout
<1>8. LogIn(bad', bs + EraseSize) = w.off + Base(w)
  BY <1>1, <1>2, <1>4, LogMoves
<1> QED BY <1>1, <1>7, <1>8 DEF ImageInv

LEMMA ImageWritePage == ASSUME Local, Filled, ImageInv, WritePage PROVE ImageInv'
<1> SUFFICES ASSUME hist.n.head = 0 PROVE ImageInv'
  BY LocalWritePage DEF ImageInv
<1> DEFINE bs == w.blockstart
           he == w.headend
           ts == w.tailstart
           b  == Base(w)
           o  == w.off
<1>1. /\ Inside /\ w'.off = o /\ w'.headend = he /\ Base(w') = b /\ bad' = bad
      /\ \/ Inside' /\ ~Outside'
         \/ /\ Outside' /\ ~Inside' /\ w'.mtdoffset = bs + EraseSize /\ w'.wcnt = b + (ts - he)
            /\ Front(w) + WriteSize = bs + EraseSize
            /\ ts < bs + EraseSize => w'.imglen = 0
      /\ \A a \in Addr : flash'[a] = IF Front(w) <= a /\ a < Front(w) + WriteSize
                                     THEN Content(w, buf, a) ELSE flash[a]
      /\ \A a \in Addr : a \notin Within(w) => flash'[a] = flash[a]
  BY LocalWritePage
<1>2. /\ bs \in Nat /\ Col(bs) = 0 /\ bs + EraseSize <= Size /\ BlockOf(bs) \notin bad
      /\ he \in Nat /\ ts \in Nat /\ bs <= he /\ he < ts /\ ts <= bs + EraseSize
      /\ he < bs + EraseSize /\ b \in Nat /\ o \in Nat /\ (he > bs => b = 0)
      /\ \A a \in Addr : a \in Within(w) <=> bs <= a /\ a < bs + EraseSize
  BY <1>1, InsideFacts, CallFacts
<1>3. Placed(flash, bad, o, b) /\ LogIn(bad, he) = o + b
  BY <1>1 DEF ImageInv
<1>4. ASSUME NEW a \in Addr, LogIn(bad, a) >= o, LogIn(bad, a) < o + b
      PROVE  flash'[a] = flash[a]
  <2> HIDE DEF bs, he, ts, b, o
  <2>1. ~(bs <= a /\ a < bs + EraseSize)
    BY <1>2, <1>3, <1>4, BeforeBlock
  <2> QED BY <1>1, <1>2, <2>1
<1>5. Placed(flash', bad, o, b)
  BY <1>3, <1>4 DEF Placed
<1>6. CASE Inside' /\ ~Outside'
  BY <1>1, <1>3, <1>5, <1>6 DEF ImageInv
<1>7. CASE /\ Outside' /\ ~Inside' /\ w'.mtdoffset = bs + EraseSize /\ w'.wcnt = b + (ts - he)
           /\ Front(w) + WriteSize = bs + EraseSize
           /\ ts < bs + EraseSize => w'.imglen = 0
  <2>1. /\ LogIn(bad, he) + (ts - he) <= Cardinality(Blocks \ bad) * EraseSize
        /\ \A a \in Addr : BlockOf(a) \notin bad =>
             (LogIn(bad, a) >= LogIn(bad, he) /\ LogIn(bad, a) < LogIn(bad, he) + (ts - he)
               <=> he <= a /\ a < ts)
        /\ \A a \in Addr : bs <= a /\ a < bs + EraseSize =>
             /\ BlockOf(a) = BlockOf(bs) /\ LogIn(bad, a) + he = LogIn(bad, he) + a
             /\ LogIn(bad, a) \in Nat
    <3> HIDE DEF bs, he, ts
    <3> QED BY <1>2, InRun
  <2>2. ASSUME NEW a \in Addr, he <= a, a < ts PROVE flash'[a] = Img(b + (a - he))
    <3>1. a \in Nat /\ bs <= a /\ a < bs + EraseSize
      <4> HIDE DEF bs, he, ts
      <4> QED BY <1>2, <2>2, Sizes DEF Addr
    <3>2. Content(w, buf, a) = Img(b + (a - he))
      BY <2>2 DEF Content
    <3>3. ~(Front(w) <= a /\ a < Front(w) + WriteSize) => flash[a] = Content(w, buf, a)
      <4>1. Front(w) \in Nat
        BY LayoutFacts DEF WritePage, CanWrite
      <4>2. ~(Front(w) <= a /\ a < Front(w) + WriteSize) => a < Front(w)
        <5> HIDE DEF bs
        <5> QED BY <1>7, <3>1, <4>1
      <4>3. a \in Within(w)
        BY <1>2, <3>1
      <4> QED BY <1>1, <4>2, <4>3 DEF Filled
    <3> QED BY <1>1, <3>2, <3>3
  <2>3. Placed(flash', bad, o, b + (ts - he))
    <3> SUFFICES ASSUME NEW a \in Addr, BlockOf(a) \notin bad, LogIn(bad, a) >= o,
                        LogIn(bad, a) < o + (b + (ts - he))
                 PROVE  flash'[a] = Img(LogIn(bad, a) - o)
      BY DEF Placed
    <3>1. a \in Nat /\ LogIn(bad, a) \in Nat
      <4>1. a \in Nat
        BY DEF Addr
      <4> QED BY <4>1, LogFacts
    <3>2. CASE LogIn(bad, a) < o + b
      BY <1>5, <3>2 DEF Placed
    <3>3. CASE ~(LogIn(bad, a) < o + b)
      <4> HIDE DEF bs, he, ts, b, o
      <4>1. LogIn(bad, a) >= LogIn(bad, he) /\ LogIn(bad, a) < LogIn(bad, he) + (ts - he)
        BY <1>2, <1>3, <3>1, <3>3
      <4>2. he <= a /\ a < ts
        BY <2>1, <4>1
      <4>3. bs <= a /\ a < bs + EraseSize
        BY <1>2, <3>1, <4>2, Sizes
      <4>4. LogIn(bad, a) + he = LogIn(bad, he) + a
        BY <2>1, <4>3
      <4>5. LogIn(bad, a) - o = b + (a - he)
        BY <1>2, <1>3, <3>1, <4>4
      <4> QED BY <2>2, <4>2, <4>5
    <3> QED BY <3>2, <3>3
  <2>4. o + (b + (ts - he)) <= Cardinality(Blocks \ bad) * EraseSize
    <3>1. Cardinality(Blocks \ bad) * EraseSize \in Nat
      BY RankFinite, Sizes, Products
    <3> HIDE DEF bs, he, ts, b, o
    <3> QED BY <1>2, <1>3, <2>1, <3>1
  <2>5. w'.imglen > 0 => LogIn(bad, bs + EraseSize) = o + (b + (ts - he))
    <3> HIDE DEF bs, he, ts, b, o
    <3>1. bs \in Addr /\ bs < Size
      BY <1>2, Sizes DEF Addr
    <3>2. LogIn(bad, bs) + he = LogIn(bad, he) + bs /\ LogIn(bad, bs) \in Nat
      <4>1. bs <= bs /\ bs < bs + EraseSize
        BY <1>2, Sizes
      <4> QED BY <2>1, <3>1, <4>1
    <3>3. LogIn(bad, bs + EraseSize) = LogIn(bad, bs) + EraseSize
      BY <1>2, <3>1, LogAfter
    <3>4. ~(0 > 0)
      OBVIOUS
    <3>5. w'.imglen > 0 => ts = bs + EraseSize
      <4>1. ts < bs + EraseSize \/ ts = bs + EraseSize
        BY <1>2, Sizes
      <4> QED BY <1>7, <3>4, <4>1
    <3>6. ts = bs + EraseSize => LogIn(bad, bs + EraseSize) = o + (b + (ts - he))
      BY <1>2, <1>3, <3>2, <3>3, Sizes
    <3> QED BY <3>5, <3>6
  <2> QED BY <1>1, <1>7, <2>3, <2>4, <2>5 DEF ImageInv
<1> QED BY <1>1, <1>6, <1>7

LEMMA ImageNext == ASSUME Local, Filled, ImageInv, Next PROVE ImageInv'
<1>1. ASSUME NEW off \in Offsets, NEW len \in Lengths, Begin(off, len) PROVE ImageInv'
  BY <1>1, ImageBegin
<1>2. CASE OpenPastEnd \/ OpenReadFail
  BY <1>2, LocalGiveUp DEF ImageInv
<1>3. CASE Finish
  <2>1. /\ ~Inside' /\ Outside /\ UNCHANGED <<flash, bad, w, hist>>
    BY <1>3, LocalFinish
  <2> QED BY <2>1 DEF ImageInv
<1> QED BY <1>1, <1>2, <1>3, ImageOpenBad, ImageOpenGood, ImageOpenEraseFail, ImageWritePage,
           ImageWriteFail DEF Next, WriteStep

\* Inside and Outside are about w and pc alone.
LEMMA SameSide == ASSUME UNCHANGED vars
                  PROVE  /\ Inside' = Inside /\ Outside' = Outside
                         /\ UNCHANGED <<flash, bad, pc, w, buf, ret, hist>>
BY DEF vars, Inside, Outside, Under, NewBlock, BlockStart, BlockOf

LEMMA ImageStutter == ASSUME ImageInv, UNCHANGED vars PROVE ImageInv'
BY SameSide DEF ImageInv, Base, Taken

\* The bytes of the request, by address.
LEMMA PhysFacts ==
  ASSUME NEW o \in Nat, o < LogSize
  PROVE  /\ Phys(o) \in Addr /\ BlockOf(Phys(o)) \notin bad /\ LogIn(bad, Phys(o)) = o
         /\ \A a \in Addr : BlockOf(a) \notin bad /\ LogIn(bad, a) = o => a = Phys(o)
<1>1. Phys(o) = NthIn(Blocks \ bad, BlockOf(o)) * EraseSize + Col(o)
  BY DEF Phys, NthGood, NthIn, RankIn, Good, Col
<1>2. o < Cardinality(Blocks \ bad) * EraseSize
  BY DEF LogSize, Good
<1>3. Phys(o) \in Addr /\ BlockOf(Phys(o)) \notin bad /\ LogIn(bad, Phys(o)) = o
  BY <1>1, <1>2, LogPhys
<1>4. ASSUME NEW a \in Addr, BlockOf(a) \notin bad, LogIn(bad, a) = o PROVE a = Phys(o)
  BY <1>3, <1>4, LogUnique
<1> QED BY <1>3, <1>4

LEMMA ImageIsThere ==
  ASSUME Local, ImageInv, pc = "done", ret # -1, hist.n.head = 0
  PROVE  \A o \in Request : o < LogSize /\ flash[Phys(o)] = Img(o - w.off)
<1> SUFFICES ASSUME NEW o \in Request
             PROVE  o < LogSize /\ flash[Phys(o)] = Img(o - w.off)
  OBVIOUS
<1>1. w.off \in Nat /\ w.len \in Nat /\ w.wcnt \in Nat /\ w.imglen \in Nat
      /\ w.wcnt = w.len - w.imglen
  BY CallFacts
<1>2. w.imglen = 0 /\ Outside
  <2>1. ~(w.imglen > 0)
    BY DEF Local, Typed
  <2>2. w.imglen = 0
    BY <1>1, <2>1
  <2> QED BY <2>2 DEF Outside
<1>3. /\ Placed(flash, bad, w.off, w.wcnt)
      /\ w.wcnt > 0 => w.off + w.wcnt <= Cardinality(Blocks \ bad) * EraseSize
  BY <1>2 DEF ImageInv
<1>4. o \in Nat /\ w.off <= o /\ o < w.off + w.wcnt
  BY <1>1, <1>2 DEF Request
<1>5. Cardinality(Blocks \ bad) * EraseSize \in Nat
  BY RankFinite, Sizes, Products
<1>6. o < LogSize
  BY <1>1, <1>3, <1>4, <1>5 DEF LogSize, Good
<1>7. Phys(o) \in Addr /\ BlockOf(Phys(o)) \notin bad /\ LogIn(bad, Phys(o)) = o
  BY <1>4, <1>6, PhysFacts
<1> QED BY <1>1, <1>3, <1>4, <1>6, <1>7 DEF Placed

\* A write that returns 0 and lost no head has put the image at the requested
\* offsets, whatever blocks were bad before or went bad on the way.
THEOREM ImageIsWritten == USpec => []ImageReadBack
<1>1. UInit => Local /\ Filled /\ ImageInv
  <2>1. UInit => Filled /\ ImageInv
    BY DEF UInit, Init, Filled, ImageInv, Inside, Outside, Under
  <2> QED BY <2>1, LocalInit DEF UInit
<1>2. Local /\ Filled /\ ImageInv /\ [UNext]_allVars => Local' /\ Filled' /\ ImageInv'
  BY LocalNext, LocalStutter, FilledNext, FilledStutter, ImageNext, ImageStutter, WriteOrNot
<1>3. Local /\ ImageInv => ImageReadBack
  BY ImageIsThere DEF ImageReadBack, Written
<1> QED BY <1>1, <1>2, <1>3, PTL DEF USpec

(***************************************************************************)
(* What the write leaves alone when no driver call fails.                  *)
(***************************************************************************)
\* Outside the n bytes taken, and outside X, the flash f is as it was.
Kept(f, B, o, n, X) ==
  \A a \in Addr :
    a \notin X /\ ~(BlockOf(a) \notin B /\ LogIn(B, a) >= o /\ LogIn(B, a) < o + n) => f[a] = a

\* The buffer has what was in a block that the image does not fill.
RestInv == hist.n = NoFails =>
  /\ Inside =>
       /\ Kept(flash, bad, w.off, Base(w), Within(w))
       /\ w.blockstart < w.headend \/ w.tailstart < w.blockstart + EraseSize =>
            \A i \in 0 .. EraseSize - 1 : buf[i] = w.blockstart + i
  /\ Outside => Kept(flash, bad, w.off, w.wcnt, {})

LEMMA OpenedBlock ==
  ASSUME Local, OpenGood
  PROVE  /\ w'.blockstart \in Nat /\ Col(w'.blockstart) = 0 /\ w'.blockstart + EraseSize <= Size
         /\ BlockOf(w'.blockstart) \notin bad /\ w'.headend = w.mtdoffset /\ w'.headend \in Nat
         /\ w'.tailstart \in Nat /\ w'.blockstart <= w'.headend /\ w'.headend < w'.tailstart
         /\ w'.tailstart <= w'.blockstart + EraseSize /\ Base(w') = w.wcnt
         /\ w'.tailstart < w'.blockstart + EraseSize => w'.tailstart = w.mtdoffset + w.imglen
         /\ w.dataBack => buf' = buf
         /\ ~w.dataBack /\ (w'.blockstart < w'.headend \/ w'.tailstart < w'.blockstart + EraseSize) =>
              \A i \in 0 .. EraseSize - 1 : buf'[i] = w'.blockstart + i
         /\ \A a \in Addr : a \in Within(w') <=> w'.blockstart <= a /\ a < w'.blockstart + EraseSize
<1>1. /\ InBody /\ NewBlock /\ w.mtdoffset < Size /\ w' = Opened /\ buf' = Saved
      /\ BlockOf(w.mtdoffset) \notin bad
  BY DEF OpenGood, CanOpen
<1>2. /\ w' \in Locals /\ Layout(w') /\ Base(w') = w.wcnt
      /\ w'.blockstart = BlockStart(w.mtdoffset) /\ w'.headend = w.mtdoffset
      /\ w'.tailstart = (IF w.mtdoffset + w.imglen >= w'.blockstart + EraseSize
                         THEN w'.blockstart + EraseSize ELSE w.mtdoffset + w.imglen)
      /\ (Partly <=> w'.blockstart < w'.headend \/ w'.tailstart < w'.blockstart + EraseSize)
  BY <1>1, OpenedLayout
<1>3. /\ w'.headend \in Nat /\ w'.tailstart \in Nat /\ w.mtdoffset \in Nat
      /\ w'.blockstart \in Nat /\ Col(w'.blockstart) = 0 /\ w'.blockstart + EraseSize <= Size
      /\ w'.blockstart <= w'.headend /\ w'.headend < w'.tailstart
      /\ w'.tailstart <= w'.blockstart + EraseSize
  BY <1>2, CallFacts DEF Layout, Locals
<1>4. BlockOf(w'.blockstart) \notin bad
  <2>1. BlockOf(w.mtdoffset) = BlockOf(w'.blockstart)
    <3>1. w'.blockstart <= w.mtdoffset /\ w.mtdoffset < w'.blockstart + EraseSize
      BY <1>2, <1>3, BlockFacts
    <3> QED BY <1>3, <3>1, SameBlock
  <2> QED BY <1>1, <2>1
<1>5. w'.tailstart < w'.blockstart + EraseSize => w'.tailstart = w.mtdoffset + w.imglen
  <2> DEFINE ts == w'.tailstart
             e  == w'.blockstart + EraseSize
  <2>1. ts = (IF w.mtdoffset + w.imglen >= e THEN e ELSE w.mtdoffset + w.imglen) /\ e \in Nat
    BY <1>2, <1>3, Sizes
  <2> HIDE DEF ts, e
  <2> QED BY <2>1 DEF ts, e
<1>6. /\ Partly /\ ~w.dataBack => \A i \in 0 .. EraseSize - 1 : buf'[i] = w'.blockstart + i
      /\ ~(Partly /\ ~w.dataBack) => buf' = buf
  BY <1>1, <1>2, SavedFacts
<1>7. \A a \in Addr : a \in Within(w') <=> w'.blockstart <= a /\ a < w'.blockstart + EraseSize
  BY <1>3, Sizes DEF Within, Addr
<1> QED BY <1>2, <1>3, <1>4, <1>5, <1>6, <1>7

LEMMA RestOpenGood == ASSUME Local, ImageInv, RestInv, OpenGood PROVE RestInv'
<1> SUFFICES ASSUME hist'.n = NoFails PROVE RestInv'
  BY DEF RestInv
<1>1. /\ Inside' /\ ~Outside' /\ Outside /\ bad' = bad /\ hist' = hist /\ w'.off = w.off
      /\ \A a \in Addr : a \notin Within(w') => flash'[a] = flash[a]
  BY LocalOpenGood
<1>2. ~w.dataBack
  <2>1. hist.n.write = 0
    BY <1>1 DEF NoFails
  <2>2. ~(0 > 0)
    OBVIOUS
  <2> QED BY <2>1, <2>2 DEF Local, Typed
<1>3. Kept(flash', bad', w'.off, Base(w'), Within(w'))
  BY <1>1, OpenedBlock DEF RestInv, Kept
<1> QED BY <1>1, <1>2, <1>3, OpenedBlock DEF RestInv

LEMMA RestWritePage == ASSUME Local, Filled, ImageInv, RestInv, WritePage PROVE RestInv'
<1> SUFFICES ASSUME hist.n = NoFails PROVE RestInv'
  BY LocalWritePage DEF RestInv
<1> DEFINE bs == w.blockstart
           he == w.headend
           ts == w.tailstart
           b  == Base(w)
           o  == w.off
<1>1. /\ Inside /\ w'.off = o /\ w'.headend = he /\ Base(w') = b /\ bad' = bad
      /\ w'.blockstart = bs /\ w'.tailstart = ts /\ buf' = buf
      /\ \/ Inside' /\ ~Outside'
         \/ /\ Outside' /\ ~Inside' /\ w'.wcnt = b + (ts - he)
            /\ Front(w) + WriteSize = bs + EraseSize
      /\ \A a \in Addr : flash'[a] = IF Front(w) <= a /\ a < Front(w) + WriteSize
                                     THEN Content(w, buf, a) ELSE flash[a]
      /\ \A a \in Addr : a \notin Within(w) => flash'[a] = flash[a]
  BY LocalWritePage
<1>2. /\ bs \in Nat /\ Col(bs) = 0 /\ bs + EraseSize <= Size /\ BlockOf(bs) \notin bad
      /\ he \in Nat /\ ts \in Nat /\ bs <= he /\ he < ts /\ ts <= bs + EraseSize
      /\ he < bs + EraseSize /\ b \in Nat /\ o \in Nat
      /\ \A a \in Addr : a \in Within(w) <=> bs <= a /\ a < bs + EraseSize
  BY <1>1, InsideFacts, CallFacts
<1>3. /\ LogIn(bad, he) = o + b /\ Kept(flash, bad, o, b, Within(w))
      /\ bs < he \/ ts < bs + EraseSize => \A i \in 0 .. EraseSize - 1 : buf[i] = bs + i
  <2>1. hist.n.head = 0
    BY DEF NoFails
  <2> QED BY <1>1, <2>1 DEF ImageInv, RestInv
<1>4. Within(w') = Within(w)
  BY <1>1 DEF Within
<1>5. CASE Inside' /\ ~Outside'
  <2>1. Kept(flash', bad, o, b, Within(w))
    BY <1>1, <1>3 DEF Kept
  <2> QED BY <1>1, <1>3, <1>4, <1>5, <2>1 DEF RestInv
<1>6. CASE /\ Outside' /\ ~Inside' /\ w'.wcnt = b + (ts - he)
           /\ Front(w) + WriteSize = bs + EraseSize
  <2>1. /\ LogIn(bad, he) \in Nat
        /\ \A a \in Addr : BlockOf(a) \notin bad =>
             (LogIn(bad, a) >= LogIn(bad, he) /\ LogIn(bad, a) < LogIn(bad, he) + (ts - he)
               <=> he <= a /\ a < ts)
        /\ \A a \in Addr : bs <= a /\ a < bs + EraseSize => BlockOf(a) = BlockOf(bs)
    <3> HIDE DEF bs, he, ts
    <3> QED BY <1>2, InRun
  <2>2. ASSUME NEW a \in Addr,
               ~(BlockOf(a) \notin bad /\ LogIn(bad, a) >= o /\ LogIn(bad, a) < o + (b + (ts - he)))
        PROVE  flash'[a] = a
    <3>1. a \in Nat /\ LogIn(bad, a) \in Nat
      <4>1. a \in Nat
        BY DEF Addr
      <4> QED BY <4>1, LogFacts
    <3>2. CASE a \notin Within(w)
      <4>1. LogIn(bad, a) < o + b => LogIn(bad, a) < o + (b + (ts - he))
        <5> HIDE DEF bs, he, ts, b, o
        <5> QED BY <1>2, <3>1
      <4>2. flash[a] = a
        BY <1>3, <2>2, <3>2, <4>1 DEF Kept
      <4> QED BY <1>1, <3>2, <4>2
    <3>3. CASE a \in Within(w)
      <4>1. bs <= a /\ a < bs + EraseSize
        BY <1>2, <3>3
      <4>2. BlockOf(a) \notin bad
        BY <1>2, <2>1, <4>1
      <4>3. ~(he <= a /\ a < ts)
        <5> HIDE DEF bs, he, ts, b, o
        <5>1. he <= a /\ a < ts => /\ LogIn(bad, a) >= o + b
                                   /\ LogIn(bad, a) < (o + b) + (ts - he)
          BY <1>3, <2>1, <4>2
        <5>2. he <= a /\ a < ts => LogIn(bad, a) >= o /\ LogIn(bad, a) < o + (b + (ts - he))
          BY <1>2, <3>1, <5>1
        <5> QED BY <2>2, <4>2, <5>2
      <4>4. Content(w, buf, a) = buf[a - bs]
        BY <4>3 DEF Content
      <4>5. a - bs \in 0 .. EraseSize - 1 /\ bs + (a - bs) = a /\ (bs < he \/ ts < bs + EraseSize)
        <5> HIDE DEF bs, he, ts
        <5> QED BY <1>2, <3>1, <4>1, <4>3, Sizes
      <4>6. Content(w, buf, a) = a
        BY <1>3, <4>4, <4>5
      <4>7. ~(Front(w) <= a /\ a < Front(w) + WriteSize) => flash[a] = Content(w, buf, a)
        <5>1. Front(w) \in Nat
          BY LayoutFacts DEF WritePage, CanWrite
        <5>2. ~(Front(w) <= a /\ a < Front(w) + WriteSize) => a < Front(w)
          <6> HIDE DEF bs
          <6> QED BY <1>6, <3>1, <4>1, <5>1
        <5> QED BY <1>1, <3>3, <5>2 DEF Filled
      <4> QED BY <1>1, <4>6, <4>7
    <3> QED BY <3>2, <3>3
  <2>3. Kept(flash', bad', w'.off, w'.wcnt, {})
    BY <1>1, <1>6, <2>2 DEF Kept
  <2> QED BY <1>6, <2>3 DEF RestInv
<1> QED BY <1>1, <1>5, <1>6

LEMMA RestNext == ASSUME Local, Filled, ImageInv, RestInv, Next PROVE RestInv'
<1>1. ASSUME NEW off \in Offsets, NEW len \in Lengths, Begin(off, len) PROVE RestInv'
  <2>1. ~Inside' /\ w'.wcnt = 0 /\ flash = [a \in Addr |-> a] /\ flash' = flash
    BY <1>1, LocalBegin DEF Begin
  <2>2. Kept(flash', bad', w'.off, w'.wcnt, {})
    BY <2>1 DEF Kept
  <2> QED BY <2>1, <2>2 DEF RestInv
<1>2. CASE OpenPastEnd \/ OpenReadFail
  BY <1>2, LocalGiveUp DEF RestInv
<1>3. CASE Finish
  <2>1. /\ ~Inside' /\ Outside /\ UNCHANGED <<flash, bad, w, hist>>
    BY <1>3, LocalFinish
  <2> QED BY <2>1 DEF RestInv
<1>4. CASE OpenBad
  <2>1. /\ ~Inside' /\ Outside /\ UNCHANGED <<flash, bad, hist>>
        /\ w'.off = w.off /\ w'.wcnt = w.wcnt
    BY <1>4, LocalOpenBad
  <2> QED BY <2>1 DEF RestInv
<1>5. CASE OpenEraseFail \/ WriteFail
  <2>1. hist'.n.erase = hist.n.erase + 1 \/ hist'.n.write = hist.n.write + 1
    BY <1>5, LocalOpenEraseFail, LocalWriteFail
  <2>2. hist'.n # NoFails
    BY <2>1, CallFacts DEF NoFails
  <2> QED BY <2>2 DEF RestInv
<1> QED BY <1>1, <1>2, <1>3, <1>4, <1>5, RestOpenGood, RestWritePage DEF Next, WriteStep

LEMMA RestStutter == ASSUME RestInv, UNCHANGED vars PROVE RestInv'
BY SameSide DEF RestInv, Base, Taken, Within

(***************************************************************************)
(* The tail of the last block when programs fail only there.               *)
(***************************************************************************)
\* Where the block of the last of l offsets was, the blocks of B being bad.
OldIn(B, l) == NthIn(Blocks \ B, BlockOf(l - 1)) * EraseSize
OldStart    == OldIn(hist.bad, w.off + w.len)

Calm == hist.n.full = 0 /\ hist.n.head = 0 /\ hist.n.erase = 0

TailInv == Calm =>
  /\ Inside /\ w.tailstart = w.blockstart + EraseSize => hist.n.write = 0
  /\ Inside /\ w.tailstart < w.blockstart + EraseSize =>
       \A i \in 0 .. EraseSize - 1 : i >= w.tailstart - w.blockstart => buf[i] = OldStart + i
  /\ Outside /\ w.imglen > 0 /\ hist.n.write > 0 =>
       /\ w.dataBack /\ Col(w.off + w.wcnt) = 0 /\ w.imglen < EraseSize
       /\ \A i \in 0 .. EraseSize - 1 : i >= w.imglen => buf[i] = OldStart + i
  /\ Outside /\ w.imglen = 0 =>
       \A a \in Addr : BlockOf(a) \notin bad /\ LogIn(bad, a) >= w.off + w.len
                         /\ BlockOf(LogIn(bad, a)) = BlockOf((w.off + w.len) - 1)
                           => flash[a] = OldStart + Col(a)

\* The block in which l offsets end, at the address ts.
LEMMA LastBlock ==
  ASSUME NEW B, NEW b \in Nat, Col(b) = 0, b + EraseSize <= Size, BlockOf(b) \notin B,
         NEW he \in Nat, NEW ts \in Nat, b <= he, he < ts, ts <= b + EraseSize,
         NEW l \in Nat, LogIn(B, he) + (ts - he) = l
  PROVE  /\ OldIn(B, l) = b
         /\ \A a \in Addr : BlockOf(a) \notin B /\ BlockOf(LogIn(B, a)) = BlockOf(l - 1)
                              => b <= a /\ a < b + EraseSize /\ (LogIn(B, a) >= l => a >= ts)
<1> DEFINE c == ts - 1
           G == Blocks \ B
           q == BlockOf(b)
<1>1. c \in Nat /\ b <= c /\ c < b + EraseSize /\ he < b + EraseSize /\ c < Size
      /\ he < Size /\ b < Size
  BY Sizes
<1>2. BlockOf(he) = q /\ BlockOf(c) = q
  <2> HIDE DEF c
  <2> QED BY <1>1, SameBlock
<1>3. q \in Nat /\ q \in G /\ G \subseteq Blocks /\ q * EraseSize = b
  <2>1. q \in Nat /\ BlockStart(b) = q * EraseSize /\ BlockStart(b) = b
    <3>1. b <= b /\ b < b + EraseSize
      BY Sizes
    <3> QED BY <3>1, BlockFacts, SameBlock
  <2>2. q \in Blocks
    BY <1>1, BlockInside
  <2> QED BY <2>1, <2>2
<1>4. /\ LogIn(B, c) + he = LogIn(B, he) + c /\ LogIn(B, c) \in Nat /\ LogIn(B, he) \in Nat
      /\ BlockOf(LogIn(B, c)) = RankIn(G, q)
  <2> HIDE DEF c, q
  <2>1. LogIn(B, c) + he = LogIn(B, he) + c
    BY <1>1, <1>2, LogOrder
  <2>2. LogIn(B, c) \in Nat /\ BlockOf(LogIn(B, c)) = RankIn(G, BlockOf(c))
    BY <1>1, LogFacts
  <2>3. LogIn(B, he) \in Nat
    BY LogFacts
  <2> QED BY <1>2, <2>1, <2>2, <2>3
<1>5. LogIn(B, c) = l - 1
  BY <1>1, <1>4
<1>6. BlockOf(l - 1) = RankIn(G, q)
  BY <1>4, <1>5
<1>7. NthIn(G, RankIn(G, q)) = q
  <2> HIDE DEF G, q
  <2> QED BY <1>3, NthFacts
<1>8. OldIn(B, l) = b
  BY <1>3, <1>6, <1>7 DEF OldIn
<1>9. ASSUME NEW a \in Addr, BlockOf(a) \notin B, BlockOf(LogIn(B, a)) = BlockOf(l - 1)
      PROVE  b <= a /\ a < b + EraseSize /\ (LogIn(B, a) >= l => a >= ts)
  <2>1. a \in Nat /\ a < Size
    BY Sizes DEF Addr
  <2>2. BlockOf(a) \in G
    BY <1>9, <2>1, BlockInside
  <2>3. BlockOf(LogIn(B, a)) = RankIn(G, BlockOf(a)) /\ LogIn(B, a) \in Nat
    BY <2>1, LogFacts
  <2>4. BlockOf(a) = q
    <3>1. RankIn(G, BlockOf(a)) = RankIn(G, q)
      BY <1>6, <1>9, <2>3
    <3> HIDE DEF G, q
    <3> QED BY <1>3, <2>2, <3>1, RankUnique
  <2>5. b <= a /\ a < b + EraseSize
    <3>1. BlockStart(a) = b
      BY <1>3, <2>4 DEF BlockStart
    <3> QED BY <2>1, <3>1, BlockFacts
  <2>6. LogIn(B, a) + he = LogIn(B, he) + a
    BY <1>2, <2>1, <2>4, LogOrder
  <2>7. LogIn(B, a) >= l => a >= ts
    <3> HIDE DEF c
    <3> QED BY <1>4, <2>1, <2>3, <2>6
  <2> QED BY <2>5, <2>7
<1> QED BY <1>8, <1>9

LEMMA TailOpenGood == ASSUME Local, ImageInv, TailInv, OpenGood PROVE TailInv'
<1> SUFFICES ASSUME Calm' PROVE TailInv'
  BY DEF TailInv
<1> DEFINE bs == w'.blockstart
           he == w'.headend
           ts == w'.tailstart
           l  == w.off + w.len
<1>1. /\ Inside' /\ ~Outside' /\ Outside /\ w.imglen > 0 /\ w.mtdoffset < Size
      /\ bad' = bad /\ hist' = hist /\ w'.off = w.off /\ w'.len = w.len
  BY LocalOpenGood
<1>2. /\ bs \in Nat /\ Col(bs) = 0 /\ bs + EraseSize <= Size /\ BlockOf(bs) \notin bad
      /\ he = w.mtdoffset /\ he \in Nat /\ ts \in Nat /\ bs <= he /\ he < ts
      /\ ts <= bs + EraseSize /\ (ts < bs + EraseSize => ts = w.mtdoffset + w.imglen)
      /\ (w.dataBack => buf' = buf)
      /\ ~w.dataBack /\ (bs < he \/ ts < bs + EraseSize) =>
           \A i \in 0 .. EraseSize - 1 : buf'[i] = bs + i
  BY OpenedBlock
<1>3. /\ w.off \in Nat /\ w.len \in Nat /\ w.wcnt \in Nat /\ w.imglen \in Nat
      /\ w.wcnt = w.len - w.imglen /\ hist.n.write \in Nat /\ hist.n.erase \in Nat
  BY CallFacts
<1>4. Calm /\ LogIn(bad, he) = w.off + w.wcnt /\ OldStart' = OldStart
  BY <1>1, <1>2 DEF Calm, ImageInv, OldStart
<1>5. CASE hist.n.write = 0
  <2>1. ~w.dataBack
    <3>1. ~(0 > 0)
      OBVIOUS
    <3> QED BY <1>5, <3>1 DEF Local, Typed
  <2>2. bad = hist.bad
    <3>1. ~(0 + 0 > 0)
      OBVIOUS
    <3> QED BY <1>4, <1>5, <3>1 DEF Local, Typed, TypeOK, Calm
  <2>3. ts < bs + EraseSize => OldStart = bs
    <3> SUFFICES ASSUME ts = w.mtdoffset + w.imglen PROVE OldStart = bs
      BY <1>2
    <3>1. l \in Nat /\ LogIn(bad, he) + (ts - he) = l
      BY <1>2, <1>3, <1>4
    <3> HIDE DEF bs, he, ts, l
    <3>2. OldIn(bad, l) = bs
      BY <1>2, <3>1, LastBlock
    <3> QED BY <2>2, <3>2 DEF OldStart, l
  <2>4. ts < bs + EraseSize => \A i \in 0 .. EraseSize - 1 : buf'[i] = OldStart + i
    BY <1>2, <2>1, <2>3
  <2> QED BY <1>1, <1>4, <1>5, <2>4 DEF TailInv
<1>6. CASE hist.n.write > 0
  <2>1. /\ w.dataBack /\ Col(w.off + w.wcnt) = 0 /\ w.imglen < EraseSize
        /\ \A i \in 0 .. EraseSize - 1 : i >= w.imglen => buf[i] = OldStart + i
    BY <1>1, <1>4, <1>6 DEF TailInv
  <2>2. Col(he) = 0
    <3> HIDE DEF he
    <3>1. Col(LogIn(bad, he)) = Col(he)
      BY <1>2, LogFacts
    <3> QED BY <1>4, <2>1, <3>1
  <2>3. he = bs
    <3>1. bs <= he /\ he < bs + EraseSize
      BY <1>2, Sizes
    <3>2. Col(he) = he - bs
      <4> HIDE DEF bs, he
      <4> QED BY <1>2, <3>1, SameBlock
    <3> HIDE DEF bs, he
    <3> QED BY <1>2, <2>2, <3>2
  <2>4. ts = bs + w.imglen /\ ts < bs + EraseSize
    <3>1. he + w.imglen < bs + EraseSize
      BY <1>2, <1>3, <2>1, <2>3, Sizes
    <3>2. ts = (IF he + w.imglen >= bs + EraseSize THEN bs + EraseSize ELSE he + w.imglen)
      <4>1. /\ InBody /\ NewBlock /\ w' = Opened
        BY DEF OpenGood, CanOpen
      <4> QED BY <1>1, <1>2, <4>1, OpenedLayout
    <3> HIDE DEF bs, he, ts
    <3> QED BY <1>2, <1>3, <2>3, <3>1, <3>2, Sizes
  <2>5. ~(ts = bs + EraseSize) /\ ts - bs = w.imglen
    <3> HIDE DEF bs, he, ts
    <3> QED BY <1>2, <1>3, <2>4, Sizes
  <2> QED BY <1>1, <1>2, <1>4, <2>1, <2>5 DEF TailInv
<1> QED BY <1>3, <1>5, <1>6

LEMMA TailWritePage == ASSUME Local, Filled, ImageInv, TailInv, WritePage PROVE TailInv'
<1> SUFFICES ASSUME Calm' PROVE TailInv'
  BY DEF TailInv
<1> DEFINE bs == w.blockstart
           he == w.headend
           ts == w.tailstart
           b  == Base(w)
           l  == w.off + w.len
<1>1. /\ Inside /\ Local' /\ w'.off = w.off /\ w'.len = w.len /\ bad' = bad /\ hist' = hist
      /\ w'.blockstart = bs /\ w'.headend = he /\ w'.tailstart = ts /\ buf' = buf
      /\ \/ Inside' /\ ~Outside'
         \/ /\ Outside' /\ ~Inside' /\ w'.wcnt = b + (ts - he)
            /\ Front(w) + WriteSize = bs + EraseSize
            /\ ts < bs + EraseSize => w'.imglen = 0
      /\ \A a \in Addr : flash'[a] = IF Front(w) <= a /\ a < Front(w) + WriteSize
                                     THEN Content(w, buf, a) ELSE flash[a]
  BY LocalWritePage
<1>2. /\ bs \in Nat /\ Col(bs) = 0 /\ bs + EraseSize <= Size /\ BlockOf(bs) \notin bad
      /\ he \in Nat /\ ts \in Nat /\ bs <= he /\ he < ts /\ ts <= bs + EraseSize
      /\ b \in Nat /\ w.off \in Nat /\ w.len \in Nat /\ l \in Nat
      /\ \A a \in Addr : a \in Within(w) <=> bs <= a /\ a < bs + EraseSize
  BY <1>1, InsideFacts, CallFacts
<1>3. /\ Calm /\ OldStart' = OldStart /\ LogIn(bad, he) = w.off + b
      /\ ts = bs + EraseSize => hist.n.write = 0
      /\ ts < bs + EraseSize =>
           \A i \in 0 .. EraseSize - 1 : i >= ts - bs => buf[i] = OldStart + i
  <2>1. Calm /\ hist.n.head = 0 /\ OldStart' = OldStart
    BY <1>1 DEF Calm, OldStart
  <2> QED BY <1>1, <2>1 DEF TailInv, ImageInv
<1>4. CASE Inside' /\ ~Outside'
  BY <1>1, <1>3, <1>4 DEF TailInv
<1>5. CASE /\ Outside' /\ ~Inside' /\ w'.wcnt = b + (ts - he)
           /\ Front(w) + WriteSize = bs + EraseSize
           /\ ts < bs + EraseSize => w'.imglen = 0
  <2>1. w'.imglen > 0 => ~(hist'.n.write > 0)
    <3>1. ~(0 > 0)
      OBVIOUS
    <3>2. w'.imglen > 0 => ~(ts < bs + EraseSize)
      BY <1>5, <3>1
    <3>3. ts < bs + EraseSize \/ ts = bs + EraseSize
      BY <1>2, Sizes
    <3> QED BY <1>1, <1>3, <3>1, <3>2, <3>3
  <2>2. ASSUME w'.imglen = 0, NEW a \in Addr, BlockOf(a) \notin bad, LogIn(bad, a) >= l,
               BlockOf(LogIn(bad, a)) = BlockOf(l - 1)
        PROVE  flash'[a] = OldStart + Col(a)
    <3>1. LogIn(bad, he) + (ts - he) = l
      <4>1. w'.wcnt = w'.len - w'.imglen /\ w'.wcnt = w.len
        <5>1. w'.wcnt = w'.len - w'.imglen
          BY <1>1 DEF Local, Typed, TypeOK
        <5> QED BY <1>1, <1>2, <2>2, <5>1
      <4> HIDE DEF bs, he, ts, b
      <4> QED BY <1>2, <1>3, <1>5, <4>1
    <3>2. bs <= a /\ a < bs + EraseSize /\ a >= ts
      <4> HIDE DEF bs, he, ts, b, l
      <4> QED BY <1>2, <2>2, <3>1, LastBlock
    <3>3. a \in Nat /\ Col(a) = a - bs
      <4>1. a \in Nat
        BY DEF Addr
      <4> HIDE DEF bs
      <4> QED BY <1>2, <3>2, <4>1, SameBlock
    <3>4. ~(he <= a /\ a < ts) /\ a - bs \in 0 .. EraseSize - 1 /\ a - bs >= ts - bs
          /\ ts < bs + EraseSize
      <4> HIDE DEF bs, he, ts
      <4> QED BY <1>2, <3>2, <3>3, Sizes
    <3>5. Content(w, buf, a) = OldStart + Col(a)
      <4>1. Content(w, buf, a) = buf[a - bs]
        BY <3>4 DEF Content
      <4> QED BY <1>3, <3>3, <3>4, <4>1
    <3>6. ~(Front(w) <= a /\ a < Front(w) + WriteSize) => flash[a] = Content(w, buf, a)
      <4>1. Front(w) \in Nat
        BY LayoutFacts DEF WritePage, CanWrite
      <4>2. ~(Front(w) <= a /\ a < Front(w) + WriteSize) => a < Front(w)
        <5> HIDE DEF bs
        <5> QED BY <1>5, <3>2, <3>3, <4>1
      <4>3. a \in Within(w)
        BY <1>2, <3>2
      <4> QED BY <1>1, <4>2, <4>3 DEF Filled
    <3> QED BY <1>1, <3>5, <3>6
  <2>3. w'.imglen = 0 =>
          \A a \in Addr : BlockOf(a) \notin bad' /\ LogIn(bad', a) >= w'.off + w'.len
                            /\ BlockOf(LogIn(bad', a)) = BlockOf((w'.off + w'.len) - 1)
                              => flash'[a] = OldStart' + Col(a)
    <3> SUFFICES ASSUME w'.imglen = 0, NEW a \in Addr, BlockOf(a) \notin bad',
                        LogIn(bad', a) >= w'.off + w'.len,
                        BlockOf(LogIn(bad', a)) = BlockOf((w'.off + w'.len) - 1)
                 PROVE  flash'[a] = OldStart' + Col(a)
      OBVIOUS
    <3>1. /\ BlockOf(a) \notin bad /\ LogIn(bad, a) >= l
          /\ BlockOf(LogIn(bad, a)) = BlockOf(l - 1)
      BY <1>1
    <3>2. flash'[a] = OldStart + Col(a)
      BY <2>2, <3>1
    <3> QED BY <1>3, <3>2
  <2> HIDE DEF bs, he, ts, b
  <2> QED BY <1>5, <2>1, <2>3 DEF TailInv
<1> QED BY <1>1, <1>4, <1>5

LEMMA TailWriteFail == ASSUME Local, ImageInv, TailInv, WriteFail PROVE TailInv'
<1> SUFFICES ASSUME Calm' PROVE TailInv'
  BY DEF TailInv
<1> DEFINE bs == w.blockstart
           he == w.headend
           ts == w.tailstart
           b  == Base(w)
<1>1. /\ Inside /\ ~Inside' /\ w'.off = w.off /\ w'.len = w.len /\ hist'.bad = hist.bad
      /\ w'.wcnt = b /\ w'.imglen > 0 /\ w'.dataBack /\ buf' = buf
      /\ ts < bs + EraseSize => w'.imglen = ts - he
      /\ hist'.n.erase = hist.n.erase
      /\ hist'.n.full = hist.n.full + (IF he = bs /\ ts = bs + EraseSize THEN 1 ELSE 0)
      /\ hist'.n.head = hist.n.head + (IF he > bs THEN 1 ELSE 0)
      /\ hist.n.full \in Nat /\ hist.n.head \in Nat
  BY LocalWriteFail
<1>2. /\ bs \in Nat /\ Col(bs) = 0 /\ he \in Nat /\ ts \in Nat /\ bs <= he /\ he < ts
      /\ ts <= bs + EraseSize
  BY <1>1, InsideFacts
<1>3. hist.n.head = 0 /\ he = bs
  <2>1. hist.n.head + (IF he > bs THEN 1 ELSE 0) = 0
    BY <1>1 DEF Calm
  <2> HIDE DEF bs, he
  <2> QED BY <1>1, <1>2, <2>1
<1>4. hist.n.full = 0 /\ ts < bs + EraseSize
  <2>1. hist.n.full + (IF he = bs /\ ts = bs + EraseSize THEN 1 ELSE 0) = 0
    BY <1>1 DEF Calm
  <2>2. ts < bs + EraseSize \/ ts = bs + EraseSize
    BY <1>2, Sizes
  <2> HIDE DEF bs, he, ts
  <2> QED BY <1>1, <1>3, <2>1, <2>2
<1>5. Calm /\ OldStart' = OldStart
  BY <1>1, <1>3, <1>4 DEF Calm, OldStart
<1>6. \A i \in 0 .. EraseSize - 1 : i >= ts - bs => buf[i] = OldStart + i
  BY <1>1, <1>4, <1>5 DEF TailInv
<1>7. w'.imglen = ts - bs /\ w'.imglen < EraseSize
  BY <1>1, <1>2, <1>3, <1>4, Sizes
<1>8. Col(w'.off + w'.wcnt) = 0
  <2>1. LogIn(bad, bs) = w.off + b
    BY <1>1, <1>3 DEF ImageInv
  <2>2. Col(LogIn(bad, bs)) = 0
    BY <1>2, LogFacts
  <2> QED BY <1>1, <2>1, <2>2
<1>9. ~(w'.imglen = 0)
  <2>1. ~(0 > 0)
    OBVIOUS
  <2> QED BY <1>1, <2>1
<1> QED BY <1>1, <1>5, <1>6, <1>7, <1>8, <1>9 DEF TailInv

LEMMA TailNext == ASSUME Local, Filled, ImageInv, TailInv, Next PROVE TailInv'
<1>1. ASSUME NEW off \in Offsets, NEW len \in Lengths, Begin(off, len) PROVE TailInv'
  <2>1. ~Inside' /\ w'.imglen = len /\ hist.n = NoFails /\ hist' = hist
    BY <1>1, LocalBegin DEF Begin
  <2>2. len # 0 /\ hist'.n.write = 0 /\ ~(0 > 0)
    BY <2>1, RequestAssumption DEF NoFails
  <2> QED BY <2>1, <2>2 DEF TailInv
<1>2. CASE OpenPastEnd \/ OpenReadFail
  BY <1>2, LocalGiveUp DEF TailInv
<1>3. CASE Finish
  <2>1. /\ ~Inside' /\ Outside /\ UNCHANGED <<flash, bad, w, buf, hist>>
    BY <1>3, LocalFinish
  <2> QED BY <2>1 DEF TailInv, Calm, OldStart
<1>4. CASE OpenBad
  <2>1. /\ ~Inside' /\ Outside /\ UNCHANGED <<flash, bad, buf, hist>>
        /\ w'.off = w.off /\ w'.len = w.len /\ w'.wcnt = w.wcnt /\ w'.imglen = w.imglen
        /\ w'.dataBack = w.dataBack
    BY <1>4, LocalOpenBad
  <2> QED BY <2>1 DEF TailInv, Calm, OldStart
<1>5. CASE OpenEraseFail
  <2>1. hist'.n.erase = hist.n.erase + 1
    BY <1>5, LocalOpenEraseFail
  <2>2. hist'.n.erase # 0
    BY <2>1, CallFacts
  <2> QED BY <2>2 DEF TailInv, Calm
<1> QED BY <1>1, <1>2, <1>3, <1>4, <1>5, TailOpenGood, TailWritePage, TailWriteFail
           DEF Next, WriteStep

LEMMA TailStutter == ASSUME TailInv, UNCHANGED vars PROVE TailInv'
BY SameSide DEF TailInv, Calm, OldStart

LEMMA RestIsThere == ASSUME Local, ImageInv, RestInv, TailInv PROVE RestPreserved
<1> SUFFICES ASSUME Written PROVE RestPreserved
  BY DEF RestPreserved
<1>1. w.off \in Nat /\ w.len \in Nat /\ w.wcnt \in Nat /\ w.imglen \in Nat
      /\ w.wcnt = w.len - w.imglen
  BY CallFacts
<1>2. w.imglen = 0 /\ Outside /\ w.wcnt = w.len
  <2>1. ~(w.imglen > 0)
    BY DEF Local, Typed, Written
  <2>2. w.imglen = 0
    BY <1>1, <2>1
  <2> QED BY <1>1, <2>2 DEF Written, Outside
<1>3. ASSUME NoFailures, NEW a \in Addr, a \notin {Phys(o) : o \in Request} PROVE flash[a] = a
  <2>1. Kept(flash, bad, w.off, w.len, {})
    BY <1>2, <1>3 DEF RestInv, NoFailures
  <2>2. ASSUME BlockOf(a) \notin bad, LogIn(bad, a) >= w.off, LogIn(bad, a) < w.off + w.len
        PROVE  FALSE
    <3>1. a \in Nat /\ a < Size
      BY Sizes DEF Addr
    <3>2. LogIn(bad, a) \in Nat /\ LogIn(bad, a) < LogSize
      BY <2>2, <3>1, LogFacts DEF LogSize, Good
    <3>3. LogIn(bad, a) \in Request
      BY <1>1, <2>2, <3>2 DEF Request
    <3>4. a = Phys(LogIn(bad, a))
      BY <2>2, <3>2, PhysFacts
    <3> QED BY <1>3, <3>3, <3>4
  <2> QED BY <2>1, <2>2 DEF Kept
<1>4. ASSUME Calm, NEW o \in w.off + w.len .. LogSize - 1, BlockOf(o) = BlockOf(w.off + w.len - 1)
      PROVE  flash[Phys(o)] = PhysBefore(o)
  <2>1. LogSize \in Nat
    BY RankFinite, Sizes, Products DEF LogSize, Good
  <2>2. o \in Nat /\ o < LogSize /\ o >= w.off + w.len
    BY <1>1, <2>1
  <2>3. Phys(o) \in Addr /\ BlockOf(Phys(o)) \notin bad /\ LogIn(bad, Phys(o)) = o
    BY <2>2, PhysFacts
  <2>4. Col(Phys(o)) = Col(o)
    <3>1. Phys(o) \in Nat
      BY <2>3 DEF Addr
    <3> QED BY <2>3, <3>1, LogFacts
  <2>5. BlockOf(o) = BlockOf((w.off + w.len) - 1)
    <3>1. w.off + w.len - 1 = (w.off + w.len) - 1
      BY <1>1
    <3> QED BY <1>4, <3>1
  <2>6. flash[Phys(o)] = OldStart + Col(o)
    BY <1>2, <1>4, <2>2, <2>3, <2>4, <2>5 DEF TailInv
  <2>7. PhysBefore(o) = OldStart + Col(o)
    <3> HIDE DEF BlockOf, EraseSize
    <3> QED BY <2>5 DEF PhysBefore, OldStart, OldIn, NthIn, RankIn, Col
  <2> QED BY <2>6, <2>7
<1> QED BY <1>3, <1>4 DEF RestPreserved, Calm

\* What a write is not asked to change it keeps: all of it when no driver call
\* failed, and the tail of the last block when only programs in such a block did.
THEOREM RestIsKept == USpec => []RestPreserved
<1>1. UInit => Local /\ Filled /\ ImageInv /\ RestInv /\ TailInv
  <2>1. UInit => Filled /\ ImageInv /\ RestInv /\ TailInv
    BY DEF UInit, Init, Filled, ImageInv, RestInv, TailInv, Inside, Outside, Under
  <2> QED BY <2>1, LocalInit DEF UInit
<1>2. Local /\ Filled /\ ImageInv /\ [UNext]_allVars => Local' /\ Filled' /\ ImageInv'
  BY LocalNext, LocalStutter, FilledNext, FilledStutter, ImageNext, ImageStutter, WriteOrNot
<1>3. Local /\ Filled /\ ImageInv /\ RestInv /\ TailInv /\ [UNext]_allVars => RestInv' /\ TailInv'
  BY RestNext, RestStutter, TailNext, TailStutter, WriteOrNot
<1>4. Local /\ ImageInv /\ RestInv /\ TailInv => RestPreserved
  BY RestIsThere
<1> QED BY <1>1, <1>2, <1>3, <1>4, PTL DEF USpec

(***************************************************************************)
(* A write that loses a head goes on with the image at the start of the    *)
(* next block, and is found out: its offset is not at the start of one.    *)
(***************************************************************************)
\* In the good blocks outside X there are only the first n image bytes; if m heads
\* were lost each is in its own column.
Sparse(f, B, X, n, m) ==
  \A a \in Addr : \A i \in Nat :
    a \notin X /\ BlockOf(a) \notin B /\ f[a] = Img(i) => i < n /\ (m > 0 => Col(a) = Col(i))

Shifted ==
  /\ hist.n.head > 0 => /\ Col(w.off) # 0
                        /\ Inside => Col(Base(w)) = 0
                        /\ Outside /\ w.imglen > 0 => Col(w.wcnt) = 0
  /\ Inside => Sparse(flash, bad, Within(w), Base(w), hist.n.head)
  /\ Outside => Sparse(flash, bad, {}, w.wcnt, hist.n.head)

LEMMA ShiftedOpenGood == ASSUME Local, Shifted, OpenGood PROVE Shifted'
<1>1. /\ Inside' /\ ~Outside' /\ Outside /\ w.imglen > 0 /\ bad' = bad /\ hist' = hist
      /\ w'.off = w.off /\ \A a \in Addr : a \notin Within(w') => flash'[a] = flash[a]
  BY LocalOpenGood
<1>2. Base(w') = w.wcnt
  BY OpenedBlock
<1>3. Sparse(flash', bad, Within(w'), w.wcnt, hist.n.head)
  <2>1. Sparse(flash, bad, {}, w.wcnt, hist.n.head)
    BY <1>1 DEF Shifted
  <2>2. ASSUME NEW a \in Addr, NEW i \in Nat, a \notin Within(w'), BlockOf(a) \notin bad,
               flash'[a] = Img(i)
        PROVE  i < w.wcnt /\ (hist.n.head > 0 => Col(a) = Col(i))
    <3>1. flash[a] = Img(i) /\ a \notin {}
      BY <1>1, <2>2
    <3> QED BY <2>1, <2>2, <3>1 DEF Sparse
  <2> QED BY <2>2 DEF Sparse
<1>4. hist.n.head > 0 => Col(w.off) # 0 /\ Col(w.wcnt) = 0
  BY <1>1 DEF Shifted
<1>5. Sparse(flash', bad', Within(w'), Base(w'), hist'.n.head)
  BY <1>1, <1>2, <1>3
<1>6. hist'.n.head > 0 => Col(w'.off) # 0 /\ Col(Base(w')) = 0
  BY <1>1, <1>2, <1>4
<1> QED BY <1>1, <1>5, <1>6 DEF Shifted

LEMMA ShiftedWritePage == ASSUME Local, Filled, Shifted, WritePage PROVE Shifted'
<1> DEFINE bs == w.blockstart
           he == w.headend
           ts == w.tailstart
           b  == Base(w)
           m  == hist.n.head
<1>1. /\ Inside /\ w'.off = w.off /\ Base(w') = b /\ bad' = bad /\ hist' = hist
      /\ w'.blockstart = bs
      /\ \/ Inside' /\ ~Outside'
         \/ /\ Outside' /\ ~Inside' /\ w'.wcnt = b + (ts - he)
            /\ Front(w) + WriteSize = bs + EraseSize
            /\ ts < bs + EraseSize => w'.imglen = 0
      /\ \A a \in Addr : flash'[a] = IF Front(w) <= a /\ a < Front(w) + WriteSize
                                     THEN Content(w, buf, a) ELSE flash[a]
      /\ \A a \in Addr : a \notin Within(w) => flash'[a] = flash[a]
  BY LocalWritePage
<1>2. /\ bs \in Nat /\ Col(bs) = 0 /\ he \in Nat /\ ts \in Nat /\ bs <= he /\ he < ts
      /\ ts <= bs + EraseSize /\ b \in Nat /\ m \in Nat /\ (he > bs => m = 0)
      /\ \A a \in Addr : a \in Within(w) <=> bs <= a /\ a < bs + EraseSize
  BY <1>1, InsideFacts, CallFacts
<1>3. /\ Sparse(flash, bad, Within(w), b, m)
      /\ m > 0 => Col(w.off) # 0 /\ Col(b) = 0
  BY <1>1 DEF Shifted
<1>4. Within(w') = Within(w)
  BY <1>1 DEF Within
<1>5. Sparse(flash', bad, Within(w), b, m)
  <2>1. ASSUME NEW a \in Addr, NEW i \in Nat, a \notin Within(w), BlockOf(a) \notin bad,
               flash'[a] = Img(i)
        PROVE  i < b /\ (m > 0 => Col(a) = Col(i))
    <3>1. flash[a] = Img(i)
      BY <1>1, <2>1
    <3> QED BY <1>3, <2>1, <3>1 DEF Sparse
  <2> QED BY <2>1 DEF Sparse
<1>6. CASE Inside' /\ ~Outside'
  <2>1. Sparse(flash', bad', Within(w'), Base(w'), hist'.n.head)
    BY <1>1, <1>4, <1>5
  <2>2. hist'.n.head > 0 => Col(w'.off) # 0 /\ Col(Base(w')) = 0
    BY <1>1, <1>3
  <2> QED BY <1>6, <2>1, <2>2 DEF Shifted
<1>7. CASE /\ Outside' /\ ~Inside' /\ w'.wcnt = b + (ts - he)
           /\ Front(w) + WriteSize = bs + EraseSize
           /\ ts < bs + EraseSize => w'.imglen = 0
  <2>1. m > 0 => he = bs
    <3> HIDE DEF bs, he, m
    <3> QED BY <1>2
  <2>2. ASSUME NEW a \in Addr, a \in Within(w), NEW i \in Nat, flash'[a] = Img(i)
        PROVE  i < b + (ts - he) /\ (m > 0 => Col(a) = Col(i))
    <3>1. a \in Nat /\ bs <= a /\ a < bs + EraseSize /\ Col(a) = a - bs
          /\ a - bs \in 0 .. EraseSize - 1
      <4>1. a \in Nat /\ bs <= a /\ a < bs + EraseSize
        BY <1>2, <2>2 DEF Addr
      <4> HIDE DEF bs
      <4>2. Col(a) = a - bs
        BY <1>2, <4>1, SameBlock
      <4> QED BY <1>2, <4>1, <4>2, Sizes
    <3>2. flash'[a] = Content(w, buf, a)
      <4>1. Front(w) \in Nat
        BY LayoutFacts DEF WritePage, CanWrite
      <4>2. ~(Front(w) <= a /\ a < Front(w) + WriteSize) => a < Front(w)
        <5> HIDE DEF bs
        <5> QED BY <1>7, <3>1, <4>1
      <4> QED BY <1>1, <2>2, <4>2 DEF Filled
    <3>3. buf[a - bs] # Img(i)
      <4>1. buf[a - bs] \in Addr \cup {Erased, Zero}
        BY <3>1 DEF Local, Typed
      <4>2. Img(i) \notin Addr \cup {Erased, Zero}
        BY Sizes DEF Img, Addr, Erased, Zero
      <4> QED BY <4>1, <4>2
    <3>4. he <= a /\ a < ts /\ Img(b + (a - he)) = Img(i)
      BY <2>2, <3>2, <3>3 DEF Content
    <3>5. b + (a - he) = i
      <4> HIDE DEF b, he, ts
      <4> QED BY <1>2, <2>2, <3>1, <3>4, Sizes DEF Img
    <3>6. i < b + (ts - he)
      <4> HIDE DEF b, he, ts
      <4> QED BY <1>2, <3>1, <3>4, <3>5
    <3>7. m > 0 => Col(a) = Col(i)
      <4> SUFFICES ASSUME m > 0 PROVE Col(a) = Col(i)
        OBVIOUS
      <4>1. i = b + (a - bs) /\ b <= i /\ i < b + EraseSize /\ Col(b) = 0
        <5>1. Col(b) = 0 /\ he = bs
          BY <1>3, <2>1
        <5> HIDE DEF b, he, bs, m
        <5> QED BY <1>2, <3>1, <3>5, <5>1, Sizes
      <4>2. Col(i) = i - b
        <5> HIDE DEF b
        <5> QED BY <1>2, <4>1, SameBlock
      <4> HIDE DEF b, bs, m
      <4> QED BY <1>2, <3>1, <4>1, <4>2
    <3> QED BY <3>6, <3>7
  <2>3. Sparse(flash', bad, {}, b + (ts - he), m)
    <3>1. ASSUME NEW a \in Addr, NEW i \in Nat, BlockOf(a) \notin bad, flash'[a] = Img(i)
          PROVE  i < b + (ts - he) /\ (m > 0 => Col(a) = Col(i))
      <4>1. CASE a \in Within(w)
        BY <2>2, <3>1, <4>1
      <4>2. CASE a \notin Within(w)
        <5>1. i < b /\ (m > 0 => Col(a) = Col(i))
          BY <1>5, <3>1, <4>2 DEF Sparse
        <5>2. i < b => i < b + (ts - he)
          <6> HIDE DEF b, ts, he
          <6> QED BY <1>2
        <5> QED BY <5>1, <5>2
      <4> QED BY <4>1, <4>2
    <3> QED BY <3>1 DEF Sparse
  <2>4. m > 0 /\ w'.imglen > 0 => Col(b + (ts - he)) = 0
    <3> SUFFICES ASSUME m > 0, w'.imglen > 0 PROVE Col(b + (ts - he)) = 0
      OBVIOUS
    <3>1. ts = bs + EraseSize
      <4>1. ~(0 > 0)
        OBVIOUS
      <4>2. ts < bs + EraseSize \/ ts = bs + EraseSize
        BY <1>2, Sizes
      <4> QED BY <1>7, <4>1, <4>2
    <3>2. b + (ts - he) = b + EraseSize
      <4> HIDE DEF b, bs, he, ts, m
      <4> QED BY <1>2, <2>1, <3>1, Sizes
    <3>3. Col(b + EraseSize) = Col(b)
      <4> HIDE DEF b
      <4> QED BY <1>2, BlockAfter
    <3> QED BY <1>3, <3>2, <3>3
  <2>5. Sparse(flash', bad', {}, w'.wcnt, hist'.n.head)
    BY <1>1, <1>7, <2>3
  <2>6. hist'.n.head > 0 => Col(w'.off) # 0 /\ (w'.imglen > 0 => Col(w'.wcnt) = 0)
    BY <1>1, <1>3, <1>7, <2>4
  <2> QED BY <1>7, <2>5, <2>6 DEF Shifted
<1> QED BY <1>1, <1>6, <1>7

LEMMA ShiftedWriteFail == ASSUME Local, Shifted, WriteFail PROVE Shifted'
<1> DEFINE bs == w.blockstart
           he == w.headend
           b  == Base(w)
           m  == hist.n.head
<1>1. /\ Inside /\ ~Inside' /\ Outside' /\ w'.off = w.off /\ w'.wcnt = b
      /\ bad' = bad \cup {BlockOf(bs)}
      /\ hist'.n.head = m + (IF he > bs THEN 1 ELSE 0)
      /\ \A a \in Addr : a \notin Within(w) => flash'[a] = flash[a]
  BY LocalWriteFail
<1>2. /\ bs \in Nat /\ Col(bs) = 0 /\ he \in Nat /\ bs <= he /\ he < bs + EraseSize
      /\ b \in Nat /\ m \in Nat /\ (he > bs => b = 0 /\ m = 0 /\ Col(he) = Col(w.off))
      /\ \A a \in Addr : a \in Within(w) <=> bs <= a /\ a < bs + EraseSize
  BY <1>1, InsideFacts, CallFacts
<1>3. /\ Sparse(flash, bad, Within(w), b, m)
      /\ m > 0 => Col(w.off) # 0 /\ Col(b) = 0
  BY <1>1 DEF Shifted
<1>4. ASSUME NEW a \in Addr, NEW i \in Nat, BlockOf(a) \notin bad', flash'[a] = Img(i)
      PROVE  i < b /\ (m > 0 => Col(a) = Col(i))
  <2>1. a \in Nat
    BY DEF Addr
  <2>2. BlockOf(a) \notin bad /\ ~(bs <= a /\ a < bs + EraseSize)
    <3>1. BlockOf(a) \notin bad /\ BlockOf(a) # BlockOf(bs)
      BY <1>1, <1>4
    <3> HIDE DEF bs
    <3> QED BY <1>2, <2>1, <3>1, SameBlock
  <2>3. a \notin Within(w)
    BY <1>2, <2>2
  <2>4. flash[a] = Img(i)
    BY <1>1, <1>4, <2>3
  <2> QED BY <1>3, <2>2, <2>3, <2>4 DEF Sparse
<1>5. CASE he > bs
  <2>1. b = 0 /\ Col(w.off) # 0
    <3>1. Col(he) = he - bs
      <4> HIDE DEF bs, he
      <4> QED BY <1>2, SameBlock
    <3>2. he - bs # 0
      <4> HIDE DEF bs, he
      <4> QED BY <1>2, <1>5
    <3> QED BY <1>2, <1>5, <3>1, <3>2
  <2>2. Sparse(flash', bad', {}, w'.wcnt, hist'.n.head)
    <3>1. ASSUME NEW a \in Addr, NEW i \in Nat, BlockOf(a) \notin bad', flash'[a] = Img(i) PROVE FALSE
      <4>1. i < 0
        BY <1>4, <2>1, <3>1
      <4> QED BY <4>1
    <3> QED BY <3>1 DEF Sparse
  <2>3. Col(w'.wcnt) = 0
    BY <1>1, <2>1, ModRange, Sizes DEF Col
  <2> QED BY <1>1, <2>1, <2>2, <2>3 DEF Shifted
<1>6. CASE ~(he > bs)
  <2>1. hist'.n.head = m
    BY <1>1, <1>2, <1>6
  <2>2. Sparse(flash', bad', {}, b, m)
    BY <1>4 DEF Sparse
  <2>3. Sparse(flash', bad', {}, w'.wcnt, hist'.n.head)
    BY <1>1, <2>1, <2>2
  <2>4. hist'.n.head > 0 => Col(w'.off) # 0 /\ Col(w'.wcnt) = 0
    BY <1>1, <1>3, <2>1
  <2> QED BY <1>1, <2>3, <2>4 DEF Shifted
<1> QED BY <1>5, <1>6

LEMMA ShiftedOpenEraseFail == ASSUME Local, Shifted, OpenEraseFail PROVE Shifted'
<1>1. /\ ~Inside' /\ Outside /\ w.imglen > 0 /\ w'.off = w.off /\ w'.wcnt = w.wcnt
      /\ bad' = bad \cup {BlockOf(w.mtdoffset)} /\ hist'.n.head = hist.n.head
      /\ \A a \in Addr : BlockOf(a) # BlockOf(w.mtdoffset) => flash'[a] = flash[a]
  BY LocalOpenEraseFail
<1>2. /\ Sparse(flash, bad, {}, w.wcnt, hist.n.head)
      /\ hist.n.head > 0 => Col(w.off) # 0 /\ Col(w.wcnt) = 0
  BY <1>1 DEF Shifted
<1>3. Sparse(flash', bad', {}, w.wcnt, hist.n.head)
  <2>1. ASSUME NEW a \in Addr, BlockOf(a) \notin bad' PROVE BlockOf(a) \notin bad /\ flash'[a] = flash[a]
    BY <1>1, <2>1
  <2> QED BY <1>2, <2>1 DEF Sparse
<1>4. Sparse(flash', bad', {}, w'.wcnt, hist'.n.head)
  BY <1>1, <1>3
<1>5. hist'.n.head > 0 => Col(w'.off) # 0 /\ Col(w'.wcnt) = 0
  BY <1>1, <1>2
<1> QED BY <1>1, <1>4, <1>5 DEF Shifted

LEMMA ShiftedNext == ASSUME Local, Filled, Shifted, Next PROVE Shifted'
<1>1. ASSUME NEW off \in Offsets, NEW len \in Lengths, Begin(off, len) PROVE Shifted'
  <2>1. ~Inside' /\ flash' = [a \in Addr |-> a] /\ hist'.n.head = 0
    <3>1. ~Inside' /\ flash = [a \in Addr |-> a] /\ hist.n = NoFails
      BY <1>1, LocalBegin
    <3>2. flash' = flash /\ hist' = hist /\ NoFails.head = 0
      BY <1>1 DEF Begin, NoFails
    <3> QED BY <3>1, <3>2
  <2>2. \A a \in Addr, i \in Nat : flash'[a] # Img(i)
    <3>1. \A i \in Nat : Img(i) \notin Addr
      BY Sizes DEF Img, Addr
    <3> QED BY <2>1, <3>1
  <2>3. Sparse(flash', bad', {}, w'.wcnt, hist'.n.head)
    BY <2>2 DEF Sparse
  <2>4. ~(hist'.n.head > 0)
    BY <2>1
  <2> QED BY <2>1, <2>3, <2>4 DEF Shifted
<1>2. CASE OpenPastEnd \/ OpenReadFail
  <2>1. ~Outside' /\ ~Inside' /\ UNCHANGED <<flash, bad, w, hist>> /\ Outside /\ w'.imglen > 0
    BY <1>2, LocalGiveUp, OutsideFacts DEF OpenPastEnd, OpenReadFail, CanOpen
  <2> QED BY <2>1 DEF Shifted
<1>3. CASE Finish
  <2>1. /\ ~Inside' /\ Outside /\ UNCHANGED <<flash, bad, w, hist>>
    BY <1>3, LocalFinish
  <2> QED BY <2>1 DEF Shifted
<1>4. CASE OpenBad
  <2>1. /\ ~Inside' /\ Outside /\ UNCHANGED <<flash, bad, hist>>
        /\ w'.off = w.off /\ w'.wcnt = w.wcnt /\ w'.imglen = w.imglen
    BY <1>4, LocalOpenBad
  <2> QED BY <2>1 DEF Shifted
<1> QED BY <1>1, <1>2, <1>3, <1>4, ShiftedOpenGood, ShiftedOpenEraseFail, ShiftedWritePage,
           ShiftedWriteFail DEF Next, WriteStep

LEMMA ShiftedStutter == ASSUME Shifted, UNCHANGED vars PROVE Shifted'
BY SameSide DEF Shifted, Base, Taken, Within

(***************************************************************************)
(* Reading back.                                                           *)
(***************************************************************************)
LEMMA RunIsSeq ==
  ASSUME NEW n \in Nat, NEW s, s = [i \in 1 .. n |-> s[i]], \A i \in 1 .. n : s[i] \in Nat
  PROVE  s \in Seq(Nat) /\ Len(s) = n
<1>1. s \in [1 .. n -> Nat]
  OBVIOUS
<1> QED BY <1>1

Joins(u, s, t) ==
  /\ u \in Seq(Nat) /\ Len(u) = Len(s) + Len(t)
  /\ \A i \in 1 .. Len(s) : u[i] = s[i]
  /\ \A i \in Len(s) + 1 .. Len(s) + Len(t) : u[i] = t[i - Len(s)]

LEMMA Joined ==
  ASSUME NEW s \in Seq(Nat), NEW t \in Seq(Nat), NEW u, u = s \o t
  PROVE  Joins(u, s, t)
<1>1. u \in Seq(Nat) /\ Len(u) = Len(s) + Len(t) /\ Len(s) \in Nat /\ Len(t) \in Nat
  OBVIOUS
<1>2. \A i \in 1 .. Len(s) : u[i] = s[i]
  BY <1>1
<1>3. \A i \in Len(s) + 1 .. Len(s) + Len(t) : u[i] = t[i - Len(s)]
  BY <1>1
<1> QED BY <1>1, <1>2, <1>3 DEF Joins

\* A piece stays in its page, and the page in its block.
LEMMA PieceInBlock ==
  ASSUME NEW ofs \in Nat, ofs < Size, NEW need \in Nat, need > 0,
         need >= WriteSize \/ PgCol(ofs) + need <= WriteSize
  PROVE  /\ ofs + Piece(ofs, need) <= BlockStart(ofs) + EraseSize
         /\ BlockStart(ofs) + EraseSize <= Size
         /\ need - Piece(ofs, need) \in Nat
         /\ \/ need - Piece(ofs, need) = 0
            \/ PgCol(ofs + Piece(ofs, need)) = 0
<1> DEFINE n == Piece(ofs, need)
           p == ofs - PgCol(ofs)
           b == BlockStart(ofs)
<1>1. /\ n \in Nat /\ n > 0 /\ n <= need /\ PgCol(ofs) \in Nat /\ PgCol(ofs) < WriteSize
      /\ n = IF need >= WriteSize THEN WriteSize - PgCol(ofs) ELSE need
  BY PieceFacts
<1>2. p \in Nat /\ PgCol(p) = 0
  <2> DEFINE m == ofs \div WriteSize
  <2>1. WriteSize \in Nat \ {0} /\ m \in Nat
    BY Sizes, DivNat
  <2>2. p = WriteSize * m
    <3>1. PgCol(ofs) = ofs - WriteSize * m
      BY <2>1, DivMod DEF PgCol
    <3>2. WriteSize * m \in Nat
      BY <2>1
    <3> HIDE DEF m
    <3> QED BY <3>1, <3>2
  <2> HIDE DEF m, p
  <2>3. 0 \in 0 .. WriteSize - 1 /\ p \in Nat /\ WriteSize * m + 0 = p
    BY <2>1, <2>2
  <2>4. p \div WriteSize = m
    BY <2>1, <2>3, DivUnique
  <2>5. p % WriteSize = p - WriteSize * m
    BY <2>1, <2>3, <2>4, DivMod
  <2>6. p % WriteSize = 0
    BY <2>2, <2>3, <2>5
  <2> QED BY <2>3, <2>6 DEF PgCol
<1>3. b \in Nat /\ Col(b) = 0 /\ b <= ofs /\ ofs < b + EraseSize /\ b + EraseSize <= Size
  <2>1. b \in Nat /\ BlockOf(ofs) \in Nat /\ b = BlockOf(ofs) * EraseSize /\ b <= ofs
        /\ ofs < b + EraseSize
    BY BlockFacts
  <2>2. Col(b) = 0
    <3>1. BlockOf(ofs) * EraseSize + 0 = b /\ 0 < EraseSize
      BY <2>1, Sizes
    <3> QED BY <2>1, <3>1, InBlock
  <2> QED BY <2>1, <2>2, BlockInside
<1>4. p + WriteSize <= b + EraseSize
  <2>1. p < b + EraseSize
    <3> HIDE DEF b
    <3> QED BY <1>1, <1>3, Sizes
  <2> HIDE DEF p, b
  <2> QED BY <1>2, <1>3, <2>1, PageFacts
<1>5. ofs + n <= p + WriteSize
  <2> HIDE DEF n
  <2> QED BY <1>1, Sizes
<1>6. need - n \in Nat
  BY <1>1
<1>7. need - n = 0 \/ PgCol(ofs + n) = 0
  <2>1. CASE need >= WriteSize
    <3>1. ofs + n = p + WriteSize
      <4> HIDE DEF n
      <4> QED BY <1>1, <2>1, Sizes
    <3>2. PgCol(p + WriteSize) = 0
      <4> HIDE DEF p
      <4> QED BY <1>2, PageAfter
    <3> QED BY <3>1, <3>2
  <2>2. CASE ~(need >= WriteSize)
    BY <1>1, <2>2
  <2> QED BY <2>1, <2>2
<1>8. ofs + n <= b + EraseSize
  <2> HIDE DEF n, b, p
  <2> QED BY <1>1, <1>2, <1>3, <1>4, <1>5, Sizes
<1> QED BY <1>3, <1>6, <1>7, <1>8

\* A read starts in a good block, in the column it is asked for.
StartsWell(ofs, s) ==
  s \in Seq(Nat) /\ (Len(s) > 0 => s[1] \in Addr /\ BlockOf(s[1]) \notin bad /\ Col(s[1]) = Col(ofs))

LEMMA PathStarts ==
  ASSUME NEW start \in Nat, NEW length \in Nat
  PROVE  StartsWell(start, Path[<<start, length>>])
<1> DEFINE Holds(d) == \A ofs, need \in Nat : ofs + d >= Size => StartsWell(ofs, Path[<<ofs, need>>])
           S == {d \in Nat : Holds(d)}
<1>1. ASSUME NEW ofs \in Nat, NEW need \in Nat, need = 0 \/ ofs >= Size
      PROVE  StartsWell(ofs, Path[<<ofs, need>>])
  <2>1. Path[<<ofs, need>>] = <<>>
    BY <1>1, PathUnfold
  <2> QED BY <2>1 DEF StartsWell
<1>2. 0 \in S
  <2>1. \A ofs \in Nat : ofs + 0 >= Size => ofs >= Size
    BY Sizes
  <2> QED BY <1>1, <2>1
<1>3. ASSUME NEW k \in 1 .. Size, k - 1 \in S PROVE k \in S
  <2>0. k \in Nat /\ Holds(k - 1)
    BY <1>3
  <2>1. ASSUME NEW ofs \in Nat, NEW need \in Nat, ofs + k >= Size
        PROVE  StartsWell(ofs, Path[<<ofs, need>>])
    <3> DEFINE n == Piece(ofs, need)
               s == [i \in 1 .. n |-> ofs + i - 1]
    <3>1. CASE need = 0 \/ ofs >= Size
      BY <1>1, <3>1
    <3>2. CASE ~(need = 0 \/ ofs >= Size) /\ BlockOf(ofs) \in bad
      <4>1. Path[<<ofs, need>>] = Path[<<ofs + EraseSize, need>>]
        BY <3>2, PathUnfold
      <4>2. ofs + EraseSize \in Nat /\ (ofs + EraseSize) + (k - 1) >= Size
        BY <2>0, <2>1, Sizes
      <4>3. StartsWell(ofs + EraseSize, Path[<<ofs + EraseSize, need>>])
        BY <2>0, <4>2
      <4>4. Col(ofs + EraseSize) = Col(ofs)
        BY BlockAfter
      <4> QED BY <4>1, <4>3, <4>4 DEF StartsWell
    <3>3. CASE ~(need = 0 \/ ofs >= Size) /\ BlockOf(ofs) \notin bad
      <4>1. need > 0 /\ ofs < Size
        BY <3>3, Sizes
      <4>2. n \in Nat /\ n > 0 /\ n <= need
        BY <4>1, PieceFacts
      <4>3. CASE ofs + n > Size
        <5>1. Path[<<ofs, need>>] = <<>>
          BY <3>3, <4>3, PathUnfold
        <5> QED BY <5>1 DEF StartsWell
      <4>4. CASE ~(ofs + n > Size)
        <5> DEFINE t == Path[<<ofs + n, need - n>>]
        <5>1. Path[<<ofs, need>>] = s \o t
          BY <3>3, <4>4, PathUnfold
        <5>2. ofs + n \in Nat /\ need - n \in Nat /\ (ofs + n) + (k - 1) >= Size
          <6> HIDE DEF n
          <6> QED BY <2>0, <2>1, <4>2, Sizes
        <5>3. t \in Seq(Nat)
          <6> HIDE DEF n
          <6>1. StartsWell(ofs + n, t)
            BY <2>0, <5>2
          <6> QED BY <6>1 DEF StartsWell
        <5>4. s \in Seq(Nat) /\ Len(s) = n /\ s[1] = ofs
          <6> HIDE DEF n
          <6>1. 1 \in 1 .. n /\ \A i \in 1 .. n : ofs + i - 1 \in Nat
            BY <4>2
          <6>2. s = [i \in 1 .. n |-> s[i]] /\ \A i \in 1 .. n : s[i] \in Nat
            BY <6>1
          <6>3. s[1] = ofs + 1 - 1
            BY <6>1
          <6>4. s \in Seq(Nat) /\ Len(s) = n
            <7> HIDE DEF s
            <7> QED BY <4>2, <6>2, RunIsSeq
          <6>5. ofs + 1 - 1 = ofs
            OBVIOUS
          <6> QED BY <6>3, <6>4, <6>5
        <5>5. s \o t \in Seq(Nat) /\ (s \o t)[1] = ofs
          <6> HIDE DEF s, t, n
          <6>1. 1 \in 1 .. Len(s)
            BY <4>2, <5>4
          <6> QED BY <5>3, <5>4, <6>1, Joined DEF Joins
        <5>6. ofs \in Addr
          BY <4>1, BlockInside
        <5> HIDE DEF s, t
        <5> QED BY <3>3, <5>1, <5>5, <5>6 DEF StartsWell
      <4> QED BY <4>3, <4>4
    <3> QED BY <3>1, <3>2, <3>3
  <2> QED BY <2>0, <2>1
<1>4. Size \in S
  <2> HIDE DEF S
  <2>1. Size \in Nat /\ Size \in 0 .. Size
    BY Sizes
  <2>2. \A i \in 0 .. Size : i \in S
    BY <1>2, <1>3, <2>1, UpTo
  <2> QED BY <2>1, <2>2
<1>5. start + Size >= Size
  BY Sizes
<1> QED BY <1>4, <1>5

LEMMA PgColShift == ASSUME NEW a \in Nat, NEW k \in Nat PROVE PgCol(a + k * EraseSize) = PgCol(a)
<1> DEFINE m == a \div WriteSize
           r == a % WriteSize
           q == k * PagesPerBlock
<1>1. WriteSize \in Nat \ {0} /\ m \in Nat /\ r \in 0 .. WriteSize - 1 /\ q \in Nat
  BY Sizes, DivNat, ModRange
<1>2. a = WriteSize * m + r
  <2>1. r = a - WriteSize * m /\ WriteSize * m \in Nat
    BY <1>1, DivMod
  <2> HIDE DEF m, r
  <2> QED BY <1>1, <2>1
<1>3. k * EraseSize = WriteSize * q
  <2>1. EraseSize = PagesPerBlock * WriteSize /\ PagesPerBlock \in Nat
    BY Sizes
  <2> QED BY <1>1, <2>1
<1> HIDE DEF m, r, q
<1>4. m + q \in Nat /\ WriteSize * (m + q) = WriteSize * m + WriteSize * q
      /\ WriteSize * m \in Nat /\ WriteSize * q \in Nat
  BY <1>1
<1>5. a + k * EraseSize = WriteSize * (m + q) + r /\ a + k * EraseSize \in Nat
  BY <1>1, <1>2, <1>3, <1>4
<1>6. (WriteSize * (m + q) + r) \div WriteSize = m + q
  BY <1>1, <1>4, DivUnique
<1>7. (a + k * EraseSize) % WriteSize = (a + k * EraseSize) - WriteSize * (m + q)
  BY <1>1, <1>5, <1>6, DivMod
<1>8. (a + k * EraseSize) % WriteSize = r
  BY <1>1, <1>4, <1>5, <1>7
<1> QED BY <1>8 DEF PgCol, r

\* The column in a page is one of the column in a block.
LEMMA PgColOfCol ==
  ASSUME NEW a \in Nat, NEW b \in Nat, Col(a) = Col(b)
  PROVE  PgCol(a) = PgCol(b)
<1>1. ASSUME NEW x \in Nat PROVE PgCol(x) = PgCol(Col(x))
  <2>1. Col(x) \in Nat /\ BlockOf(x) \in Nat /\ x = Col(x) + BlockOf(x) * EraseSize
    <3>1. /\ Col(x) \in Nat /\ BlockOf(x) \in Nat /\ BlockStart(x) = BlockOf(x) * EraseSize
          /\ BlockStart(x) \in Nat /\ x = BlockStart(x) + Col(x)
      BY BlockFacts
    <3> QED BY <3>1
  <2>2. PgCol(Col(x) + BlockOf(x) * EraseSize) = PgCol(Col(x))
    BY <2>1, PgColShift
  <2> QED BY <2>1, <2>2
<1> QED BY <1>1

\* A read is of a run of offsets, from a page on or within one.
Asked(ofs, need) ==
  LogIn(bad, ofs) + need <= LogSize /\ (need >= WriteSize \/ PgCol(ofs) + need <= WriteSize)

Follows(l, need, s) ==
  s \in Seq(Nat) /\ Len(s) = need /\ \A i \in 1 .. need : s[i] = Phys((l + i) - 1)

LEMMA LogInside ==
  ASSUME NEW ofs \in Nat, NEW need \in Nat, need > 0, LogIn(bad, ofs) + need <= LogSize
  PROVE  ofs < Size
<1> DEFINE n == Cardinality(Blocks \ bad)
<1>1. LogSize = n * EraseSize /\ LogSize \in Nat /\ LogIn(bad, ofs) \in Nat
  BY RankFinite, Sizes, Products, LogFacts DEF LogSize, Good
<1> SUFFICES ASSUME ofs >= Size PROVE FALSE
  BY Sizes
<1>2. RankIn(Blocks \ bad, BlockOf(ofs)) = n
  <2>1. BlockOf(ofs) >= NumBlocks /\ BlockOf(ofs) \in Nat
    BY BlockInside, BlockFacts
  <2> DEFINE G == Blocks \ bad
  <2>2. G \subseteq Blocks
    OBVIOUS
  <2> HIDE DEF G
  <2>3. RankIn(G, BlockOf(ofs)) = Cardinality(G)
    BY <2>1, <2>2, RankEnds
  <2> QED BY <2>3 DEF G
<1>3. LogIn(bad, ofs) = LogSize + Col(ofs) /\ Col(ofs) \in Nat
  BY <1>1, <1>2, BlockFacts DEF LogIn
<1> QED BY <1>1, <1>3

LEMMA PathFollows ==
  ASSUME NEW start \in Nat, NEW length \in Nat, Asked(start, length)
  PROVE  Follows(LogIn(bad, start), length, Path[<<start, length>>])
<1> DEFINE Holds(d) == \A ofs, need \in Nat : ofs + d >= Size /\ Asked(ofs, need) =>
                          Follows(LogIn(bad, ofs), need, Path[<<ofs, need>>])
           S == {d \in Nat : Holds(d)}
<1>1. ASSUME NEW ofs \in Nat PROVE Follows(LogIn(bad, ofs), 0, Path[<<ofs, 0>>])
  <2>1. Path[<<ofs, 0>>] = <<>>
    BY PathUnfold
  <2> QED BY <2>1 DEF Follows
<1>2. 0 \in S
  <2>1. ASSUME NEW ofs \in Nat, NEW need \in Nat, ofs + 0 >= Size, Asked(ofs, need) PROVE need = 0
    <3>1. need > 0 => ofs < Size
      BY <2>1, LogInside DEF Asked
    <3> QED BY <2>1, <3>1, Sizes
  <2> QED BY <1>1, <2>1
<1>3. ASSUME NEW k \in 1 .. Size, k - 1 \in S PROVE k \in S
  <2>0. k \in Nat /\ Holds(k - 1)
    BY <1>3
  <2>1. ASSUME NEW ofs \in Nat, NEW need \in Nat, ofs + k >= Size, Asked(ofs, need)
        PROVE  Follows(LogIn(bad, ofs), need, Path[<<ofs, need>>])
    <3> DEFINE n == Piece(ofs, need)
               s == [i \in 1 .. n |-> ofs + i - 1]
               l == LogIn(bad, ofs)
    <3>0. l \in Nat /\ LogSize \in Nat
      BY LogFacts, RankFinite, Sizes, Products DEF LogSize, Good
    <3>1. CASE need = 0
      BY <1>1, <3>1
    <3>2. CASE need # 0 /\ BlockOf(ofs) \in bad
      <4>0. ofs < Size
        BY <2>1, <3>2, LogInside DEF Asked
      <4>1. Path[<<ofs, need>>] = Path[<<ofs + EraseSize, need>>]
        <5>1. ~(need = 0 \/ ofs >= Size)
          BY <3>2, <4>0, Sizes
        <5> QED BY <3>2, <5>1, PathUnfold
      <4>2. ofs + EraseSize \in Nat /\ (ofs + EraseSize) + (k - 1) >= Size
        BY <2>0, <2>1, Sizes
      <4>3. LogIn(bad, ofs + EraseSize) = l
        BY <3>2, <4>0, LogAfter
      <4>4. PgCol(ofs + EraseSize) = PgCol(ofs)
        BY <4>2, BlockAfter, PgColOfCol
      <4>5. Asked(ofs + EraseSize, need)
        BY <2>1, <4>3, <4>4 DEF Asked
      <4>6. Follows(LogIn(bad, ofs + EraseSize), need, Path[<<ofs + EraseSize, need>>])
        BY <2>0, <4>2, <4>5
      <4> QED BY <4>1, <4>3, <4>6
    <3>3. CASE need # 0 /\ BlockOf(ofs) \notin bad
      <4> DEFINE e == BlockStart(ofs) + EraseSize
                 t == Path[<<ofs + n, need - n>>]
      <4>1. need > 0 /\ ofs < Size
        BY <2>1, <3>3, LogInside DEF Asked
      <4>2. n \in Nat /\ n > 0 /\ n <= need
        BY <4>1, PieceFacts
      <4>3. /\ ofs + n <= e /\ e <= Size /\ need - n \in Nat
            /\ need - n = 0 \/ PgCol(ofs + n) = 0
        BY <2>1, <4>1, PieceInBlock DEF Asked
      <4>4. e \in Nat /\ BlockStart(ofs) \in Nat /\ BlockStart(ofs) <= ofs
            /\ BlockStart(ofs) = BlockOf(ofs) * EraseSize /\ BlockOf(ofs) \in Nat
        <5>1. BlockStart(ofs) \in Nat /\ BlockStart(ofs) <= ofs /\ BlockOf(ofs) \in Nat
              /\ BlockStart(ofs) = BlockOf(ofs) * EraseSize
          BY BlockFacts
        <5> QED BY <5>1, Sizes
      <4>5. Path[<<ofs, need>>] = s \o t
        <5>1. ~(ofs + n > Size) /\ ~(need = 0 \/ ofs >= Size)
          <6> HIDE DEF n, e
          <6> QED BY <4>1, <4>2, <4>3, <4>4, Sizes
        <5> QED BY <3>3, <5>1, PathUnfold
      <4> HIDE DEF n, e
      <4>6. s \in Seq(Nat) /\ Len(s) = n
        <5>1. \A i \in 1 .. n : ofs + i - 1 \in Nat
          BY <4>2
        <5>2. s = [i \in 1 .. n |-> s[i]] /\ \A i \in 1 .. n : s[i] \in Nat
          BY <5>1
        <5> HIDE DEF s
        <5> QED BY <4>2, <5>2, RunIsSeq
      <4>7. \A i \in 1 .. n : s[i] = (ofs + i) - 1
        OBVIOUS
      <4>8. ASSUME NEW i \in 1 .. n PROVE (ofs + i) - 1 = Phys((l + i) - 1)
        <5> DEFINE a == (ofs + i) - 1
                   o == (l + i) - 1
        <5>1. a \in Nat /\ o \in Nat /\ a < e /\ BlockStart(ofs) <= a /\ a < Size
              /\ a - ofs = o - l /\ o < l + need
          BY <3>0, <4>2, <4>3, <4>4, Sizes
        <5>2. o < LogSize
          <6> HIDE DEF l, o
          <6> QED BY <2>1, <3>0, <5>1 DEF Asked, l
        <5> HIDE DEF a, o
        <5>3. a \in Addr /\ BlockOf(a) = BlockOf(ofs)
          <6>1. BlockOf(a) = BlockOf(ofs)
            <7>1. Col(BlockStart(ofs)) = 0
              <8>1. BlockOf(ofs) * EraseSize + 0 = BlockStart(ofs) /\ 0 < EraseSize
                BY <4>4, Sizes
              <8> QED BY <4>4, <8>1, InBlock
            <7>2. BlockOf(a) = BlockOf(BlockStart(ofs))
              BY <4>4, <5>1, <7>1, SameBlock DEF e
            <7>3. BlockOf(ofs) = BlockOf(BlockStart(ofs))
              <8>1. ofs < BlockStart(ofs) + EraseSize
                BY BlockFacts
              <8> QED BY <4>4, <7>1, <8>1, SameBlock
            <7> QED BY <7>2, <7>3
          <6> QED BY <5>1, <6>1, BlockInside
        <5>4. LogIn(bad, a) = o
          <6>1. LogIn(bad, a) + ofs = l + a
            BY <5>1, <5>3, LogOrder
          <6>2. LogIn(bad, a) \in Nat
            BY <5>1, LogFacts
          <6> HIDE DEF l
          <6> QED BY <3>0, <5>1, <6>1, <6>2
        <5> QED BY <3>3, <5>1, <5>2, <5>3, <5>4, PhysFacts DEF a, o
      <4>9. need - n > 0 => LogIn(bad, ofs + n) = l + n
        <5>1. CASE ofs + n < e
          <6>1. BlockOf(ofs + n) = BlockOf(ofs)
            <7>1. Col(BlockStart(ofs)) = 0
              <8>1. BlockOf(ofs) * EraseSize + 0 = BlockStart(ofs) /\ 0 < EraseSize
                BY <4>4, Sizes
              <8> QED BY <4>4, <8>1, InBlock
            <7>2. ofs + n \in Nat /\ BlockStart(ofs) <= ofs + n
                  /\ ofs < BlockStart(ofs) + EraseSize
              BY <4>2, <4>4, BlockFacts
            <7>3. BlockOf(ofs + n) = BlockOf(BlockStart(ofs))
              BY <4>4, <5>1, <7>1, <7>2, SameBlock DEF e
            <7>4. BlockOf(ofs) = BlockOf(BlockStart(ofs))
              BY <4>4, <7>1, <7>2, SameBlock
            <7> QED BY <7>3, <7>4
          <6>2. ofs + n \in Nat
            BY <4>2
          <6>3. LogIn(bad, ofs + n) + ofs = l + (ofs + n)
            BY <6>1, <6>2, LogOrder
          <6>4. LogIn(bad, ofs + n) \in Nat
            BY <6>2, LogFacts
          <6> HIDE DEF l
          <6> QED BY <3>0, <4>2, <6>3, <6>4
        <5>2. CASE ~(ofs + n < e)
          <6>1. ofs + n = BlockStart(ofs) + EraseSize
            BY <4>2, <4>3, <4>4, <5>2 DEF e
          <6> DEFINE b == BlockStart(ofs)
          <6>2. b \in Nat /\ b < Size /\ BlockOf(b) = BlockOf(ofs)
            <7>1. b < Size
              BY <4>1, BlockInside
            <7>2. BlockOf(ofs) * EraseSize + 0 = b /\ 0 < EraseSize
              BY <4>4, Sizes
            <7>3. BlockOf(b) = BlockOf(ofs)
              BY <4>4, <7>2, InBlock
            <7> QED BY <4>4, <7>1, <7>3
          <6> HIDE DEF b
          <6>3. LogIn(bad, b + EraseSize) = LogIn(bad, b) + EraseSize
            BY <3>3, <6>2, LogAfter
          <6>4. LogIn(bad, b) + ofs = l + b /\ LogIn(bad, b) \in Nat
            <7>1. LogIn(bad, b) + ofs = l + b
              BY <6>2, LogOrder
            <7> QED BY <6>2, <7>1, LogFacts
          <6>5. LogIn(bad, ofs + n) = LogIn(bad, b) + EraseSize /\ ofs + n = b + EraseSize
            BY <6>1, <6>3 DEF b
          <6> HIDE DEF l
          <6> QED BY <3>0, <4>2, <6>2, <6>4, <6>5, Sizes
        <5> QED BY <5>1, <5>2
      <4>10. Follows(l + n, need - n, t)
        <5>1. CASE need - n = 0
          <6>1. t = <<>>
            <7>1. t = Path[<<ofs + n, 0>>] /\ ofs + n \in Nat
              BY <4>2, <5>1
            <7> QED BY <7>1, PathUnfold
          <6>2. \A i \in 1 .. 0 : t[i] = Phys(((l + n) + i) - 1)
            OBVIOUS
          <6> HIDE DEF t, l
          <6> QED BY <5>1, <6>1, <6>2 DEF Follows
        <5>2. CASE need - n # 0
          <6>1. need - n > 0 /\ LogIn(bad, ofs + n) = l + n /\ PgCol(ofs + n) = 0
            BY <4>3, <4>9, <5>2
          <6>2. ofs + n \in Nat /\ need - n \in Nat /\ (ofs + n) + (k - 1) >= Size
            BY <2>0, <2>1, <4>2, <4>3, Sizes
          <6>3. Asked(ofs + n, need - n)
            <7>1. (l + n) + (need - n) <= LogSize
              <8> HIDE DEF l
              <8> QED BY <2>1, <3>0, <4>2 DEF Asked, l
            <7>2. need - n >= WriteSize \/ 0 + (need - n) <= WriteSize
              BY <6>2, Sizes
            <7> QED BY <6>1, <7>1, <7>2 DEF Asked
          <6> QED BY <2>0, <6>1, <6>2, <6>3
        <5> QED BY <5>1, <5>2
      <4> HIDE DEF s, t, l
      <4>11. /\ s \o t \in Seq(Nat) /\ Len(s \o t) = n + (need - n)
             /\ \A i \in 1 .. n : (s \o t)[i] = s[i]
             /\ \A i \in n + 1 .. n + (need - n) : (s \o t)[i] = t[i - n]
        <5> DEFINE u == s \o t
        <5>1. t \in Seq(Nat) /\ Len(t) = need - n
          BY <4>10 DEF Follows
        <5>u. u = s \o t
          OBVIOUS
        <5> HIDE DEF u
        <5>2. /\ u \in Seq(Nat) /\ Len(u) = Len(s) + Len(t)
              /\ \A i \in 1 .. Len(s) : u[i] = s[i]
              /\ \A i \in Len(s) + 1 .. Len(s) + Len(t) : u[i] = t[i - Len(s)]
          <6>1. Joins(u, s, t)
            BY <4>6, <5>1, <5>u, Joined
          <6> QED BY <6>1 DEF Joins
        <5>3. /\ u \in Seq(Nat) /\ Len(u) = n + (need - n)
              /\ \A i \in 1 .. n : u[i] = s[i]
              /\ \A i \in n + 1 .. n + (need - n) : u[i] = t[i - n]
          BY <4>6, <5>1, <5>2
        <5> QED BY <5>3 DEF u
      <4>12. n + (need - n) = need
        BY <4>2
      <4>13. ASSUME NEW i \in 1 .. need PROVE (s \o t)[i] = Phys((l + i) - 1)
        <5>1. CASE i <= n
          <6>1. i \in 1 .. n
            BY <4>2, <5>1
          <6> QED BY <4>7, <4>8, <4>11, <6>1
        <5>2. CASE ~(i <= n)
          <6>1. i \in n + 1 .. n + (need - n) /\ i - n \in 1 .. need - n
                /\ ((l + n) + (i - n)) - 1 = (l + i) - 1
            BY <3>0, <4>2, <5>2
          <6>2. t[i - n] = Phys(((l + n) + (i - n)) - 1)
            BY <4>10, <6>1 DEF Follows
          <6> QED BY <4>11, <6>1, <6>2
        <5> QED BY <5>1, <5>2
      <4> QED BY <4>5, <4>11, <4>12, <4>13 DEF Follows, l
    <3> QED BY <3>1, <3>2, <3>3
  <2> QED BY <2>0, <2>1
<1>4. Size \in S
  <2> HIDE DEF S
  <2>1. Size \in Nat /\ Size \in 0 .. Size
    BY Sizes
  <2>2. \A i \in 0 .. Size : i \in S
    BY <1>2, <1>3, <2>1, UpTo
  <2> QED BY <2>1, <2>2
<1>5. start + Size >= Size
  BY Sizes
<1> QED BY <1>4, <1>5

\* A read of whole pages, or within one, returns the bytes of its range.
LEMMA ReadsRun ==
  ASSUME NEW off \in Nat, NEW len \in Nat, len > 0, off + len <= LogSize,
         len >= WriteSize \/ PgCol(off) + len <= WriteSize
  PROVE  Follows(off, len, ReadPath(off, len))
<1> DEFINE s == SkipBad(off)
           n == Cardinality(Blocks \ bad)
<1>1. LogSize = n * EraseSize /\ n \in Nat /\ LogSize \in Nat
  BY RankFinite, Sizes, Products DEF LogSize, Good
<1>2. LogSize <= Size
  <2>1. n <= NumBlocks
    <3>1. IsFiniteSet(Blocks) /\ Cardinality(Blocks) = NumBlocks
      <4>1. 0 \in Int /\ NumBlocks - 1 \in Int /\ (0 > NumBlocks - 1 => FALSE)
            /\ (NumBlocks - 1) - 0 + 1 = NumBlocks
        BY Sizes
      <4> QED BY <4>1, FS_Interval DEF Blocks
    <3>2. Blocks \ bad \subseteq Blocks
      OBVIOUS
    <3> QED BY <3>1, <3>2, FS_Subset
  <2> HIDE DEF n
  <2>2. n * EraseSize <= NumBlocks * EraseSize
    BY <1>1, <2>1, Sizes, Products
  <2> QED BY <1>1, <2>2, Sizes
<1>3. Fits(off, len)
  <2> DEFINE m == len \div WriteSize
  <2>1. len % WriteSize = len - WriteSize * m /\ len % WriteSize \in 0 .. WriteSize - 1 /\ m \in Nat
    <3>1. WriteSize \in Nat \ {0}
      BY Sizes
    <3> QED BY <3>1, DivMod, ModRange, DivNat
  <2>2. m * WriteSize = WriteSize * m /\ WriteSize * m \in Nat
    BY <2>1, Sizes
  <2>3. m * WriteSize <= len
    <3> HIDE DEF m
    <3> QED BY <2>1, <2>2, Sizes
  <2> HIDE DEF m
  <2>4. m * WriteSize <= Size - off
    BY <1>1, <1>2, <2>2, <2>3, Sizes
  <2> QED BY <2>4 DEF Fits, m
<1>4. ReadPath(off, len) = Path[<<s, len>>]
  BY <1>3 DEF ReadPath
<1>5. /\ s \in Nat /\ Col(s) = Col(off)
      /\ s < Size => LogIn(bad, s) = off
      /\ s >= Size => off >= Cardinality(Blocks \ bad) * EraseSize
  BY SkipFacts
<1>6. LogIn(bad, s) = off
  <2>1. ~(off >= n * EraseSize)
    BY <1>1
  <2>2. ~(s >= Size)
    BY <1>5, <2>1
  <2> HIDE DEF s
  <2> QED BY <1>5, <2>2, Sizes
<1>7. PgCol(s) = PgCol(off)
  <2> HIDE DEF s
  <2> QED BY <1>5, PgColOfCol
<1>8. Asked(s, len)
  BY <1>6, <1>7 DEF Asked
<1>9. Follows(LogIn(bad, s), len, Path[<<s, len>>])
  <2> HIDE DEF s
  <2> QED BY <1>5, <1>8, PathFollows
<1> QED BY <1>4, <1>6, <1>9

\* i4NFBPartitionRead returns the bytes of the range it is asked for, when it
\* starts on a page or stays within one.
THEOREM ReadsMatch == USpec => []ReadMatches
<1>1. ReadMatches
  <2> SUFFICES ASSUME NEW off \in Offsets, NEW len \in Lengths, off + len <= LogSize,
                      len >= WriteSize \/ (off % WriteSize) + len <= WriteSize
               PROVE  ReadPath(off, len) = [i \in 1 .. len |-> Phys(off + i - 1)]
    BY DEF ReadMatches
  <2> DEFINE p == ReadPath(off, len)
  <2>1. off \in Nat /\ len \in Nat /\ len > 0
    BY RequestAssumption DEF Addr
  <2>2. Follows(off, len, p)
    BY <2>1, ReadsRun DEF PgCol
  <2> HIDE DEF p
  <2>3. p \in [1 .. len -> Nat]
    <3>1. p \in Seq(Nat) /\ Len(p) = len
      BY <2>2 DEF Follows
    <3>2. p \in [1 .. Len(p) -> Nat]
      BY <3>1, LenProperties
    <3> QED BY <3>1, <3>2
  <2>4. ASSUME NEW i \in 1 .. len PROVE p[i] = Phys(off + i - 1)
    <3>1. off + i - 1 = (off + i) - 1
      BY <2>1
    <3> QED BY <2>2, <3>1 DEF Follows
  <2>5. p = [i \in 1 .. len |-> p[i]]
    BY <2>3
  <2>6. [i \in 1 .. len |-> p[i]] = [i \in 1 .. len |-> Phys(off + i - 1)]
    <3> DEFINE q(i) == Phys(off + i - 1)
    <3>1. \A i \in 1 .. len : p[i] = q(i)
      BY <2>4
    <3> HIDE DEF q
    <3>2. [i \in 1 .. len |-> p[i]] = [i \in 1 .. len |-> q(i)]
      BY <3>1
    <3> QED BY <3>2 DEF q
  <2> QED BY <2>5, <2>6 DEF p
<1> QED BY <1>1, PTL

(***************************************************************************)
(* The check of the upgrade.                                               *)
(***************************************************************************)
LEMMA ReadFacts ==
  ASSUME NEW off, NEW n \in Nat, NEW f, PartRead(off, n) = [i \in 1 .. n |-> f[i]],
         NEW p, p = ReadPath(off, n), p \in Seq(Nat)
  PROVE  Len(p) = n /\ \A i \in 1 .. n : flash[p[i]] = f[i]
<1>1. PartRead(off, n) = [i \in 1 .. Len(p) |-> flash[p[i]]]
  BY DEF PartRead
<1>2. Len(p) \in Nat
  OBVIOUS
<1>3. 1 .. Len(p) = 1 .. n
  <2>1. DOMAIN [i \in 1 .. Len(p) |-> flash[p[i]]] = 1 .. Len(p)
    OBVIOUS
  <2>2. DOMAIN [i \in 1 .. n |-> f[i]] = 1 .. n
    OBVIOUS
  <2> QED BY <1>1, <2>1, <2>2
<1>4. Len(p) = n
  <2> DEFINE l == Len(p)
  <2>1. l \in Nat /\ 1 .. l = 1 .. n
    BY <1>2, <1>3
  <2> HIDE DEF l
  <2>2. l > 0 => l \in 1 .. n
    <3>1. l > 0 => l \in 1 .. l
      BY <2>1
    <3> QED BY <2>1, <3>1
  <2>3. n > 0 => n \in 1 .. l
    <3>1. n > 0 => n \in 1 .. n
      OBVIOUS
    <3> QED BY <2>1, <3>1
  <2> QED BY <2>1, <2>2, <2>3 DEF l
<1> QED BY <1>1, <1>4

\* A whole first slice of image bytes is not where a lost head leaves them.
LEMMA HeadIsFound ==
  ASSUME Local, Shifted, Outside, NEW n \in Nat, n > 0, PartRead(w.off, n) = Image(0, n)
  PROVE  hist.n.head = 0
<1> DEFINE p == ReadPath(w.off, n)
           s == SkipBad(w.off)
<1>1. w.off \in Nat /\ hist.n.head \in Nat
  BY CallFacts
<1>2. s \in Nat /\ Col(s) = Col(w.off)
  BY <1>1, SkipFacts
<1>3. p \in Seq(Nat) /\ (Len(p) > 0 => p[1] \in Addr /\ BlockOf(p[1]) \notin bad /\ Col(p[1]) = Col(w.off))
  <2>1. CASE Fits(w.off, n)
    <3>1. p = Path[<<s, n>>]
      BY <2>1 DEF ReadPath
    <3> HIDE DEF s, p
    <3>2. StartsWell(s, p)
      BY <1>2, <3>1, PathStarts
    <3> QED BY <1>2, <3>2 DEF StartsWell
  <2>2. CASE ~Fits(w.off, n)
    BY <2>2 DEF ReadPath
  <2> QED BY <2>1, <2>2
<1>4. Len(p) = n /\ \A i \in 1 .. n : flash[p[i]] = Img(0 + i - 1)
  <2> DEFINE f == [i \in 1 .. n |-> Img(0 + i - 1)]
  <2>1. PartRead(w.off, n) = [i \in 1 .. n |-> f[i]]
    BY DEF Image
  <2>2. \A i \in 1 .. n : f[i] = Img(0 + i - 1)
    OBVIOUS
  <2> HIDE DEF f, p
  <2>3. Len(p) = n /\ \A i \in 1 .. n : flash[p[i]] = f[i]
    BY <1>3, <2>1, ReadFacts DEF p
  <2> QED BY <2>2, <2>3
<1>5. flash[p[1]] = Img(0)
  <2>1. 1 \in 1 .. n /\ 0 + 1 - 1 = 0
    OBVIOUS
  <2> QED BY <1>4, <2>1
<1>6. p[1] \in Addr /\ BlockOf(p[1]) \notin bad /\ Col(p[1]) = Col(w.off)
  BY <1>3, <1>4
<1>7. Sparse(flash, bad, {}, w.wcnt, hist.n.head)
  BY DEF Shifted
<1>8. hist.n.head > 0 => Col(p[1]) = Col(0)
  BY <1>5, <1>6, <1>7 DEF Sparse
<1>9. Col(0) = 0
  <2>1. Col(0) \in Nat /\ BlockStart(0) \in Nat /\ Col(0) = 0 - BlockStart(0)
    BY BlockFacts
  <2> QED BY <2>1
<1>10. hist.n.head > 0 => Col(w.off) # 0
  BY DEF Shifted
<1> QED BY <1>1, <1>6, <1>8, <1>9, <1>10

\* A range of the image that is read back is the image's.
LEMMA ImageIsRead ==
  ASSUME Local, ImageInv, pc = "done", ret # -1, hist.n.head = 0,
         NEW from \in Nat, NEW n \in Nat, n > 0, from + n <= w.len,
         n >= WriteSize \/ PgCol(w.off + from) + n <= WriteSize
  PROVE  PartRead(w.off + from, n) = Image(from, n)
<1> DEFINE p == ReadPath(w.off + from, n)
<1>1. w.off \in Nat /\ w.len \in Nat
  BY CallFacts
<1>2. ASSUME NEW i \in 1 .. n
      PROVE  ((w.off + from) + i) - 1 < LogSize /\ flash[Phys(((w.off + from) + i) - 1)] = Img(from + i - 1)
  <2> DEFINE o == ((w.off + from) + i) - 1
  <2>1. o \in Request /\ o - w.off = from + i - 1
    BY <1>1 DEF Request
  <2> HIDE DEF o
  <2>2. o < LogSize /\ flash[Phys(o)] = Img(o - w.off)
    BY <2>1, ImageIsThere
  <2> QED BY <2>1, <2>2 DEF o
<1>3. (w.off + from) + n <= LogSize
  <2>1. n \in 1 .. n /\ LogSize \in Nat
    <3>1. LogSize \in Nat
      BY RankFinite, Sizes, Products DEF LogSize, Good
    <3> QED BY <3>1
  <2>2. ((w.off + from) + n) - 1 < LogSize
    BY <1>2, <2>1
  <2> QED BY <1>1, <2>1, <2>2
<1>4. Follows(w.off + from, n, p)
  <2> DEFINE a == w.off + from
  <2>1. a \in Nat /\ a + n <= LogSize /\ (n >= WriteSize \/ PgCol(a) + n <= WriteSize)
    BY <1>1, <1>3
  <2> HIDE DEF a
  <2>2. Follows(a, n, ReadPath(a, n))
    BY <2>1, ReadsRun
  <2> QED BY <2>2 DEF a
<1>5. PartRead(w.off + from, n) = [i \in 1 .. n |-> flash[p[i]]]
  BY <1>4 DEF PartRead, Follows
<1>6. \A i \in 1 .. n : flash[p[i]] = Img(from + i - 1)
  BY <1>2, <1>4 DEF Follows
<1> HIDE DEF p
<1>7. [i \in 1 .. n |-> flash[p[i]]] = [i \in 1 .. n |-> Img(from + i - 1)]
  <2> DEFINE q(i) == Img(from + i - 1)
  <2>1. \A i \in 1 .. n : flash[p[i]] = q(i)
    BY <1>6
  <2> HIDE DEF q
  <2>2. [i \in 1 .. n |-> flash[p[i]]] = [i \in 1 .. n |-> q(i)]
    BY <2>1
  <2> QED BY <2>2 DEF q
<1> QED BY <1>5, <1>7 DEF Image

\* Slices are whole pages.
LEMMA Slices ==
  ASSUME NEW len \in Nat, NEW k \in Nat, k <= len \div SliceSize
  PROVE  /\ SliceSize \in Nat /\ SliceSize > 0 /\ len \div SliceSize \in Nat /\ SliceSize * k \in Nat
         /\ k < len \div SliceSize => SliceSize * k + SliceSize <= len
         /\ k = len \div SliceSize => len = SliceSize * k + (len % SliceSize)
         /\ len % SliceSize \in Nat
         /\ \A a \in Nat : PgCol(a) = 0 => PgCol(a + SliceSize * k) = 0
<1> DEFINE m == len \div SliceSize
           r == len % SliceSize
<1>1. SliceSize \in Nat \ {0} /\ SliceSize % WriteSize = 0
  BY SliceAssumption
<1>2. m \in Nat /\ r \in 0 .. SliceSize - 1 /\ r = len - SliceSize * m
  BY <1>1, DivNat, ModRange, DivMod
<1>3. SliceSize * k \in Nat /\ SliceSize * m \in Nat
  <2> HIDE DEF m
  <2> QED BY <1>1, <1>2
<1>4. k < m => SliceSize * k + SliceSize <= SliceSize * m
  <2> HIDE DEF m
  <2>1. k < m => k * SliceSize + SliceSize <= m * SliceSize
    BY <1>1, <1>2, Products
  <2>2. k * SliceSize = SliceSize * k /\ m * SliceSize = SliceSize * m
    BY <1>1, <1>2
  <2> QED BY <2>1, <2>2
<1>5. k < m => SliceSize * k + SliceSize <= len
  <2> HIDE DEF m, r
  <2> QED BY <1>1, <1>2, <1>3, <1>4
<1>6. k = m => len = SliceSize * k + r
  <2> HIDE DEF m, r
  <2> QED BY <1>1, <1>2, <1>3
<1>7. ASSUME NEW a \in Nat, PgCol(a) = 0 PROVE PgCol(a + SliceSize * k) = 0
  <2> DEFINE x == a \div WriteSize
             y == SliceSize \div WriteSize
             z == y * k
  <2>1. WriteSize \in Nat \ {0} /\ x \in Nat /\ y \in Nat
    <3>1. WriteSize \in Nat \ {0}
      BY Sizes
    <3> QED BY <1>1, <3>1, DivNat
  <2>2. a = WriteSize * x
    <3>1. a % WriteSize = a - WriteSize * x
      BY <2>1, DivMod
    <3>2. WriteSize * x \in Nat /\ a % WriteSize = 0
      BY <1>7, <2>1 DEF PgCol
    <3> HIDE DEF x
    <3> QED BY <3>1, <3>2
  <2>3. SliceSize = WriteSize * y
    <3>1. SliceSize % WriteSize = SliceSize - WriteSize * y
      BY <1>1, <2>1, DivMod
    <3>2. WriteSize * y \in Nat
      BY <2>1
    <3> HIDE DEF y
    <3> QED BY <1>1, <3>1, <3>2
  <2> HIDE DEF x, y
  <2>4. SliceSize * k = WriteSize * z /\ z \in Nat
    BY <2>1, <2>3
  <2> HIDE DEF z
  <2>5. a + SliceSize * k = WriteSize * (x + z) + 0 /\ x + z \in Nat
    <3>1. WriteSize * (x + z) = WriteSize * x + WriteSize * z
      BY <2>1, <2>4
    <3>2. WriteSize * x \in Nat /\ WriteSize * z \in Nat
      BY <2>1, <2>4
    <3> QED BY <2>1, <2>2, <2>4, <3>1, <3>2
  <2> DEFINE c == a + SliceSize * k
  <2>6. c \in Nat /\ c = WriteSize * (x + z) + 0
    BY <1>3, <2>5
  <2> HIDE DEF c
  <2>7. c \div WriteSize = x + z
    <3>1. 0 \in 0 .. WriteSize - 1
      BY <2>1
    <3>2. (WriteSize * (x + z) + 0) \div WriteSize = x + z
      BY <2>1, <2>5, <3>1, DivUnique
    <3> QED BY <2>6, <3>2
  <2>8. c % WriteSize = c - WriteSize * (x + z)
    BY <2>1, <2>6, <2>7, DivMod
  <2>9. c % WriteSize = 0
    <3>1. WriteSize * (x + z) \in Nat
      BY <2>1, <2>5
    <3> QED BY <2>6, <2>8, <3>1
  <2> QED BY <2>9 DEF PgCol, c
<1> QED BY <1>1, <1>2, <1>3, <1>5, <1>6, <1>7

\* What the check has seen so far, and that it raises no false alarm.
NoFalseAlarm ==
  upg = "UPGR_FAIL" /\ pc = "done" /\ ret = 0 /\ NoFailures /\ w.off % WriteSize = 0
    => w.len % SliceSize = 0 /\ w.off + w.len = LogSize /\ NumBlocks - 1 \in bad

UpgInv ==
  /\ upg \in {"write", "check", "UPGR_OK", "UPGR_FAIL"}
  /\ slice \in Nat /\ slice <= w.len \div SliceSize
  /\ upg = "write" => slice = 0
  /\ upg # "write" => pc = "done"
  /\ upg \in {"check", "UPGR_OK"} => ret # -1
  /\ upg = "check" => ~fast
  /\ (upg = "check" /\ slice > 0) \/ (upg = "UPGR_OK" /\ ~fast) => hist.n.head = 0
  /\ NoFalseAlarm

LEMMA CallIsOver ==
  ASSUME Local, pc = "done", ret # -1
  PROVE  Outside /\ w.imglen = 0 /\ w.len > 0
<1>1. w.imglen \in Nat
  BY CallFacts
<1>2. ~(w.imglen > 0) /\ w.len > 0
  BY DEF Local, Typed
<1>3. w.imglen = 0
  BY <1>1, <1>2
<1> QED BY <1>2, <1>3 DEF Outside

LEMMA UpgWriting == ASSUME UpgInv, Local', Writing PROVE UpgInv'
<1>1. upg = "write" /\ upg' = upg /\ slice' = slice /\ slice = 0
  BY DEF Writing, upgVars, UpgInv
<1>2. w'.len \in Nat
  BY DEF Local, Typed, Locals
<1>3. 0 <= w'.len \div SliceSize /\ 0 \in Nat
  <2>1. SliceSize \in Nat \ {0}
    BY SliceAssumption
  <2>2. w'.len \div SliceSize \in Nat
    BY <1>2, <2>1, DivNat
  <2> QED BY <2>2
<1> QED BY <1>1, <1>3 DEF UpgInv, NoFalseAlarm

LEMMA UpgStutter == ASSUME UpgInv, UNCHANGED allVars PROVE UpgInv'
BY SameSide DEF UpgInv, NoFalseAlarm, NoFailures, LogSize, Good, allVars, upgVars

LEMMA UpgWriteDone == ASSUME UpgInv, Local, WriteDone PROVE UpgInv'
<1>1. /\ upg = "write" /\ pc = "done" /\ fast' = fast /\ slice' = slice /\ UNCHANGED vars
      /\ upg' = IF ret = -1 \/ (fast /\ ret # 0) THEN "UPGR_FAIL"
                ELSE IF fast THEN "UPGR_OK" ELSE "check"
  BY DEF WriteDone
<1>2. UNCHANGED <<flash, bad, pc, w, buf, ret, hist>>
  BY <1>1, SameSide
<1>3. slice = 0 /\ ~(0 > 0)
  BY <1>1 DEF UpgInv
<1>4. ret # -1 \/ ret # 0
  OBVIOUS
<1>5. CASE ret = -1 \/ (fast /\ ret # 0)
  <2>1. upg' = "UPGR_FAIL" /\ ret' # 0
    BY <1>1, <1>2, <1>5
  <2> QED BY <1>1, <1>2, <2>1 DEF UpgInv, NoFalseAlarm
<1>6. CASE ~(ret = -1 \/ (fast /\ ret # 0))
  <2>1. ret' # -1 /\ upg' = IF fast THEN "UPGR_OK" ELSE "check"
    BY <1>1, <1>2, <1>6
  <2>2. CASE fast
    BY <1>1, <1>2, <1>3, <2>1, <2>2 DEF UpgInv, NoFalseAlarm
  <2>3. CASE ~fast
    BY <1>1, <1>2, <1>3, <2>1, <2>3 DEF UpgInv, NoFalseAlarm
  <2> QED BY <2>2, <2>3
<1> QED BY <1>5, <1>6

\* The state of the check: what is read in it, and what a range of pages yields.
LEMMA Checking ==
  ASSUME UpgInv, Local, ImageInv, Shifted, upg = "check"
  PROVE  /\ pc = "done" /\ ret # -1 /\ ~fast /\ w.len \in Nat /\ w.len > 0 /\ w.off \in Nat
         /\ slice \in Nat /\ slice <= w.len \div SliceSize
         /\ slice > 0 => hist.n.head = 0
         /\ \A n \in Nat : n > 0 /\ PartRead(w.off + SliceSize * slice, n) = Image(SliceSize * slice, n)
              => hist.n.head = 0
         /\ \A n \in Nat : /\ NoFailures /\ w.off % WriteSize = 0
                           /\ n > 0 /\ SliceSize * slice + n <= w.len
              => PartRead(w.off + SliceSize * slice, n) = Image(SliceSize * slice, n)
         /\ NoFailures => \A o \in Request : o < LogSize
<1> DEFINE from == SliceSize * slice
<1>1. /\ pc = "done" /\ ret # -1 /\ ~fast /\ slice \in Nat /\ slice <= w.len \div SliceSize
      /\ (slice > 0 => hist.n.head = 0)
  BY DEF UpgInv
<1>2. Outside /\ w.imglen = 0 /\ w.len > 0
  BY <1>1, CallIsOver
<1>3. w.len \in Nat /\ w.off \in Nat
  BY CallFacts
<1>4. /\ SliceSize \in Nat /\ from \in Nat
      /\ \A a \in Nat : PgCol(a) = 0 => PgCol(a + from) = 0
  BY <1>1, <1>3, Slices
<1>5. ASSUME NEW n \in Nat, n > 0, PartRead(w.off + from, n) = Image(from, n)
      PROVE  hist.n.head = 0
  <2>1. CASE slice > 0
    BY <1>1, <2>1
  <2>2. CASE ~(slice > 0)
    <3>1. slice = 0
      BY <1>1, <2>2
    <3>2. from = 0 /\ w.off + from = w.off
      BY <1>3, <1>4, <3>1
    <3> HIDE DEF from
    <3>3. PartRead(w.off, n) = Image(0, n)
      BY <1>5, <3>2
    <3> QED BY <1>2, <1>5, <3>3, HeadIsFound
  <2> QED BY <2>1, <2>2
<1>6. ASSUME NEW n \in Nat, NoFailures, w.off % WriteSize = 0, n > 0, from + n <= w.len
      PROVE  PartRead(w.off + from, n) = Image(from, n)
  <2>1. hist.n.head = 0
    BY <1>6 DEF NoFailures, NoFails
  <2>2. PgCol(w.off + from) = 0
    BY <1>3, <1>4, <1>6 DEF PgCol
  <2>3. n >= WriteSize \/ PgCol(w.off + from) + n <= WriteSize
    <3>1. n >= WriteSize \/ 0 + n <= WriteSize
      BY Sizes
    <3> QED BY <2>2, <3>1
  <2> HIDE DEF from
  <2> QED BY <1>1, <1>4, <1>6, <2>1, <2>3, ImageIsRead
<1>7. ASSUME NoFailures PROVE \A o \in Request : o < LogSize
  <2>1. hist.n.head = 0
    BY <1>7 DEF NoFailures, NoFails
  <2> QED BY <1>1, <2>1, ImageIsThere
<1> QED BY <1>1, <1>2, <1>3, <1>5, <1>6, <1>7

LEMMA UpgCheckSlice == ASSUME UpgInv, Local, ImageInv, Shifted, CheckSlice PROVE UpgInv'
<1> DEFINE Same == PartRead(w.off + SliceSize * slice, SliceSize)
                     = Image(SliceSize * slice, SliceSize)
<1>1. /\ upg = "check" /\ slice < w.len \div SliceSize /\ UNCHANGED vars /\ fast' = fast
      /\ upg' = (IF Same THEN "check" ELSE "UPGR_FAIL") /\ slice' = slice + 1
  BY DEF CheckSlice
<1>2. UNCHANGED <<flash, bad, pc, w, buf, ret, hist>>
  BY <1>1, SameSide
<1>3. /\ pc = "done" /\ ret # -1 /\ ~fast /\ w.len \in Nat /\ slice \in Nat
      /\ slice <= w.len \div SliceSize
      /\ \A n \in Nat : n > 0 /\ PartRead(w.off + SliceSize * slice, n) = Image(SliceSize * slice, n)
           => hist.n.head = 0
      /\ \A n \in Nat : NoFailures /\ w.off % WriteSize = 0
                        /\ n > 0 /\ SliceSize * slice + n <= w.len
           => PartRead(w.off + SliceSize * slice, n) = Image(SliceSize * slice, n)
  BY <1>1, Checking
<1>4. SliceSize \in Nat /\ SliceSize > 0 /\ SliceSize * slice + SliceSize <= w.len
      /\ w.len \div SliceSize \in Nat
  BY <1>1, <1>3, Slices
<1>5. slice' \in Nat /\ slice' <= w'.len \div SliceSize
  <2> DEFINE m == w.len \div SliceSize
  <2>1. m \in Nat /\ slice < m
    BY <1>1, <1>4
  <2> HIDE DEF m
  <2>2. slice + 1 \in Nat /\ slice + 1 <= m
    BY <1>3, <2>1
  <2> QED BY <1>1, <1>2, <2>2 DEF m
<1>6. CASE Same
  <2>1. hist.n.head = 0
    BY <1>3, <1>4, <1>6
  <2> HIDE DEF Same
  <2>2. upg' = "check"
    BY <1>1, <1>6
  <2> QED BY <1>1, <1>2, <1>3, <1>5, <2>1, <2>2 DEF UpgInv, NoFalseAlarm
<1>7. CASE ~Same
  <2>1. ~(NoFailures /\ w.off % WriteSize = 0)
    BY <1>3, <1>4, <1>7
  <2> HIDE DEF Same
  <2>2. upg' = "UPGR_FAIL"
    BY <1>1, <1>7
  <2>3. ~(NoFailures' /\ w'.off % WriteSize = 0)
    BY <1>2, <2>1 DEF NoFailures
  <2> QED BY <1>1, <1>2, <1>3, <1>5, <2>2, <2>3 DEF UpgInv, NoFalseAlarm
<1> QED BY <1>6, <1>7

LEMMA UpgCheckRest == ASSUME UpgInv, Local, ImageInv, Shifted, CheckRest PROVE UpgInv'
<1> DEFINE from == SliceSize * slice
           n    == w.len % SliceSize
           Same == PartRead(w.off + from, n) = Image(from, n)
           Nil  == n = 0 => ReadNothing(w.off + from) = 0
<1>1. /\ upg = "check" /\ slice = w.len \div SliceSize /\ UNCHANGED vars /\ fast' = fast
      /\ upg' = (IF Same /\ Nil THEN "UPGR_OK" ELSE "UPGR_FAIL") /\ slice' = slice
  BY DEF CheckRest
<1>2. UNCHANGED <<flash, bad, pc, w, buf, ret, hist>>
  BY <1>1, SameSide
<1>3. /\ pc = "done" /\ ret # -1 /\ ~fast /\ w.len \in Nat /\ w.len > 0 /\ w.off \in Nat
      /\ slice \in Nat /\ slice <= w.len \div SliceSize
      /\ slice > 0 => hist.n.head = 0
      /\ \A k \in Nat : k > 0 /\ PartRead(w.off + from, k) = Image(from, k) => hist.n.head = 0
      /\ \A k \in Nat : NoFailures /\ w.off % WriteSize = 0 /\ k > 0 /\ from + k <= w.len
           => PartRead(w.off + from, k) = Image(from, k)
      /\ NoFailures => \A o \in Request : o < LogSize
  BY <1>1, Checking
<1>4. SliceSize \in Nat /\ SliceSize > 0 /\ from \in Nat /\ n \in Nat /\ w.len = from + n
  BY <1>1, <1>3, Slices
<1>5. slice' \in Nat /\ slice' <= w'.len \div SliceSize
  BY <1>1, <1>2, <1>3
<1>6. CASE Same /\ Nil
  <2>1. hist.n.head = 0
    <3>1. CASE slice > 0
      BY <1>3, <3>1
    <3>2. CASE ~(slice > 0)
      <4>1. slice = 0
        BY <1>3, <3>2
      <4>2. from = 0
        BY <1>4, <4>1
      <4>3. n > 0
        <5> HIDE DEF from, n
        <5> QED BY <1>3, <1>4, <4>2
      <4> QED BY <1>3, <1>4, <1>6, <4>3
    <3> QED BY <3>1, <3>2
  <2> HIDE DEF Same, Nil
  <2>2. upg' = "UPGR_OK"
    BY <1>1, <1>6
  <2> QED BY <1>1, <1>2, <1>3, <1>5, <2>1, <2>2 DEF UpgInv, NoFalseAlarm
<1>7. CASE ~(Same /\ Nil)
  <2>1. ASSUME NoFailures, w.off % WriteSize = 0
        PROVE  w.len % SliceSize = 0 /\ w.off + w.len = LogSize /\ NumBlocks - 1 \in bad
    <3>1. Same
      <4>1. CASE n > 0
        <5>1. from + n <= w.len
          BY <1>4
        <5> QED BY <1>3, <1>4, <2>1, <4>1, <5>1
      <4>2. CASE ~(n > 0)
        <5>1. n = 0
          BY <1>4, <4>2
        <5>2. ReadPath(w.off + from, n) = <<>>
          <6>1. SkipBad(w.off + from) \in Nat
            <7>1. w.off + from \in Nat
              BY <1>3, <1>4
            <7> HIDE DEF from
            <7> QED BY <7>1, SkipFacts
          <6> HIDE DEF n, from
          <6>2. Path[<<SkipBad(w.off + from), 0>>] = <<>>
            BY <6>1, PathUnfold
          <6> QED BY <5>1, <6>2 DEF ReadPath
        <5>3. PartRead(w.off + from, n) = <<>>
          <6> HIDE DEF n, from
          <6> QED BY <5>2 DEF PartRead
        <5>4. Image(from, n) = <<>>
          <6> HIDE DEF n, from
          <6> QED BY <5>1 DEF Image
        <5> QED BY <5>3, <5>4
      <4> QED BY <4>1, <4>2
    <3>2. n = 0 /\ ReadNothing(w.off + from) # 0
      BY <1>7, <3>1
    <3>3. w.off + from = w.off + w.len
      <4> HIDE DEF n, from
      <4> QED BY <1>3, <1>4, <3>2
    <3> DEFINE l == w.off + w.len
    <3>4. BlockStart(SkipBad(l)) >= Size /\ NumBlocks - 1 \in bad
      BY <3>2, <3>3 DEF ReadNothing
    <3>5. l \in Nat /\ LogSize \in Nat
      <4>1. LogSize \in Nat
        BY RankFinite, Sizes, Products DEF LogSize, Good
      <4> QED BY <1>3, <4>1
    <3>6. l >= LogSize
      <4> DEFINE s == SkipBad(l)
      <4> HIDE DEF l
      <4>1. s \in Nat /\ (s >= Size => l >= Cardinality(Blocks \ bad) * EraseSize)
        BY <3>5, SkipFacts
      <4>2. BlockStart(s) >= Size
        BY <3>4
      <4> HIDE DEF s
      <4>3. BlockStart(s) <= s /\ BlockStart(s) \in Nat
        BY <4>1, BlockFacts
      <4>4. s >= Size
        BY <4>1, <4>2, <4>3, Sizes
      <4> QED BY <4>1, <4>4 DEF LogSize, Good
    <3>7. l <= LogSize
      <4>1. l - 1 \in Request
        BY <1>3 DEF Request
      <4>2. l - 1 < LogSize
        BY <1>3, <2>1, <4>1
      <4> HIDE DEF l
      <4> QED BY <3>5, <4>2
    <3>8. l = LogSize
      <4> HIDE DEF l
      <4> QED BY <3>5, <3>6, <3>7
    <3> QED BY <3>2, <3>4, <3>8
  <2> HIDE DEF Same, Nil, n
  <2>2. upg' = "UPGR_FAIL"
    BY <1>1, <1>7
  <2>3. NoFalseAlarm'
    <3>1. LogSize' = LogSize /\ NoFailures' = NoFailures
      BY <1>2 DEF LogSize, Good, NoFailures
    <3> QED BY <1>2, <2>1, <3>1 DEF NoFalseAlarm
  <2> QED BY <1>1, <1>2, <1>3, <1>5, <2>2, <2>3 DEF UpgInv
<1> QED BY <1>6, <1>7

LEMMA UpgStep ==
  ASSUME UpgInv, Local, Local', ImageInv, Shifted, [UNext]_allVars
  PROVE  UpgInv'
BY UpgWriting, UpgWriteDone, UpgCheckSlice, UpgCheckRest, UpgStutter DEF UNext

\* UPGR_OK from a checked write means that the whole image is in the partition,
\* even when the write lost the head of a block and misplaced the image; and the
\* check raises no false alarm.
THEOREM CheckedWriteHolds == USpec => []CheckedWrite
<1>1. UInit => Local /\ Filled /\ ImageInv /\ Shifted /\ UpgInv
  <2>1. UInit => Filled /\ ImageInv
    BY DEF UInit, Init, Filled, ImageInv, Inside, Outside, Under
  <2>2. UInit => Shifted
    <3>1. UInit => hist.n.head = 0 /\ ~Inside /\ ~Outside /\ ~(0 > 0)
      BY DEF UInit, Init, NoFails, Inside, Outside, Under
    <3> QED BY <3>1 DEF Shifted
  <2>3. UInit => UpgInv
    <3> SUFFICES ASSUME UInit PROVE UpgInv
      OBVIOUS
    <3>1. upg = "write" /\ slice = 0 /\ w.len = 0
      BY DEF UInit, Init, Idle
    <3>2. 0 <= 0 \div SliceSize /\ 0 \in Nat
      <4>1. SliceSize \in Nat \ {0} /\ 0 \in Nat
        BY SliceAssumption
      <4>2. 0 \div SliceSize \in Nat
        BY <4>1, DivNat
      <4> QED BY <4>2
    <3> QED BY <3>1, <3>2 DEF UpgInv, NoFalseAlarm
  <2> QED BY <2>1, <2>2, <2>3, LocalInit DEF UInit
<1>2. Local /\ Filled /\ ImageInv /\ Shifted /\ [UNext]_allVars
        => Local' /\ Filled' /\ ImageInv' /\ Shifted'
  BY LocalNext, LocalStutter, FilledNext, FilledStutter, ImageNext, ImageStutter, ShiftedNext,
     ShiftedStutter, WriteOrNot
<1>3. Local /\ Local' /\ ImageInv /\ Shifted /\ UpgInv /\ [UNext]_allVars => UpgInv'
  BY UpgStep
<1>4. Local /\ ImageInv /\ UpgInv => CheckedWrite
  <2> SUFFICES ASSUME Local, ImageInv, UpgInv PROVE CheckedWrite
    OBVIOUS
  <2>1. ASSUME upg = "UPGR_OK", ~fast
        PROVE  \A o \in Request : o < LogSize /\ flash[Phys(o)] = Img(o - w.off)
    <3>1. pc = "done" /\ ret # -1 /\ hist.n.head = 0
      BY <2>1 DEF UpgInv
    <3> QED BY <3>1, ImageIsThere
  <2> QED BY <2>1 DEF CheckedWrite, UpgInv, NoFalseAlarm
<1> QED BY <1>1, <1>2, <1>3, <1>4, PTL DEF USpec

=============================================================================
