-------------------------- MODULE CidrBlocksProofs --------------------------
(***************************************************************************)
(* Facts about CIDR blocks of any width: aligned blocks nest or are        *)
(* disjoint, and the widest blocks of a range cover it exactly and never   *)
(* overlap.  snx_ip4_range_to_cidrs() and the routes it leads to depend on *)
(* both.                                                                   *)
(***************************************************************************)
EXTENDS CidrBlocks, InductionLemmas

Aligned(block) == block.dest = Network(block.dest, block.prefix)

-----------------------------------------------------------------------------
(* Multiples.                                                              *)

\* Division with a remainder.
LEMMA Division ==
  ASSUME NEW x \in Int, NEW s \in Nat \ {0}
  PROVE  /\ x = s * (x \div s) + (x % s)
         /\ x \div s \in Int
         /\ x % s \in 0 .. s - 1
OBVIOUS

\* A multiple is what leaves no remainder.
LEMMA Multiple ==
  ASSUME NEW x \in Int, NEW s \in Nat \ {0}
  PROVE  x % s = 0 <=> \E q \in Int : x = q * s
<1>1. \A q \in Int : (q * s) % s = 0
  OBVIOUS
<1>2. ASSUME x % s = 0 PROVE \E q \in Int : x = q * s
  <2>1. x = (x \div s) * s /\ x \div s \in Int
    BY <1>2, Division
  <2> QED
    BY <2>1
<1> QED
  BY <1>1, <1>2

\* Taking the remainder away leaves a multiple.
LEMMA Remainder ==
  ASSUME NEW x \in Nat, NEW s \in Nat \ {0}
  PROVE  /\ x % s \in 0 .. s - 1
         /\ x % s <= x
         /\ (x - (x % s)) % s = 0
<1>1. x < s => x % s = x
  OBVIOUS
<1>2. x % s \in 0 .. s - 1
  OBVIOUS
<1>3. x - (x % s) = (x \div s) * s /\ x \div s \in Int /\ x - (x % s) \in Int
  BY Division
<1>4. (x - (x % s)) % s = 0
  BY <1>3, Multiple
<1> QED
  BY <1>1, <1>2, <1>4

\* Two multiples of a number are at least that number apart.
LEMMA MultiplesAreApart ==
  ASSUME NEW s \in Nat \ {0}, NEW x \in Int, NEW y \in Int,
         x % s = 0, y % s = 0, x < y
  PROVE  x + s <= y
<1>1. PICK q \in Int : x = q * s
  BY Multiple
<1>2. PICK r \in Int : y = r * s
  BY Multiple
<1>3. q < r
  BY <1>1, <1>2
<1>4. q * s + s <= r * s
  BY <1>3
<1> QED
  BY <1>1, <1>2, <1>4

\* Sums and differences of multiples are multiples.
LEMMA MultiplesAdd ==
  ASSUME NEW s \in Nat \ {0}, NEW x \in Int, NEW y \in Int, x % s = 0, y % s = 0
  PROVE  (x + y) % s = 0 /\ (x - y) % s = 0
<1>1. PICK q \in Int : x = q * s
  BY Multiple
<1>2. PICK r \in Int : y = r * s
  BY Multiple
<1>3. /\ x - y = (q - r) * s /\ q - r \in Int /\ x - y \in Int
      /\ x + y = (q + r) * s /\ q + r \in Int /\ x + y \in Int
  BY <1>1, <1>2
<1> QED
  BY <1>3, Multiple

\* A multiple of twice a number is one of the number.
LEMMA MultipleOfTwice ==
  ASSUME NEW s \in Nat \ {0}, NEW x \in Int, x % (2 * s) = 0
  PROVE  x % s = 0
<1>1. PICK q \in Int : x = q * (2 * s)
  BY Multiple
<1>2. x = (q * 2) * s /\ q * 2 \in Int
  BY <1>1
<1> QED
  BY <1>2, Multiple

-----------------------------------------------------------------------------
(* Sizes.                                                                  *)

\* Halved Width times, the size of the widest block is still 1.
LEMMA SizeIsPositive == \A p \in 0 .. Width : Size[p] \in Nat \ {0}
<1> DEFINE T == {n \in 0 .. Width : Size[Width - n] > 0}
<1>1. 0 \in T
  BY RangeConstants
<1>2. ASSUME NEW n \in 0 .. Width - 1, n \in T PROVE n + 1 \in T
  <2>1. Width - n \in 1 .. Width /\ (Width - n) - 1 = Width - (n + 1)
    BY RangeConstants
  <2>2. Size[Width - (n + 1)] = 2 * Size[Width - n] /\ Size[Width - n] \in Nat
    BY <2>1, RangeConstants
  <2> QED
    BY <1>2, <2>2, RangeConstants
<1> HIDE DEF T
<1>3. \A n \in 0 .. Width : n \in T
  BY <1>1, <1>2, BoundedInduction, RangeConstants
<1> SUFFICES ASSUME NEW p \in 0 .. Width PROVE Size[p] > 0
  BY RangeConstants
<1>4. Width - p \in T
  BY <1>3, RangeConstants
<1>5. Width - (Width - p) = p
  BY RangeConstants
<1> QED
  BY <1>4, <1>5 DEF T

\* The size of a block divides that of every wider one.
LEMMA SizesDivide ==
  ASSUME NEW p \in 0 .. Width, NEW q \in p .. Width, NEW x \in Int, x % Size[p] = 0
  PROVE  x % Size[q] = 0
<1> DEFINE T == {n \in 0 .. Width - p : x % Size[p + n] = 0}
<1>1. 0 \in T
  BY RangeConstants
<1>2. ASSUME NEW n \in 0 .. (Width - p) - 1, n \in T PROVE n + 1 \in T
  <2>1. p + (n + 1) \in 1 .. Width /\ (p + (n + 1)) - 1 = p + n
    BY RangeConstants
  <2>2. Size[p + n] = 2 * Size[p + (n + 1)] /\ Size[p + (n + 1)] \in Nat \ {0}
    BY <2>1, RangeConstants, SizeIsPositive
  <2>3. x % Size[p + (n + 1)] = 0
    BY <1>2, <2>2, MultipleOfTwice
  <2> QED
    BY <1>2, <2>3, RangeConstants
<1> HIDE DEF T
<1>3. Width - p \in Nat
  BY RangeConstants
<1>4. \A n \in 0 .. Width - p : n \in T
  BY <1>1, <1>2, <1>3, BoundedInduction
<1>5. q - p \in T /\ p + (q - p) = q
  BY <1>4, RangeConstants
<1> QED
  BY <1>5 DEF T

\* Addresses are naturals below the size of the widest block.
LEMMA AddressesAreNumbers ==
  Size[0] \in Nat \ {0} /\ LastAddress \in Nat /\ \A a \in Addresses : a \in Nat
<1>1. Size[0] \in Nat \ {0}
  BY SizeIsPositive, RangeConstants
<1> QED
  BY <1>1 DEF Addresses, LastAddress

\* The longer the prefix, the smaller the block.
LEMMA SizesShrink ==
  ASSUME NEW p \in 0 .. Width, NEW q \in p .. Width
  PROVE  Size[q] <= Size[p]
<1>1. Size[p] \in Nat \ {0} /\ Size[q] \in Nat \ {0} /\ q \in 0 .. Width
  BY SizeIsPositive, RangeConstants
<1>2. Size[p] % Size[p] = 0
  BY <1>1
<1>3. Size[p] % Size[q] = 0
  BY <1>1, <1>2, SizesDivide
<1>4. 0 % Size[q] = 0
  BY <1>1
<1>5. \A P, Q \in Nat \ {0} : P % Q = 0 /\ 0 % Q = 0 => 0 + Q <= P
  BY MultiplesAreApart
<1> QED
  BY <1>1, <1>3, <1>4, <1>5

-----------------------------------------------------------------------------
(* Blocks.                                                                 *)

\* The network of an address is the aligned block that has it.
LEMMA NetworkType ==
  ASSUME NEW a \in Addresses, NEW p \in 0 .. Width
  PROVE  /\ Network(a, p) \in Addresses
         /\ Network(a, p) % Size[p] = 0
         /\ Network(a, p) <= a
         /\ a <= Network(a, p) + Size[p] - 1
<1>1. Size[p] \in Nat \ {0} /\ a \in Nat
  BY SizeIsPositive, RangeConstants DEF Addresses, LastAddress
<1>2. Size[0] \in Nat
  BY RangeConstants
<1> DEFINE r == a % Size[p]
<1>3. r \in 0 .. Size[p] - 1 /\ r <= a /\ (a - r) % Size[p] = 0
  BY <1>1, Remainder
<1>4. Network(a, p) = a - r
  BY DEF Network
<1> HIDE DEF r
<1>5. a - r \in Addresses
  BY <1>1, <1>2, <1>3 DEF Addresses, LastAddress
<1> QED
  BY <1>1, <1>3, <1>4, <1>5

\* One aligned block of each size holds an address.
LEMMA NetworkIsUnique ==
  ASSUME NEW a \in Addresses, NEW p \in 0 .. Width,
         NEW m \in Int, m % Size[p] = 0, m <= a, a <= m + Size[p] - 1
  PROVE  m = Network(a, p)
<1> DEFINE s == Size[p]
           k == Network(a, p)
<1>1. s \in Nat \ {0} /\ a \in Int /\ k \in Int
  BY SizeIsPositive, NetworkType, RangeConstants DEF Addresses, LastAddress
<1>2. k % s = 0 /\ k <= a /\ a <= k + s - 1
  BY NetworkType
<1> HIDE DEF s, k
<1>3. ~(m < k)
  BY <1>1, <1>2, MultiplesAreApart DEF s
<1>4. ~(k < m)
  BY <1>1, <1>2, MultiplesAreApart DEF s
<1> QED
  BY <1>1, <1>3, <1>4 DEF k

\* A block is aligned when its size divides its destination.
LEMMA AlignedMeansMultiple ==
  ASSUME NEW block \in Blocks
  PROVE  Aligned(block) <=> block.dest % Size[block.prefix] = 0
<1>1. block.dest \in Int /\ Size[block.prefix] \in Nat \ {0}
  BY SizeIsPositive, RangeConstants DEF Blocks, Addresses, LastAddress
<1>2. \A x \in Int, s \in Nat \ {0} : x = x - (x % s) <=> x % s = 0
  OBVIOUS
<1> QED
  BY <1>1, <1>2 DEF Aligned, Network

\* A block holds the address it begins with.
LEMMA CoversItsDest ==
  ASSUME NEW block \in Blocks
  PROVE  /\ block.dest \in Covers(block)
         /\ Covers(block) \subseteq Nat
<1>1. block.dest \in Nat /\ Size[block.prefix] \in Nat \ {0}
  BY SizeIsPositive, RangeConstants DEF Blocks, Addresses, LastAddress
<1> QED
  BY <1>1 DEF Covers

\* Two aligned blocks that share an address are nested.
LEMMA AlignedBlocksNest ==
  ASSUME NEW b \in Blocks, NEW c \in Blocks, Aligned(b), Aligned(c),
         b.prefix <= c.prefix, NEW a \in Covers(b), a \in Covers(c)
  PROVE  Covers(c) \subseteq Covers(b)
<1> DEFINE S == Size[b.prefix]
           s == Size[c.prefix]
<1>1. /\ S \in Nat \ {0} /\ s \in Nat \ {0}
      /\ b.dest \in Int /\ c.dest \in Int /\ a \in Int
      /\ b.prefix \in 0 .. Width /\ c.prefix \in b.prefix .. Width
  BY SizeIsPositive, RangeConstants DEF Blocks, Addresses, LastAddress, Covers
<1>2. b.dest % S = 0 /\ c.dest % s = 0
  BY AlignedMeansMultiple
<1>3. S % S = 0
  BY <1>1
<1>4. (b.dest + S) % S = 0 /\ b.dest + S \in Int
  BY <1>1, <1>2, <1>3, MultiplesAdd
<1>5. b.dest % s = 0 /\ (b.dest + S) % s = 0
  BY <1>1, <1>2, <1>4, SizesDivide
<1>6. /\ b.dest <= a /\ a <= b.dest + S - 1
      /\ c.dest <= a /\ a <= c.dest + s - 1
  BY <1>1 DEF Covers
<1> HIDE DEF S, s
<1>7. ~(c.dest < b.dest)
  BY <1>1, <1>2, <1>5, <1>6, MultiplesAreApart
<1>8. c.dest + s <= b.dest + S
  BY <1>1, <1>2, <1>4, <1>5, <1>6, MultiplesAreApart
<1> QED
  BY <1>1, <1>7, <1>8 DEF Covers, S, s

\* The block of twice the size is an aligned block and holds both halves.
LEMMA ParentIsABlock ==
  ASSUME NEW block \in Blocks, block.prefix > 0
  PROVE  /\ Parent(block) \in Blocks
         /\ Parent(block).prefix = block.prefix - 1
         /\ Aligned(Parent(block))
         /\ block.dest \in Covers(Parent(block))
<1> DEFINE m == Network(block.dest, block.prefix - 1)
<1>1. block.dest \in Addresses /\ block.prefix - 1 \in 0 .. Width
  BY RangeConstants DEF Blocks
<1>2. /\ m \in Addresses /\ m % Size[block.prefix - 1] = 0
      /\ m <= block.dest /\ block.dest <= m + Size[block.prefix - 1] - 1
  BY <1>1, NetworkType
<1>3. Parent(block).dest = m /\ Parent(block).prefix = block.prefix - 1
  BY DEF Parent
<1>4. Parent(block) \in Blocks
  BY <1>1, <1>2 DEF Parent, Blocks
<1>5. Aligned(Parent(block))
  BY <1>2, <1>3, <1>4, AlignedMeansMultiple
<1>6. block.dest \in Int /\ m \in Int /\ Size[block.prefix - 1] \in Int
  BY <1>1, <1>2, SizeIsPositive, AddressesAreNumbers
<1> HIDE DEF m
<1>7. block.dest \in Covers(Parent(block))
  BY <1>2, <1>3, <1>6 DEF Covers
<1> QED
  BY <1>3, <1>4, <1>5, <1>7

\* One of two nested blocks cannot be as wide as its range allows.
LEMMA CidrsAreDisjoint ==
  ASSUME NEW low \in Int, NEW high \in Int,
         NEW b \in Cidrs(low, high), NEW c \in Cidrs(low, high), b # c
  PROVE  Covers(b) \cap Covers(c) = {}
<1>1. ASSUME NEW x \in Cidrs(low, high), NEW y \in Cidrs(low, high), x # y,
             x.prefix <= y.prefix,
             NEW a \in Covers(x), a \in Covers(y)
      PROVE  FALSE
  <2>1. /\ x \in Blocks /\ Aligned(x) /\ Covers(x) \subseteq low .. high /\ x.prefix > 0
        /\ y \in Blocks /\ Aligned(y)
        /\ y.prefix > 1 => ~(Covers(Parent(y)) \subseteq low .. high)
    BY DEF Cidrs, Aligned
  <2>2. Width \in Nat /\ x.prefix \in 0 .. Width /\ y.prefix \in 0 .. Width
    BY <2>1, RangeConstants DEF Blocks
  <2>3. Covers(y) \subseteq Covers(x)
    BY <1>1, <2>1, AlignedBlocksNest
  <2>4. CASE x.prefix = y.prefix
    <3>1. Covers(x) \subseteq Covers(y)
      BY <1>1, <2>1, <2>2, <2>4, AlignedBlocksNest
    <3>2. x.dest = y.dest
      <4>1. x.dest \in Covers(y) /\ y.dest \in Covers(x)
        BY <2>1, <2>3, <3>1, CoversItsDest
      <4>2. x.dest \in Int /\ y.dest \in Int
        BY <2>1, RangeConstants DEF Blocks, Addresses, LastAddress
      <4> QED
        BY <4>1, <4>2 DEF Covers
    <3> QED
      BY <1>1, <2>1, <2>4, <3>2 DEF Blocks
  <2>5. CASE x.prefix < y.prefix
    <3>1. /\ y.prefix > 1 /\ y.prefix - 1 \in 0 .. Width /\ x.prefix <= y.prefix - 1
          /\ y.dest \in Addresses
      BY <2>1, <2>2, <2>5 DEF Blocks
    <3>2. /\ Parent(y) \in Blocks /\ Parent(y).prefix = y.prefix - 1
          /\ Aligned(Parent(y)) /\ y.dest \in Covers(Parent(y))
      BY <2>1, <2>2, <3>1, ParentIsABlock
    <3>4. y.dest \in Covers(x)
      BY <2>1, <2>3, CoversItsDest
    <3>5. Covers(Parent(y)) \subseteq Covers(x)
      BY <2>1, <3>1, <3>2, <3>4, AlignedBlocksNest
    <3> QED
      BY <2>1, <3>1, <3>5
  <2> QED
    BY <1>1, <2>2, <2>4, <2>5
<1>2. b.prefix \in Int /\ c.prefix \in Int
  BY DEF Cidrs, Blocks
<1> QED
  BY <1>1, <1>2

\* The blocks of a range cover the range and nothing else.
LEMMA CidrsCoverExactly ==
  ASSUME NEW low \in Addresses, NEW high \in Addresses
  PROVE  UNION {Covers(b) : b \in Cidrs(low, high)} = low .. high
<1>1. UNION {Covers(b) : b \in Cidrs(low, high)} \subseteq low .. high
  BY DEF Cidrs
<1>2. ASSUME NEW a \in low .. high
      PROVE  \E b \in Cidrs(low, high) : a \in Covers(b)
  <2> DEFINE At(p) == [dest |-> Network(a, p), prefix |-> p]
             Fitting == {p \in 1 .. Width : Covers(At(p)) \subseteq low .. high}
  <2>1. a \in Addresses /\ a \in Int
    BY AddressesAreNumbers DEF Addresses
  <2>2. \A p \in 0 .. Width : At(p) \in Blocks /\ Aligned(At(p)) /\ a \in Covers(At(p))
    <3> TAKE p \in 0 .. Width
    <3>1. /\ Network(a, p) \in Addresses
          /\ Network(a, p) % Size[p] = 0
          /\ Network(a, p) <= a
          /\ a <= Network(a, p) + Size[p] - 1
      BY <2>1, NetworkType
    <3>2. At(p) \in Blocks
      BY <3>1 DEF Blocks
    <3>3. Network(a, p) \in Int /\ Size[p] \in Int
      BY <3>1, RangeConstants DEF Addresses, LastAddress
    <3>4. a \in Covers(At(p))
      BY <2>1, <3>1, <3>3 DEF Covers
    <3>5. Aligned(At(p))
      BY <3>1, <3>2, AlignedMeansMultiple
    <3> QED
      BY <3>2, <3>4, <3>5
  <2>3. Width \in Fitting
    <3>1. Network(a, Width) = a
      BY <2>1, RangeConstants DEF Network
    <3>2. Covers(At(Width)) = a .. a
      BY <2>1, <3>1, RangeConstants DEF Covers
    <3> QED
      BY <2>1, <3>2, RangeConstants
  <2>4. PICK p \in Fitting : \A k \in Fitting : p <= k
    <3>1. Fitting \in SUBSET Nat
      OBVIOUS
    <3> HIDE DEF Fitting
    <3> QED
      BY <2>3, <3>1, LeastNatural
  <2>5. p \in 1 .. Width /\ p \in 0 .. Width /\ p - 1 \in 0 .. Width
        /\ Covers(At(p)) \subseteq low .. high
    <3>1. p \in 1 .. Width /\ Covers(At(p)) \subseteq low .. high
      BY <2>4
    <3>2. Width \in Nat
      BY RangeConstants
    <3> HIDE DEF At
    <3> QED
      BY <3>1, <3>2
  <2>6. p > 1 => ~(Covers(Parent(At(p))) \subseteq low .. high)
    <3> SUFFICES ASSUME p > 1, Covers(Parent(At(p))) \subseteq low .. high PROVE FALSE
      OBVIOUS
    <3>1. Network(a, p - 1) = Network(At(p).dest, p - 1)
      <4> DEFINE m == Network(a, p - 1)
                 k == Network(a, p)
      <4>1. /\ m \in Int /\ k \in Int /\ k \in Addresses /\ m % Size[p - 1] = 0 /\ k % Size[p] = 0
            /\ k <= a /\ m <= a /\ a <= m + Size[p - 1] - 1
        BY <2>1, <2>5, NetworkType, RangeConstants DEF Addresses, LastAddress
      <4>2. Size[p] \in Nat \ {0} /\ Size[p - 1] = 2 * Size[p] /\ p \in (p - 1) .. Width
        BY <2>5, SizeIsPositive, RangeConstants
      <4>3. m % Size[p] = 0
        BY <2>5, <4>1, <4>2, SizesDivide
      <4> HIDE DEF m, k
      <4>4. m <= k
        <5>1. SUFFICES ASSUME k < m PROVE FALSE
          BY <4>1
        <5>2. k + Size[p] <= m
          BY <4>1, <4>2, <4>3, <5>1, MultiplesAreApart
        <5>3. a <= k + Size[p] - 1
          BY <2>1, <2>5, NetworkType DEF k
        <5> QED
          BY <2>1, <4>1, <4>2, <5>2, <5>3
      <4>5. m = Network(k, p - 1)
        BY <2>1, <2>5, <4>1, <4>2, <4>4, NetworkIsUnique
      <4> QED
        BY <4>5 DEF m, k
    <3>2. Parent(At(p)) = At(p - 1)
      BY <3>1 DEF Parent
    <3>3. p - 1 \in Fitting
      BY <2>5, <3>2
    <3> QED
      BY <2>4, <2>5, <3>3
  <2>7. At(p) \in Cidrs(low, high)
    BY <2>2, <2>5, <2>6 DEF Cidrs, Aligned
  <2> QED
    BY <2>2, <2>5, <2>7
<1> QED
  BY <1>1, <1>2
=============================================================================
