------------------------- MODULE RangeToCidrsProofs -------------------------
(***************************************************************************)
(* For every width of an address and every range: the blocks of            *)
(* RangeToCidrs cover the range and nothing else, no address twice, and    *)
(* are aligned the way the kernel demands.  The argument is the loop       *)
(* invariant of the code: the kept blocks tile first .. from - 1, and the  *)
(* block at hand starts at from, is aligned and ends within the range.     *)
(***************************************************************************)
EXTENDS RangeToCidrs, CidrBlocksProofs

\* The block at hand may be kept at any time.
BlockAtHandFits ==
  pc = "widen" =>
    /\ first <= from
    /\ from + size - 1 <= to
    /\ from % size = 0
    /\ size >= 1

\* CoversExactly, address by address.
KeptBlocksTile ==
  \A a \in Int : (\E block \in specs : a \in Covers(block)) <=> a \in Handled

\* No kept block could be twice as wide.
KeptBlocksAreWidest == specs \subseteq Cidrs(first, to)

LoopInv == TypeOK /\ BlockAtHandFits /\ KeptBlocksTile
                  /\ BlocksAreDisjoint /\ BlocksAreAligned /\ KeptBlocksAreWidest

-----------------------------------------------------------------------------
\* The doubled size, when it does not wrap to 0, is the size of the block
\* with a prefix one shorter, and that prefix is not 0.
LEMMA WideningIsExact ==
  ASSUME TypeOK, NextSize # 0
  PROVE  /\ NextSize = 2 * size
         /\ prefix - 1 \in 1 .. Width
         /\ NextSize = Size[prefix - 1]
<1>1. /\ prefix \in 1 .. Width
      /\ size = Size[prefix]
      /\ Size[prefix - 1] = 2 * Size[prefix]
      /\ Size[prefix - 1] <= Size[0]
      /\ Size[0] \in Nat
      /\ size \in Nat
      /\ Width \in Nat
  BY RangeConstants DEF TypeOK
<1>2. size * 2 <= Size[0]
  BY <1>1
<1>3. size * 2 # Size[0]
  BY <1>1 DEF NextSize, Wrap, LastAddress
<1>4. NextSize = size * 2
  BY <1>1, <1>2, <1>3 DEF NextSize, Wrap, LastAddress
<1>5. prefix # 1
  BY <1>1, <1>3
<1> QED
  BY <1>1, <1>4, <1>5

\* What keeping the block at hand does to the invariants about the kept ones:
\* it is aligned, and it covers exactly the addresses from .. from + size - 1,
\* none of which was covered before.
LEMMA KeepingABlock ==
  ASSUME LoopInv, pc = "widen", ~FitsWider, KeepBlock
  PROVE  /\ specs' \subseteq Blocks
         /\ \A a \in Int : (\E block \in specs' : a \in Covers(block))
                             <=> a \in first .. from + size - 1
         /\ \A b, c \in specs' : b # c => Covers(b) \cap Covers(c) = {}
         /\ \A block \in specs' : block.dest % Size[block.prefix] = 0
<1> DEFINE new == [dest |-> from, prefix |-> prefix]
<1>1. /\ first \in Int /\ from \in Int /\ to \in Int /\ size \in Int
      /\ first <= from
      /\ size >= 1
  <2>1. size >= 1
    BY RangeConstants DEF LoopInv, TypeOK, BlockAtHandFits, Addresses, LastAddress
  <2> QED
    BY <2>1, RangeConstants
    DEF LoopInv, TypeOK, BlockAtHandFits, Addresses, LastAddress
<1>2. new \in Blocks /\ Covers(new) = from .. from + size - 1
  BY RangeConstants DEF LoopInv, TypeOK, Blocks, Covers
<1>3. specs' = specs \cup {new}
  BY DEF KeepBlock
<1>4. \A a \in Int : (\E block \in specs : a \in Covers(block))
                       <=> a \in first .. from - 1
  BY DEF LoopInv, KeptBlocksTile, Handled
<1>5. \A block \in specs : Covers(block) \subseteq Int
  BY RangeConstants DEF LoopInv, TypeOK, Blocks, Addresses, LastAddress, Covers
<1>6. \A block \in specs : Covers(block) \cap Covers(new) = {}
  BY <1>1, <1>2, <1>4, <1>5
<1>7. specs' \subseteq Blocks
  BY <1>2, <1>3 DEF LoopInv, TypeOK
<1>8. \A a \in Int : (\E block \in specs' : a \in Covers(block))
                       <=> a \in first .. from + size - 1
  BY <1>1, <1>2, <1>3, <1>4
<1>9. \A b, c \in specs' : b # c => Covers(b) \cap Covers(c) = {}
  BY <1>3, <1>6 DEF LoopInv, BlocksAreDisjoint
<1>10. \A block \in specs' : block.dest % Size[block.prefix] = 0
  BY <1>3 DEF LoopInv, TypeOK, BlockAtHandFits, BlocksAreAligned
<1> QED
  BY <1>7, <1>8, <1>9, <1>10

\* The block at hand is as wide as the range allows.  If the block of twice
\* its size were aligned at from, the inner loop would go on.  Otherwise it
\* starts at an address that is dealt with already, and the kept block that
\* has this address, being the other half or a part of it, would not be as
\* wide as it can be.
LEMMA BlockAtHandIsWidest ==
  ASSUME LoopInv, pc = "widen", ~FitsWider
  PROVE  [dest |-> from, prefix |-> prefix] \in Cidrs(first, to)
<1> DEFINE new == [dest |-> from, prefix |-> prefix]
<1>1. /\ new \in Blocks /\ new.dest = from /\ new.prefix = prefix
      /\ from \in Addresses /\ prefix \in 1 .. Width /\ prefix \in 0 .. Width
      /\ size = Size[prefix] /\ first <= from
      /\ from + size - 1 <= to /\ from % size = 0
  BY RangeConstants DEF LoopInv, TypeOK, BlockAtHandFits, Blocks
<1>2. /\ from \in Int /\ first \in Int /\ to \in Int /\ size \in Nat \ {0}
      /\ Width \in Nat
  BY <1>1, SizeIsPositive, RangeConstants DEF LoopInv, TypeOK, Addresses, LastAddress
<1>3. Aligned(new) /\ Covers(new) \subseteq first .. to
  <2>1. Aligned(new)
    BY <1>1, AlignedMeansMultiple
  <2> QED
    BY <1>1, <1>2, <2>1 DEF Covers
<1>4. ASSUME prefix > 1, Covers(Parent(new)) \subseteq first .. to
      PROVE  FALSE
  <2> DEFINE P == Parent(new)
             N == Size[prefix - 1]
  <2>1. /\ P \in Blocks /\ P.prefix = prefix - 1 /\ Aligned(P) /\ from \in Covers(P)
    BY <1>1, ParentIsABlock
  <2>2. /\ P.dest \in Int /\ N \in Nat \ {0} /\ P.dest % N = 0 /\ prefix - 1 \in 1 .. Width
        /\ P.dest \in Covers(P)
    <3>1. prefix - 1 \in 0 .. Width /\ prefix - 1 \in 1 .. Width
      BY <1>1, <1>2, <1>4
    <3>2. P.dest % N = 0
      BY <2>1, AlignedMeansMultiple
    <3> QED
      BY <2>1, <3>1, <3>2, SizeIsPositive, CoversItsDest, RangeConstants
      DEF Blocks, Addresses, LastAddress
  <2>3. Covers(P) = P.dest .. P.dest + N - 1
    BY <2>1 DEF Covers
  <2>4. first <= P.dest /\ P.dest <= from /\ P.dest + N - 1 <= to
    <3> HIDE DEF P, N
    <3>1. P.dest + N - 1 \in Covers(P)
      BY <2>2, <2>3
    <3>2. P.dest \in first .. to /\ P.dest + N - 1 \in first .. to
      BY <1>4, <2>2, <3>1 DEF P
    <3> QED
      BY <1>2, <2>1, <2>2, <2>3, <3>2
  <2>5. NextSize = N /\ N # 0
    <3>1. N = 2 * size /\ size * 2 = N
      BY <1>1, <1>2, <1>4, RangeConstants
    <3>2. N < Size[0]
      <4>1. 1 \in 0 .. Width /\ prefix - 1 \in 1 .. Width
        BY <1>2, <2>2
      <4>2. N <= Size[1]
        BY <4>1, SizesShrink
      <4>3. Size[0] = 2 * Size[1] /\ Size[1] \in Nat \ {0}
        BY <1>2, <4>1, SizeIsPositive, RangeConstants
      <4> QED
        BY <2>2, <4>2, <4>3
    <3> QED
      BY <2>2, <3>1, <3>2, RangeConstants DEF NextSize, Wrap, LastAddress
  <2>6. P.dest < from
    <3>1. SUFFICES ASSUME P.dest = from PROVE FALSE
      BY <1>2, <2>2, <2>4
    <3> QED
      BY <2>2, <2>4, <2>5, <3>1 DEF FitsWider
  <2>7. PICK c \in specs : P.dest \in Covers(c)
    <3>1. P.dest \in Handled
      BY <1>2, <2>2, <2>4, <2>6 DEF Handled
    <3> QED
      BY <2>2, <3>1 DEF LoopInv, KeptBlocksTile
  <2>8. c \in Cidrs(first, to)
    BY <2>7 DEF LoopInv, KeptBlocksAreWidest
  <2>9. /\ c \in Blocks /\ Aligned(c) /\ c.prefix \in 1 .. Width
        /\ c.prefix > 1 => ~(Covers(Parent(c)) \subseteq first .. to)
    BY <2>8, <1>2 DEF Cidrs, Aligned, Blocks
  <2>10. from \notin Covers(c)
    <3>1. from \notin Handled
      BY <1>2 DEF Handled
    <3> QED
      BY <1>2, <2>7, <3>1 DEF LoopInv, KeptBlocksTile
  <2>11. c.prefix >= prefix
    <3>1. SUFFICES ASSUME c.prefix <= P.prefix PROVE FALSE
      BY <1>1, <1>2, <2>1, <2>9
    <3>2. Covers(P) \subseteq Covers(c)
      BY <2>1, <2>2, <2>7, <2>9, <3>1, AlignedBlocksNest
    <3> QED
      BY <2>1, <2>10, <3>2
  <2>12. /\ Parent(c) \in Blocks /\ Parent(c).prefix = c.prefix - 1 /\ Aligned(Parent(c))
         /\ c.dest \in Covers(Parent(c)) /\ c.prefix > 1
    BY <1>1, <1>2, <1>4, <2>9, <2>11, ParentIsABlock
  <2>13. c.dest \in Covers(P)
    <3>1. P.prefix <= c.prefix
      BY <1>1, <2>1, <2>9, <2>11
    <3>2. Covers(c) \subseteq Covers(P)
      BY <2>1, <2>2, <2>7, <2>9, <3>1, AlignedBlocksNest
    <3> QED
      BY <2>9, <3>2, CoversItsDest
  <2>14. Covers(Parent(c)) \subseteq Covers(P)
    <3>1. P.prefix <= Parent(c).prefix
      BY <1>1, <2>1, <2>9, <2>11, <2>12
    <3> QED
      BY <2>1, <2>12, <2>13, <3>1, AlignedBlocksNest
  <2> QED
    BY <1>4, <2>9, <2>12, <2>14
<1> QED
  BY <1>1, <1>2, <1>3, <1>4 DEF Cidrs, Aligned

-----------------------------------------------------------------------------
\* The loop begins with nothing kept and the first address at hand.
LEMMA LoopInvInit == Init => LoopInv
<1> SUFFICES ASSUME Init PROVE LoopInv
  OBVIOUS
<1>1. TypeOK
  BY RangeConstants DEF Init, TypeOK
<1>2. BlockAtHandFits
  BY RangeConstants DEF Init, BlockAtHandFits, Addresses, LastAddress
<1>3. KeptBlocksTile
  BY AddressesAreNumbers DEF Init, KeptBlocksTile, Handled, Addresses
<1>4. BlocksAreDisjoint /\ BlocksAreAligned /\ KeptBlocksAreWidest
  BY DEF Init, BlocksAreDisjoint, BlocksAreAligned, KeptBlocksAreWidest
<1> QED
  BY <1>1, <1>2, <1>3, <1>4 DEF LoopInv

\* Widening the block at hand, or keeping it, keeps the invariant.
LEMMA LoopInvStep == LoopInv /\ [Next]_vars => LoopInv'
<1> SUFFICES ASSUME LoopInv, [Next]_vars PROVE LoopInv'
  OBVIOUS
<1>1. CASE Widen
  <2>1. /\ NextSize = 2 * size
        /\ prefix - 1 \in 1 .. Width
        /\ NextSize = Size[prefix - 1]
    BY <1>1, WideningIsExact DEF LoopInv, Widen, FitsWider
  <2>2. TypeOK'
    BY <1>1, <2>1 DEF LoopInv, TypeOK, Widen
  <2>3. BlockAtHandFits'
    <3>1. first <= from /\ size >= 1 /\ size \in Int
      BY <1>1, RangeConstants DEF LoopInv, TypeOK, BlockAtHandFits, Widen
    <3> QED
      BY <1>1, <2>1, <3>1 DEF BlockAtHandFits, Widen, FitsWider
  <2>4. KeptBlocksTile' /\ BlocksAreDisjoint' /\ BlocksAreAligned'
    BY <1>1 DEF LoopInv, Widen, KeptBlocksTile, Handled, Covers,
                BlocksAreDisjoint, BlocksAreAligned
  <2>5. KeptBlocksAreWidest'
    BY <1>1 DEF LoopInv, Widen, KeptBlocksAreWidest
  <2> QED
    BY <2>2, <2>3, <2>4, <2>5 DEF LoopInv
<1>2. CASE Finish
  <2>1. from + size - 1 = to
    <3>1. from + size - 1 <= to /\ from + size > to
      BY <1>2 DEF LoopInv, BlockAtHandFits, Finish
    <3>2. from \in Int /\ size \in Int /\ to \in Int
      BY RangeConstants DEF LoopInv, TypeOK, Addresses, LastAddress
    <3> QED
      BY <3>1, <3>2
  <2>2. /\ specs' \subseteq Blocks
        /\ \A a \in Int : (\E block \in specs' : a \in Covers(block))
                            <=> a \in first .. from + size - 1
        /\ \A b, c \in specs' : b # c => Covers(b) \cap Covers(c) = {}
        /\ \A block \in specs' : block.dest % Size[block.prefix] = 0
    BY <1>2, KeepingABlock DEF Finish
  <2>3. TypeOK'
    BY <1>2, <2>2 DEF LoopInv, TypeOK, Finish
  <2>4. BlockAtHandFits'
    BY <1>2 DEF BlockAtHandFits, Finish
  <2>5. KeptBlocksTile'
    BY <1>2, <2>1, <2>2 DEF KeptBlocksTile, Handled, Covers, Finish
  <2>6. BlocksAreDisjoint' /\ BlocksAreAligned'
    BY <2>2 DEF BlocksAreDisjoint, BlocksAreAligned, Covers
  <2>7. KeptBlocksAreWidest'
    BY <1>2, BlockAtHandIsWidest DEF LoopInv, Finish, KeepBlock, KeptBlocksAreWidest
  <2> QED
    BY <2>3, <2>4, <2>5, <2>6, <2>7 DEF LoopInv
<1>3. CASE Advance
  <2>1. /\ first \in Int /\ from \in Int /\ to \in Int /\ size \in Int
        /\ to <= LastAddress /\ LastAddress \in Int /\ from >= 0
        /\ first <= from /\ from + size <= to
        /\ size >= 1
    <3>1. Size[0] \in Nat /\ size \in Nat
      BY RangeConstants DEF LoopInv, TypeOK
    <3>2. first <= from /\ size >= 1 /\ from + size <= to
      BY <1>3 DEF LoopInv, BlockAtHandFits, Advance
    <3> QED
      BY <3>1, <3>2 DEF LoopInv, TypeOK, Addresses, LastAddress
  <2>2. from' = from + size
    BY <1>3, <2>1 DEF Advance, Wrap
  <2>3. /\ specs' \subseteq Blocks
        /\ \A a \in Int : (\E block \in specs' : a \in Covers(block))
                            <=> a \in first .. from + size - 1
        /\ \A b, c \in specs' : b # c => Covers(b) \cap Covers(c) = {}
        /\ \A block \in specs' : block.dest % Size[block.prefix] = 0
    BY <1>3, KeepingABlock DEF Advance
  <2>4. TypeOK'
    <3>1. from' \in Addresses
      BY <2>1, <2>2 DEF Addresses
    <3>2. prefix' \in 1 .. Width /\ size' = Size[prefix']
      BY <1>3, RangeConstants DEF Advance
    <3>3. first' \in Addresses /\ to' \in Addresses
          /\ pc' \in {"widen", "done"}
      BY <1>3 DEF LoopInv, TypeOK, Advance
    <3> QED
      BY <2>3, <3>1, <3>2, <3>3 DEF TypeOK, Blocks
  <2>5. BlockAtHandFits'
    BY <1>3, <2>1, <2>2 DEF BlockAtHandFits, Advance
  <2>6. KeptBlocksTile'
    BY <1>3, <2>1, <2>2, <2>3 DEF KeptBlocksTile, Handled, Covers, Advance
  <2>7. BlocksAreDisjoint' /\ BlocksAreAligned'
    BY <2>3 DEF BlocksAreDisjoint, BlocksAreAligned, Covers
  <2>8. KeptBlocksAreWidest'
    BY <1>3, BlockAtHandIsWidest DEF LoopInv, Advance, KeepBlock, KeptBlocksAreWidest
  <2> QED
    BY <2>4, <2>5, <2>6, <2>7, <2>8 DEF LoopInv
<1>4. CASE UNCHANGED vars
  BY <1>4 DEF vars, LoopInv, TypeOK, BlockAtHandFits, KeptBlocksTile, Handled,
              Covers, BlocksAreDisjoint, BlocksAreAligned, KeptBlocksAreWidest
<1> QED
  BY <1>1, <1>2, <1>3, <1>4 DEF Next

\* The loop invariant of snx_ip4_range_to_cidrs() holds throughout.
LEMMA LoopIsInductive == Spec => []LoopInv
<1> QED
  BY LoopInvInit, LoopInvStep, PTL DEF Spec

\* The variables of snx_ip4_range_to_cidrs() keep their shape; in particular
\* the prefix, a guint8 that the inner loop counts down, never passes 1.
THEOREM RangeTypeCorrect == Spec => []TypeOK
<1>1. LoopInv => TypeOK
  BY DEF LoopInv
<1> QED
  BY <1>1, LoopIsInductive, PTL

\* The blocks cover what the outer loop has dealt with, and in the end the
\* range the gateway named, address for address.
THEOREM RangeCoveredExactly == Spec => []CoversExactly
<1>1. ASSUME LoopInv PROVE CoversExactly
  <2>1. \A block \in specs : Covers(block) \subseteq Int
    BY <1>1, RangeConstants
    DEF LoopInv, TypeOK, Blocks, Addresses, LastAddress, Covers
  <2>2. Handled \subseteq Int
    BY <1>1, RangeConstants DEF LoopInv, TypeOK, Addresses, LastAddress, Handled
  <2>3. UNION {Covers(block) : block \in specs} \subseteq Handled
    BY <1>1, <2>1 DEF LoopInv, KeptBlocksTile
  <2>4. Handled \subseteq UNION {Covers(block) : block \in specs}
    BY <1>1, <2>2 DEF LoopInv, KeptBlocksTile
  <2> QED
    BY <2>3, <2>4 DEF CoversExactly
<1> QED
  BY <1>1, LoopIsInductive, PTL

\* No two blocks of a range share an address.
THEOREM RangeBlocksAreDisjoint == Spec => []BlocksAreDisjoint
<1>1. LoopInv => BlocksAreDisjoint
  BY DEF LoopInv
<1> QED
  BY <1>1, LoopIsInductive, PTL

\* No block of a range has host bits, which the kernel would refuse.
THEOREM RangeBlocksAreAligned == Spec => []BlocksAreAligned
<1>1. LoopInv => BlocksAreAligned
  BY DEF LoopInv
<1> QED
  BY <1>1, LoopIsInductive, PTL

\* The loop returns the blocks that Cidrs defines by what they are, the widest
\* ones that fit: what SnxRoutes reckons with is what the code computes.
THEOREM RangeBlocksAreWidest == Spec => []BlocksAreWidest
<1>1. ASSUME LoopInv, pc = "done" PROVE specs = Cidrs(first, to)
  <2>1. specs \subseteq Cidrs(first, to) /\ first \in Int /\ to \in Int
    BY <1>1, RangeConstants
    DEF LoopInv, TypeOK, KeptBlocksAreWidest, Addresses, LastAddress
  <2>2. ASSUME NEW c \in Cidrs(first, to) PROVE c \in specs
    <3>1. c \in Blocks /\ c.dest \in Covers(c) /\ Covers(c) \subseteq Nat
          /\ Covers(c) \subseteq first .. to
      BY CoversItsDest DEF Cidrs
    <3>2. c.dest \in Handled /\ c.dest \in Int
      BY <1>1, <3>1 DEF Handled
    <3>3. PICK b \in specs : c.dest \in Covers(b)
      BY <1>1, <3>2 DEF LoopInv, KeptBlocksTile
    <3>4. b = c
      BY <2>1, <3>1, <3>3, CidrsAreDisjoint
    <3> QED
      BY <3>4
  <2> QED
    BY <2>1, <2>2
<1>2. LoopInv => BlocksAreWidest
  BY <1>1 DEF BlocksAreWidest
<1> QED
  BY <1>2, LoopIsInductive, PTL
=============================================================================
