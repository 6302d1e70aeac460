----------------------------- MODULE CidrBlocks -----------------------------
(***************************************************************************)
(* Addresses of Width bits, 32 in the code, and the CIDR blocks they form: *)
(* the data of src/snx-ip4-config.c.  Cidrs is what                        *)
(* snx_ip4_range_to_cidrs() returns, defined by what its result is; module *)
(* RangeToCidrs is the loop that computes it.                              *)
(***************************************************************************)
EXTENDS Integers

CONSTANTS
  Width,  \* bits of an address
  Size    \* addresses in a block, by the length of its prefix

ASSUME RangeConstants ==
  /\ Width \in Nat \ {0}
  /\ Size \in [0 .. Width -> Nat]
  /\ Size[Width] = 1
  /\ \A p \in 1 .. Width : Size[p - 1] = 2 * Size[p]
  /\ \A p \in 0 .. Width : Size[p] <= Size[0]

LastAddress == Size[0] - 1
Addresses   == 0 .. LastAddress
Blocks      == [dest : Addresses, prefix : 0 .. Width]

\* The addresses a block covers, as a router reads it.
Covers(block) == block.dest .. block.dest + Size[block.prefix] - 1

\* The address with the bits behind the prefix cleared.  A mask by one less
\* than a power of two is the remainder by that power.
Network(address, prefix) == address - (address % Size[prefix])

\* The block of twice the size that a block is one half of.
Parent(block) == [dest   |-> Network(block.dest, block.prefix - 1),
                  prefix |-> block.prefix - 1]

\* The widest aligned blocks that fit into a range.  The code never builds the
\* block of prefix 0, whose size does not fit into a guint32.
Cidrs(low, high) ==
  {block \in Blocks :
     /\ block.prefix > 0
     /\ block.dest = Network(block.dest, block.prefix)
     /\ Covers(block) \subseteq low .. high
     /\ block.prefix > 1 => ~(Covers(Parent(block)) \subseteq low .. high)}
=============================================================================
