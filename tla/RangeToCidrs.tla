---------------------------- MODULE RangeToCidrs ----------------------------
(***************************************************************************)
(* snx_ip4_range_to_cidrs() of src/snx-ip4-config.c: the inclusive address *)
(* range a gateway hands out, cut into the CIDR blocks that become routes. *)
(* One action per turn of the inner loop, which widens the block at hand,  *)
(* and one per turn of the outer loop, which keeps it and moves on.        *)
(*                                                                         *)
(* guint32 arithmetic wraps at Size[0]; the sums the code casts to guint64 *)
(* do not.                                                                 *)
(***************************************************************************)
EXTENDS CidrBlocks

VARIABLES
  first,   \* the caller's from_be; the code overwrites its own copy
  from,    \* the first address not yet covered
  to,
  prefix,  \* the block at hand
  size,
  specs,   \* the blocks kept so far
  pc       \* "widen" until the function returns

vars == <<first, from, to, prefix, size, specs, pc>>

TypeOK ==
  /\ first \in Addresses
  /\ from \in Addresses
  /\ to \in Addresses
  /\ prefix \in 1 .. Width
  /\ size = Size[prefix]
  /\ specs \subseteq Blocks
  /\ pc \in {"widen", "done"}

\* A range that runs backwards has no blocks.
Init ==
  /\ from \in Addresses
  /\ to \in Addresses
  /\ first = from
  /\ prefix = Width
  /\ size = 1
  /\ specs = {}
  /\ pc = IF from > to THEN "done" ELSE "widen"

\* guint32: an intermediate result may pass the last address once.
Wrap(n) == IF n > LastAddress THEN n - Size[0] ELSE n

NextSize == Wrap(size * 2)

\* Mutants of FitsWider: the end of the range is off by one, either way, or
\* the alignment is not looked at.
FitsWiderByOne ==
  /\ NextSize # 0
  /\ from % NextSize = 0
  /\ from + NextSize - 1 <= to + 1

FitsWiderStrictly ==
  /\ NextSize # 0
  /\ from % NextSize = 0
  /\ from + NextSize - 1 < to

FitsWiderAnywhere ==
  /\ NextSize # 0
  /\ from + NextSize - 1 <= to

FitsWider ==
  /\ NextSize # 0
  /\ from % NextSize = 0
  /\ from + NextSize - 1 <= to

Widen ==
  /\ pc = "widen"
  /\ FitsWider
  /\ prefix' = prefix - 1
  /\ size' = NextSize
  /\ UNCHANGED <<first, from, to, specs, pc>>

KeepBlock == specs' = specs \cup {[dest |-> from, prefix |-> prefix]}

\* Mutant of Finish: the end of the range is looked for with a sum in 32 bits.
FinishBy32Bits ==
  /\ pc = "widen"
  /\ ~FitsWider
  /\ Wrap(from + size) > to
  /\ KeepBlock
  /\ pc' = "done"
  /\ UNCHANGED <<first, from, to, prefix, size>>

\* The block at hand ends the range.
Finish ==
  /\ pc = "widen"
  /\ ~FitsWider
  /\ from + size > to
  /\ KeepBlock
  /\ pc' = "done"
  /\ UNCHANGED <<first, from, to, prefix, size>>

\* Mutant of Advance: it moves on by one address, whatever was covered.
AdvanceByOne ==
  /\ pc = "widen"
  /\ ~FitsWider
  /\ from + size <= to
  /\ KeepBlock
  /\ from' = Wrap(from + 1)
  /\ prefix' = Width
  /\ size' = 1
  /\ UNCHANGED <<first, to, pc>>

Advance ==
  /\ pc = "widen"
  /\ ~FitsWider
  /\ from + size <= to
  /\ KeepBlock
  /\ from' = Wrap(from + size)
  /\ prefix' = Width
  /\ size' = 1
  /\ UNCHANGED <<first, to, pc>>

Next == Widen \/ Finish \/ Advance

Spec == Init /\ [][Next]_vars /\ WF_vars(Next)

-----------------------------------------------------------------------------
\* The addresses the outer loop has dealt with.
Handled == IF pc = "done" THEN first .. to ELSE first .. from - 1

\* Every address of the range is routed through the tunnel, and no other one:
\* src/snx-ip4-config.h:10-12 promises blocks "that exactly cover it".
CoversExactly == UNION {Covers(block) : block \in specs} = Handled

\* No address is covered twice, so no two routes compete for it.
BlocksAreDisjoint ==
  \A b, c \in specs : b # c => Covers(b) \cap Covers(c) = {}

\* The first address of a block has no bit set behind its prefix.  The kernel
\* refuses a route with host bits, so configure_interface() would fail on one.
BlocksAreAligned ==
  \A block \in specs : block.dest % Size[block.prefix] = 0

\* Of all ways to cover the range, the result has the fewest blocks, each as
\* wide as the range allows: the "minimal set" of src/snx-ip4-config.h:10-12,
\* but for the range of all addresses, which comes in halves.  These are the
\* blocks module SnxRoutes reckons with.
BlocksAreWidest == pc = "done" => specs = Cidrs(first, to)

\* The function returns: no range makes from wrap around and start again.
Returns == <>(pc = "done")

=============================================================================
