------------------------------- MODULE MCService -------------------------------
(***************************************************************************)
(* Values of SnxService's constants for TLC.  "full" sends all traffic     *)
(* through the tunnel, "split" does not.                                   *)
(***************************************************************************)
EXTENDS SnxService, TLC

MCProfiles     == {"full", "split"}
MCDefaultRoute == [p \in MCProfiles |-> p = "full"]

\* Both profiles leave if_name unset; or each sets its own.
SameName  == [p \in MCProfiles |-> "snx-tun"]
OwnNames  == [p \in MCProfiles |-> p]

\* One Connect() is like another.
Symmetry == Permutations(Attempts)

=============================================================================
