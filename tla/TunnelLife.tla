------------------------------ MODULE TunnelLife ------------------------------
(***************************************************************************)
(* What the rest of the service may take a tunnel for: one at a time, it   *)
(* fails or it does not, and ends when the service ends it.  The threads   *)
(* speak of a failure at most once, while the tunnel is there, and never   *)
(* of the ending; the keepalive timer gives at most one verdict, and none  *)
(* while the tunnel ends.  What was reported is told once, perhaps when    *)
(* the tunnel is gone.                                                     *)
(***************************************************************************)
EXTENDS Naturals

VARIABLES
  started,    \* tunnels started so far
  current,    \* the tunnel that is there, 0 for none
  ending,     \* it is being torn down
  broken,     \* tunnels that failed
  reported,   \* tunnels whose threads reported a failure
  pending,    \* reports not told yet
  failures    \* what NetworkManager was told: <<cause, tunnel>>

lifeVars == <<started, current, ending, broken, reported, pending, failures>>

Verdicts == {"stuck", "send"}   \* the causes known to the keepalive timer

Init ==
  /\ started = 0 /\ current = 0 /\ ending = FALSE
  /\ broken = {} /\ reported = {} /\ pending = {} /\ failures = {}

Start ==
  /\ current = 0
  /\ started' = started + 1
  /\ current' = started'
  /\ UNCHANGED <<ending, broken, reported, pending, failures>>

Break ==
  /\ current # 0 /\ ~ending
  /\ broken' = broken \cup {current}
  /\ UNCHANGED <<started, current, ending, reported, pending, failures>>

Report ==
  /\ current \in broken \ reported
  /\ reported' = reported \cup {current}
  /\ pending' = pending \cup {current}
  /\ UNCHANGED <<started, current, ending, broken, failures>>

Tell ==
  /\ \E t \in pending :
       /\ pending' = pending \ {t}
       /\ failures' = failures \cup {<<"thread", t>>}
  /\ UNCHANGED <<started, current, ending, broken, reported>>

GiveUp ==
  /\ current # 0 /\ ~ending
  /\ \A cause \in Verdicts : <<cause, current>> \notin failures
  /\ \E cause \in Verdicts : failures' = failures \cup {<<cause, current>>}
  /\ UNCHANGED <<started, current, ending, broken, reported, pending>>

BeginEnding ==
  /\ current # 0 /\ ~ending
  /\ ending' = TRUE
  /\ UNCHANGED <<started, current, broken, reported, pending, failures>>

End ==
  /\ ending
  /\ current' = 0 /\ ending' = FALSE
  /\ UNCHANGED <<started, broken, reported, pending, failures>>

Next == Start \/ Break \/ Report \/ Tell \/ GiveUp \/ BeginEnding \/ End

Spec == Init /\ [][Next]_lifeVars
===============================================================================
