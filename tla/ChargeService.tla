---------------------------- MODULE ChargeService ----------------------------
(***************************************************************************)
(* What the charging of drones promises to the rest of the system: a drone *)
(* lands once, is made available again at most once and only after it has  *)
(* landed, its completion is announced at most once, and only available    *)
(* drones are put to use again.  How long a charge takes is left open.     *)
(***************************************************************************)
CONSTANT Drones

VARIABLES
    where,      \* "away", "base", "ready" or "reused", for each drone
    announced   \* drones whose completed charge has been announced

vars == <<where, announced>>

Init ==
    /\ where = [d \in Drones |-> "away"]
    /\ announced = {}

Move(S, from, to) ==
    /\ \A d \in S : where[d] = from
    /\ where' = [d \in Drones |-> IF d \in S THEN to ELSE where[d]]
    /\ UNCHANGED announced

Land(d) == Move({d}, "away", "base")

Return(d) == Move({d}, "base", "ready")

Reuse(S) == Move(S, "ready", "reused")

Announce(d) ==
    /\ where[d] \in {"ready", "reused"}
    /\ d \notin announced
    /\ announced' = announced \cup {d}
    /\ UNCHANGED where

Next ==
    \/ \E d \in Drones : Land(d) \/ Return(d) \/ Announce(d)
    \/ \E S \in SUBSET Drones : Reuse(S)

Spec == Init /\ [][Next]_vars
=============================================================================
