----------------------------- MODULE MCMonitors ------------------------------
(* Small tables for the monitors: what a drone may leave in drone_logs.    *)
EXTENDS Monitors

CONSTANTS d1, d2

Log(d, status) ==
    {[drone |-> d, tick |-> t, status |-> status[t], stamp |-> 0] : t \in DOMAIN status}

Both(F, G) == {Log(d1, f) \cup Log(d2, g) : f \in F, g \in G}

(* A charge: from tick a to tick b, or not complete, or of a drone whose   *)
(* landing was not seen; or none.                                          *)
Charges ==
    {[t \in {a, b} |-> IF t = a THEN "CHARGING" ELSE "CHARGING_COMPLETED"] :
        a \in 0 .. 1, b \in 1 .. 3}
    \cup {[t \in {2} |-> "CHARGING_COMPLETED"], <<>>}

(* A flight: from tick a to tick b, and how it ends, if it does; or none.  *)
Flights(end) ==
    {[t \in a .. b |-> IF t < b THEN "FLYING" ELSE e] :
        a \in 0 .. 1, b \in 0 .. 2, e \in {"FLYING", end}}

(* A wave at work, in which a drone may die.                               *)
Work ==
    {f \in UNION {[0 .. n - 1 -> Statuses["coverage"]] : n \in 0 .. 2} :
        \A t \in DOMAIN f : f[t] = "DEAD" => t + 1 \notin DOMAIN f}

Visits == UNION {[T -> {"WORKING"}] : T \in SUBSET (0 .. 4)}

MCTables ==
    [recharge |-> Both(Charges, Charges),
     charge |-> Both(Flights("CHARGING"), {f \in Flights("DEAD") : DOMAIN f \subseteq {0, 1}}),
     coverage |-> Both(Work, Work),
     area |-> Both(Visits, {<<>>})]
=============================================================================
