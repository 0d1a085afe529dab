---------------------------- MODULE EnergyMeter ----------------------------
(***************************************************************************)
(* What an exporter promises of its energy total (power/pve_power.py:82    *)
(* and power/win_power.ps1:104, "survives restarts"), said without files,  *)
(* threads or signals: a total that only grows, a copy on disk that only   *)
(* grows, and a restart that goes back to the copy.  At most Window of the *)
(* total is at risk as long as saves succeed.                              *)
(*                                                                         *)
(* The code breaks the promise in situations it does not guard against.    *)
(* Of pve_power.py: two saves that run at the same time, and a state file  *)
(* that exists but cannot be read at start.  Of win_power.ps1: a save in   *)
(* place that is cut short, and a clock that is set.  Spoil stands for     *)
(* all of them; after it nothing is promised.                              *)
(***************************************************************************)
EXTENDS Integers

CONSTANT Window     \* the most energy a restart may lose while saves work

VARIABLES
    total,          \* energy the running program reports
    durable,        \* energy a restart would load
    failing,        \* the last save failed
    spoiled         \* the promise no longer stands

vars == <<total, durable, failing, spoiled>>

Init ==
    /\ total = 0
    /\ durable = 0
    /\ failing = FALSE
    /\ spoiled = FALSE

Measure ==
    /\ total' \in Nat
    /\ total' >= total
    /\ failing \/ total' - durable <= Window
    /\ UNCHANGED <<durable, failing, spoiled>>

Persist ==
    /\ durable' \in Nat
    /\ durable' >= durable
    /\ durable' <= total
    /\ total - durable' <= Window
    /\ failing' = FALSE
    /\ UNCHANGED <<total, spoiled>>

PersistFails ==
    /\ failing' = TRUE
    /\ UNCHANGED <<total, durable, spoiled>>

Restart ==
    /\ total' = durable
    /\ failing' = FALSE
    /\ UNCHANGED <<durable, spoiled>>

Spoil ==
    /\ spoiled' = TRUE
    /\ total' \in Nat
    /\ durable' \in Nat
    /\ failing' \in BOOLEAN

Next == Measure \/ Persist \/ PersistFails \/ Restart \/ Spoil

Spec == Init /\ [][Next]_vars
=============================================================================
