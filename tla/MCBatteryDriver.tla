--------------------------- MODULE MCBatteryDriver ---------------------------
(* The battery driver on a small instance: its threads are interchangeable. *)
EXTENDS BatteryDriver, TLC

Symmetry == Permutations(Clients)
=============================================================================
