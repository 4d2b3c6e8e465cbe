-------------------------- MODULE MCFleetMaintenance --------------------------
(* An instance of FleetMaintenance for TLC. *)
EXTENDS FleetMaintenance

(* The operations' commits: the one after the first, and so on. *)
MCTarget == [op \in Operations |-> op + 1]
=============================================================================
