---------------------------- MODULE MCReleaseFleet ----------------------------
(* An instance of ReleaseFleet for TLC. *)
EXTENDS ReleaseFleet

CONSTANTS local, a1

(* The Image Studio is installed on the Controller's Mac or on the Agent's. *)
MCFleets == {[enabled |-> Macs, fitted |-> [m \in Macs |-> IF m = at THEN {"image"} ELSE {}]] : at \in Macs}
=============================================================================
