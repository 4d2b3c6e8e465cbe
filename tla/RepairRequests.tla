----------------------------- MODULE RepairRequests -----------------------------
(* The Agents and the repair requests the other repair modules speak of.     *)
EXTENDS Integers, FiniteSets

CONSTANTS
    Macs,           \* the registered Agents
    MaxRequests     \* bound of the model: repair requests ever created

ASSUME RequestsAssumption == MaxRequests \in Nat

Requests == 1 .. MaxRequests
=============================================================================
