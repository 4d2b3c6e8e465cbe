---------------------------- MODULE MachineLeases ----------------------------
(***************************************************************************)
(* What the Hub's queues share about a physical Mac (broker.py): the lease *)
(* an auxiliary queue holds on it, the turn token of the Chat and the      *)
(* transcription lane, the generation items and the waiting renders of the *)
(* broker itself, the Studios withdrawn for maintenance and the circuit    *)
(* that opens after repeated transport failures.  All of it is process     *)
(* memory: a restart forgets it.                                           *)
(***************************************************************************)
EXTENDS Naturals, FiniteSets

CONSTANTS
    Machines,
    Lanes,          \* the auxiliary lanes: "transcription" and "chat"
    Threshold,      \* MACHINE_FAILURE_THRESHOLD
    Nobody          \* no owner, no turn

ASSUME LaneAssumption ==
    /\ Lanes = {"transcription", "chat"} /\ Nobody \notin Lanes
    /\ Threshold \in Nat \ {0}

VARIABLES
    lease,      \* _external_machine_leases: the owner of each Mac
    turn,       \* _external_lane_turn
    media,      \* the broker's own use of a Mac: "idle", "render waits" or "busy"
    drained,    \* _maintenance
    circuit     \* _machine_protection: failures in a row, cooling down?

machineVars == << lease, turn, media, drained, circuit >>

Other(lane) == CHOOSE l \in Lanes : l # lane

(* busy_machines: leased by a lane, or running an item of the broker. *)
MachineBusy(m) == lease[m] # Nobody \/ media[m] = "busy"

(* Mutant of Acquirable: only the leases are looked at. *)
MutantAcquirable(m) == lease[m] = Nobody /\ media[m] # "render waits"

(* acquire_external_machine: refused on a busy Mac and on one a waiting     *)
(* render could use.                                                        *)
Acquirable(m) == ~MachineBusy(m) /\ media[m] # "render waits"
Acquire(m, owner) == lease' = [lease EXCEPT ![m] = owner]

(* release_external_machine: only the owner's own lease is dropped. *)
Release(m, owner) == lease' = [lease EXCEPT ![m] = IF @ = owner THEN Nobody ELSE @]

(* external_dispatch_allowed *)
MayDispatch(m, lane, otherHasWork) == ~otherHasWork \/ turn[m] \in {Nobody, lane}

(* note_external_dispatch and note_external_memory_block: the other lane's turn. *)
PassTurn(m, lane) == turn' = [turn EXCEPT ![m] = Other(lane)]

Quarantined(m) == circuit[m].cooling

(* _mark_machine_failure *)
MarkFailure(m) ==
    circuit' = [circuit EXCEPT ![m] =
        LET n == IF @.failures < Threshold THEN @.failures + 1 ELSE Threshold
        IN [failures |-> n, cooling |-> @.cooling \/ n >= Threshold]]

(* _mark_machine_success *)
MarkSuccess(m) == circuit' = [circuit EXCEPT ![m] = [failures |-> 0, cooling |-> FALSE]]

MachineInit ==
    /\ lease = [m \in Machines |-> Nobody]
    /\ turn = [m \in Machines |-> Nobody]
    /\ media = [m \in Machines |-> "idle"]
    /\ drained = {}
    /\ circuit = [m \in Machines |-> [failures |-> 0, cooling |-> FALSE]]

(* The cooldown of a quarantined Mac ends; its failure count stays. *)
CooldownEnds(m) ==
    /\ Quarantined(m)
    /\ circuit' = [circuit EXCEPT ![m].cooling = FALSE]
    /\ UNCHANGED << lease, turn, media, drained >>

(* A render batch starts waiting for the Mac. *)
RenderWaits(m) ==
    /\ media[m] = "idle" /\ media' = [media EXCEPT ![m] = "render waits"]
    /\ UNCHANGED << lease, turn, drained, circuit >>

(* The broker's scheduler assigns an item to a Studio of the Mac: it reads  *)
(* busy_machines again immediately before.                                  *)
MediaTakes(m) ==
    /\ ~MachineBusy(m)
    /\ media' = [media EXCEPT ![m] = "busy"]
    /\ UNCHANGED << lease, turn, drained, circuit >>

MediaLeaves(m) ==
    /\ media[m] = "busy" /\ media' = [media EXCEPT ![m] = "idle"]
    /\ UNCHANGED << lease, turn, drained, circuit >>

(* set_maintenance, by the operations that withdraw a Studio and return it. *)
Withdraw(s) ==
    /\ s \notin drained /\ drained' = drained \cup {s}
    /\ UNCHANGED << lease, turn, media, circuit >>
GiveBack(s) ==
    /\ s \in drained /\ drained' = drained \ {s}
    /\ UNCHANGED << lease, turn, media, circuit >>
=============================================================================
