------------------------------ MODULE AuxLanes ------------------------------
(***************************************************************************)
(* The transcription and the Chat queue competing for the same Macs, with  *)
(* the broker's own items, maintenance withdrawals and Hub restarts.       *)
(***************************************************************************)
EXTENDS TranscriptionLane, ChatLane

CONSTANTS
    Maintained,     \* the Studios a maintenance operation may withdraw
    Rendering,      \* the Macs the broker dispatches items to
    MaxDisturbances \* bound of the model

ASSUME RenderingAssumption == Rendering \subseteq Machines

ASSUME OwnerAssumption ==
    /\ \A b \in Jobs, i \in Chapters : Owner(b, i) # Nobody
    /\ \A b \in Talks, i \in Packs : PackOwner(b, i) # Nobody

VARIABLE disturbances

vars == << machineVars, transcriptionVars, chatVars, disturbances >>

Init == MachineInit /\ TranscriptionInit /\ ChatInit /\ disturbances = 0

TranscriptionTask(s) == RunStart(s) \/ RunDone(s) \/ RunFails(s) \/ RunHandoff(s) \/ RunCancelled(s)
TranscriptionWalk ==
    \/ \E b \in Jobs : DispatchExpire(b) \/ DispatchPick(b)
    \/ \E s \in Voices : DispatchLook(s)
    \/ DispatchList \/ DispatchExhausted \/ DispatchAsk({m \in Machines : ChatWork(m)}) \/ DispatchStart \/ DispatchBlocked \/ DispatchLost
TranscriptionClock ==
    \E b \in Jobs : CreateBatch(b) \/ RenewLease(b) \/ \E i \in Chapters : AvoidanceEnds(b, i)
TranscriptionDisturbed ==
    \E b \in Jobs : LeaseLapses(b) \/ CancelBatch(b) \/ RetryBatch(b) \/ CleanupBatch(b) \/ RemoveBatch(b)

ChatTask(s) == AskStart(s) \/ AskAnswered(s) \/ AskFails(s) \/ AskHandoff(s) \/ AskCancelled(s)
ChatRound ==
    \/ \E b \in Talks : RoundExpire(b) \/ RoundPick(b)
    \/ \E s \in Writers : RoundLook(s)
    \/ RoundList \/ RoundExhausted \/ RoundAsk({m \in Machines : TranscriptionWork(m)}) \/ RoundStart \/ RoundBlocked \/ RoundLost
ChatClock ==
    \E b \in Talks : CreateTalk(b) \/ RenewTalk(b) \/ \E i \in Packs : DelayEnds(b, i)
ChatDisturbed ==
    \E b \in Talks : TalkLapses(b) \/ CancelTalk(b) \/ RetryTalk(b) \/ RemoveTalk(b)

HubClock ==
    \/ \E m \in Machines : CooldownEnds(m)
    \/ \E m \in Rendering : MediaTakes(m) \/ MediaLeaves(m)
    \/ \E s \in Maintained : GiveBack(s)
HubDisturbed ==
    \/ \E m \in Rendering : RenderWaits(m)
    \/ \E s \in Maintained : Withdraw(s)

(* The process ends, killed or through its shutdown handlers, and starts again. *)
Restart ==
    /\ \E graceful \in BOOLEAN : TranscriptionRestart(graceful) /\ ChatRestart(graceful)
    /\ lease' = [m \in Machines |-> Nobody] /\ turn' = [m \in Machines |-> Nobody]
    /\ media' = [m \in Machines |-> "idle"] /\ drained' = {}
    /\ circuit' = [m \in Machines |-> [failures |-> 0, cooling |-> FALSE]]

(* Operators, lapsing leases, withdrawals and restarts disturb the lanes a  *)
(* bounded number of times.                                                 *)
Disturb == disturbances < MaxDisturbances /\ disturbances' = disturbances + 1

TranscriptionStep == (\E s \in Voices : TranscriptionTask(s)) \/ TranscriptionWalk \/ TranscriptionClock
ChatStep == (\E s \in Writers : ChatTask(s)) \/ ChatRound \/ ChatClock

Next ==
    \/ TranscriptionStep /\ UNCHANGED << chatVars, disturbances >>
    \/ ChatStep /\ UNCHANGED << transcriptionVars, disturbances >>
    \/ HubClock /\ UNCHANGED << transcriptionVars, chatVars, disturbances >>
    \/ TranscriptionDisturbed /\ Disturb /\ UNCHANGED chatVars
    \/ ChatDisturbed /\ Disturb /\ UNCHANGED transcriptionVars
    \/ HubDisturbed /\ Disturb /\ UNCHANGED << transcriptionVars, chatVars >>
    \/ Restart /\ Disturb

Spec == Init /\ [][Next]_vars
-----------------------------------------------------------------------------
TypeOK ==
    /\ lease \in [Machines -> {Nobody} \cup {Owner(b, i) : b \in Jobs, i \in Chapters}
                              \cup {PackOwner(b, i) : b \in Talks, i \in Packs}]
    /\ turn \in [Machines -> Lanes \cup {Nobody}]
    /\ media \in [Machines -> {"idle", "render waits", "busy"}]
    /\ leased \subseteq Voices /\ engaged \subseteq Writers
    /\ \A b \in Jobs : Exists(b) => \A i \in Chapters : job[b].items[i].state \in ChapterStates
    /\ \A b \in Talks : Present(b) => \A i \in Packs : talk[b].packs[i].results \subseteq Scenes

(* The lease is the admission authority of a physical Mac: whatever was     *)
(* cancelled, expired, removed, retried or restarted, a task of either lane *)
(* that still runs owns the lease of its Mac, so two lanes never work there *)
(* together, and never beside an item of the broker.                        *)
LeaseBacksTask ==
    /\ \A s \in Voices : runs[s].pc # "none" =>
           lease[HostOf[s]] = Owner(runs[s].b, runs[s].i) /\ s \in leased
    /\ \A s \in Writers : asks[s].pc # "none" =>
           lease[WriterHost[s]] = PackOwner(asks[s].b, asks[s].i) /\ s \in engaged
    /\ \A m \in Machines : media[m] = "busy" => lease[m] = Nobody

(* A pack is never asked of two Chat Studios at once, through cancellations, *)
(* lapsed leases, restarts and operator retries: a second request would pay  *)
(* again for scenes the first is about to return.                            *)
OneAskPerPack ==
    \A s, r \in Writers : s # r /\ asks[s].pc # "none" /\ asks[r].pc # "none"
                          => << asks[s].b, asks[s].i >> # << asks[r].b, asks[r].i >>

(* A scene result once obtained is kept by every later try, retry, restart  *)
(* or cancellation, until the operator clears the ended batch.              *)
ScenesKept ==
    [][\A b \in Talks, i \in Packs :
          Present(b) /\ Present(b)' => talk[b].packs[i].results \subseteq talk'[b].packs[i].results]_vars
=============================================================================
