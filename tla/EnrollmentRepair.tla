---------------------------- MODULE EnrollmentRepair ----------------------------
(***************************************************************************)
(* The Controller's repair coordinator (enrollment_repair.py) with its     *)
(* store, the repair executors of the Agent Macs, the requests between     *)
(* them, and the registry and identity changes the live claims fence.      *)
(* One action is the code of one coroutine between two awaits, or one      *)
(* durable step of the executor's handler.                                 *)
(***************************************************************************)
EXTENDS RepairStore, RepairExecutor

CONSTANTS
    Ambiguous,          \* the registry says it is missing, shared or unresolvable
    MaxRepairTroubles   \* bound of the model: restarts, losses, edits, changes, a missing token

ASSUME BindingAssumption == Ambiguous \notin Bindings

VARIABLES
    dispatcher, \* _scheduler_loop and the dispatch request it waits for
    probe,      \* _status_loop: the status answer it is about to adopt
    wire,       \* dispatch requests under way
    late,       \* requests whose redemption deadline has passed
    site,       \* the Controller's site identity, counted by its changes
    binding,    \* the registry's binding of each Mac
    tokened,    \* whether the Controller has its fleet token (current_fleet_token)
    spinning,   \* whether _scheduler_loop keeps the event loop to itself
    troubles

rest == << dispatcher, probe, wire, late, site, binding >>
tokenVars == << tokened, spinning >>
repairVars == << row, executorVars, rest, tokenVars, troubles >>

Idle == [pc |-> "idle", req |-> NoRequest, word |-> "none"]
NoProbe == [req |-> NoRequest, word |-> "none"]
FirstSite == 1

RepairInit ==
    /\ StoreInit /\ ExecutorInit
    /\ dispatcher = Idle /\ probe = NoProbe /\ wire = {}
    /\ late = [r \in Requests |-> FALSE]
    /\ site = FirstSite
    /\ binding \in [Macs -> Bindings]
    /\ tokened = TRUE /\ spinning = FALSE /\ troubles = 0

TargetOf(r) == row[r].target
Bound(r) == binding[TargetOf(r)] = row[r].bind

(* The answer of a dispatch request reaches only the dispatcher that waits. *)
Reply(r, word) ==
    dispatcher' = IF dispatcher.pc = "posted" /\ dispatcher.req = r
                  THEN [pc |-> "answered", req |-> r, word |-> word] ELSE dispatcher
-----------------------------------------------------------------------------
(* create_batch: Macs whose registration is ambiguous are rejected, and      *)
(* every one while there is no fleet token.                                 *)
CreateBatch(ms) ==
    /\ tokened /\ ms # {} /\ \A m \in ms : binding[m] # Ambiguous
    /\ CreateOrAdoptBatch(ms, late)
    /\ UNCHANGED << executorVars, rest >>

Eligibility ==
    /\ \E r \in Requests : ExpiredReview(r, late)
    /\ ResolveExpired(late)
    /\ UNCHANGED << executorVars, rest >>

DispatchClaim(r) ==
    /\ dispatcher.pc = "idle" /\ tokened
    /\ ClaimNextDispatch(r)
    /\ dispatcher' = [pc |-> "checking", req |-> r, word |-> "none"]
    /\ UNCHANGED << executorVars, probe, wire, late, site, binding >>

(* _ensure_repair_capability: an Agent without the repair schema gets one   *)
(* gated Hub update, or the request ends as hub_update_required.            *)
CapabilityMissing ==
    /\ dispatcher.pc = "checking"
    /\ FailBeforeClaim(dispatcher.req, "hub_update_required")
    /\ dispatcher' = Idle
    /\ UNCHANGED << executorVars, probe, wire, late, site, binding >>

(* _preissuance_failure: the registry, the address, the fleet token or the  *)
(* connection was not what the check began with.                            *)
PreissuanceFailure(outcome) ==
    /\ dispatcher.pc = "checking" /\ outcome \in {"retryable", "needs_review"}
    /\ FailBeforeClaim(dispatcher.req, outcome)
    /\ dispatcher' = Idle
    /\ UNCHANGED << executorVars, probe, wire, late, site, binding >>

(* The locked part of dispatch_next and the write of the dispatch request. *)
DispatchIssue ==
    LET r == dispatcher.req IN
    /\ dispatcher.pc = "checking" /\ tokened /\ binding[TargetOf(r)] # Ambiguous
    /\ IssueTicket(r, site, binding[TargetOf(r)])
    /\ dispatcher' = [dispatcher EXCEPT !.pc = "posted"]
    /\ wire' = wire \cup {r}
    /\ UNCHANGED << executorVars, probe, late, site, binding >>

(* The request to the target fails or outlives DISPATCH_TIMEOUT_SECONDS. *)
DispatchTimesOut ==
    /\ dispatcher.pc = "posted"
    /\ dispatcher' = [dispatcher EXCEPT !.pc = "parking"]
    /\ UNCHANGED << row, executorVars, probe, wire, late, site, binding >>

(* adopt_status checks the registry again before the store's transaction. *)
Adopts(r, word) == Bound(r) /\ Adoptable(r, word)

(* mark_dispatched, then the adoption of a terminal answer.  A target that  *)
(* redeemed its ticket before it answered makes mark_dispatched raise: its  *)
(* answer is dropped and the request is parked.                             *)
DispatchAnswered ==
    LET r == dispatcher.req
        marked == [row EXCEPT ![r] = [row[r] EXCEPT !.state = "dispatched"]]
        adopted == Dispatchable(r) /\ Adopts(r, dispatcher.word)
    IN /\ dispatcher.pc = "answered"
       /\ row' = IF adopted THEN AdoptedRow(marked, r, dispatcher.word)
                 ELSE IF Dispatchable(r) THEN marked ELSE row
       /\ dispatcher' = IF adopted THEN Idle ELSE [dispatcher EXCEPT !.pc = "parking"]
       /\ UNCHANGED << executorVars, probe, wire, late, site, binding >>

(* _park_after_foreground *)
ParkAfterForeground ==
    /\ dispatcher.pc = "parking"
    /\ row' = IF row[dispatcher.req].state \in Parkable THEN ParkedRow(dispatcher.req) ELSE row
    /\ dispatcher' = Idle
    /\ UNCHANGED << executorVars, probe, wire, late, site, binding >>

(* _probe_status up to the answer: only parked rows of Macs that are still  *)
(* where the ticket was bound are asked.  An answer without terminal        *)
(* evidence, 409 for a request the Agent never journaled among them,        *)
(* changes nothing.                                                         *)
ProbeStatus(r) ==
    LET m == TargetOf(r) IN
    /\ tokened /\ probe = NoProbe /\ row[r].state = "confirmation_pending" /\ Bound(r)
    /\ StatusWord(m, r, late) \in Terminal
    /\ probe' = [req |-> r, word |-> StatusWord(m, r, late)]
    /\ journal' = [journal EXCEPT ![m] = StatusJournal(m, late)]
    /\ UNCHANGED << row, settings, agent, callback, dispatcher, wire, late, site, binding >>

AdoptStatus ==
    /\ probe # NoProbe
    /\ row' = IF Adopts(probe.req, probe.word) THEN AdoptedRow(row, probe.req, probe.word) ELSE row
    /\ probe' = NoProbe
    /\ UNCHANGED << executorVars, dispatcher, wire, late, site, binding >>

(* The redemption callback arrives at the Controller, while the target      *)
(* waits for it or after the target gave up.                                *)
Redeem(r) ==
    /\ tokened /\ callback[r] = "sent" /\ Redeemable(r, site, binding[TargetOf(r)], late)
    /\ row' = Redeemed(r) /\ Answered(TargetOf(r), r, "granted")
    /\ UNCHANGED << journal, settings, agent, rest >>
RedeemLate(r) ==
    /\ tokened /\ callback[r] = "sent" /\ ExpiresAtRedeem(r, late)
    /\ row' = ExpiredAtRedeem(r) /\ Answered(TargetOf(r), r, "refused")
    /\ UNCHANGED << journal, settings, agent, rest >>
(* Any other refusal, a rotated or a missing token among them, changes no row. *)
RedeemRefused(r) ==
    /\ callback[r] = "sent" /\ Answered(TargetOf(r), r, "refused")
    /\ UNCHANGED << row, journal, settings, agent, rest >>
-----------------------------------------------------------------------------
(* apply: the dispatch reaches a Mac whose executor is free.  An expired    *)
(* ticket and an early refusal leave no journal of the request.             *)
Arrives(r) == r \in wire /\ agent[TargetOf(r)].pc = "idle" /\ wire' = wire \ {r}
Attempted(r) == \E m \in Macs : journal[m].req = r /\ journal[m].state = "redemption_attempted"
Expired(m) == [journal EXCEPT ![m] = Expire(journal[m], late)]

ApplyTooLate(r) ==
    /\ Arrives(r) /\ late[r] /\ journal' = Expired(TargetOf(r)) /\ Reply(r, "never_applied")
    /\ UNCHANGED << row, settings, agent, callback, probe, late, site, binding >>
(* Locked by the environment, a shadow database, another controller address *)
(* or an unresolved journal of another request.                             *)
ApplyRefused(r) ==
    /\ Arrives(r) /\ journal' = Expired(TargetOf(r)) /\ Reply(r, "needs_review")
    /\ UNCHANGED << row, settings, agent, callback, probe, late, site, binding >>
ApplyAttempt(r) ==
    /\ Arrives(r) /\ ~late[r] /\ ~Conflict(TargetOf(r), late)
    /\ AttemptRedemption(TargetOf(r), r, row[r].site)
    /\ UNCHANGED << row, dispatcher, probe, late, site, binding >>

(* The handler's end is the answer of the dispatch request. *)
ApplyEnds(m, A, word) ==
    A /\ Reply(agent[m].req, word) /\ UNCHANGED << row, probe, wire, late, site, binding >>
ApplyMoves(m) ==
    /\ AcceptClaim(m) \/ StageSettings(m) \/ ReplaceSettings(m)
    /\ UNCHANGED << row, rest >>
ApplyStep(m) ==
    \/ ApplyMoves(m)
    \/ \E word \in {"redemption_attempted", "needs_review"} : ApplyEnds(m, CallbackFails(m, word), word)
    \/ ApplyEnds(m, PreimageChanged(m), "needs_review")
    \/ ApplyEnds(m, WriterBusy(m), "never_applied")
    \/ ApplyEnds(m, ApplyComplete(m), "complete")
    \/ ApplyEnds(m, ApplyFails(m), Classified(m))
-----------------------------------------------------------------------------
(* The two minutes of a ticket are over, while something still reads it.  *)
Deadline(r) ==
    /\ row[r].ticket = "issued" \/ Attempted(r)
    /\ ~late[r] /\ late' = [late EXCEPT ![r] = TRUE]
    /\ UNCHANGED << row, executorVars, dispatcher, probe, wire, site, binding >>

LoseDispatch(r) ==
    /\ r \in wire /\ wire' = wire \ {r}
    /\ UNCHANGED << row, executorVars, dispatcher, probe, late, site, binding >>

(* require_controller_identity_mutable in front of every change of role,    *)
(* site or Controller id.                                                   *)
ChangeIdentity ==
    /\ ~Blocked /\ site' = site + 1
    /\ UNCHANGED << row, executorVars, dispatcher, probe, wire, late, binding >>

(* note_registry_reload, after any change of the registry. *)
NoteRegistryReload(m, b) ==
    /\ b # binding[m] /\ binding' = [binding EXCEPT ![m] = b]
    /\ FlagRegistryChanged({r \in Requests : LiveClaim(r) /\ row[r].target = m /\ row[r].bind # b})
    /\ UNCHANGED << executorVars, dispatcher, probe, wire, late, site >>

(* The routes that remove, re-key or move a Mac are fenced; a hand-edited   *)
(* studios.json that is reloaded is only noted.                             *)
ChangeRegistration(m, b) == ~BlockedFor(m) /\ NoteRegistryReload(m, b)
ReloadRegistry(m, b) == BlockedFor(m) /\ NoteRegistryReload(m, b)

(* dispatch_next raises before it claims, the loop continues with no await   *)
(* that suspends it, and no other coroutine of the Controller runs.         *)
SchedulerSpins ==
    /\ ~tokened /\ ~spinning /\ spinning' = TRUE
    /\ dispatcher.pc = "idle" /\ HasDispatchableRequest
    /\ UNCHANGED << row, executorVars, rest, tokened >>

(* The token's file is lost; and somebody puts the token back, which the    *)
(* loop finds on its next round.  (Of a new token that the Agents do not    *)
(* take only the refusals are modelled.)                                    *)
TokenLost == tokened /\ tokened' = FALSE /\ UNCHANGED << row, executorVars, rest, spinning >>
TokenBack ==
    /\ ~tokened /\ tokened' = TRUE /\ spinning' = FALSE
    /\ UNCHANGED << row, executorVars, rest >>

ControllerRestart ==
    /\ RecoverSchedulingSlot /\ spinning' = FALSE
    /\ dispatcher' = Idle /\ probe' = NoProbe
    /\ UNCHANGED << executorVars, wire, late, site, binding >>

Restarts(m) == AgentRestart(m, late) /\ UNCHANGED << row, rest >>
Edits(m) == OwnerEdits(m) /\ UNCHANGED << row, rest >>

Dispatching ==
    \/ \E r \in Requests : DispatchClaim(r)
    \/ CapabilityMissing \/ DispatchIssue \/ DispatchTimesOut \/ DispatchAnswered \/ ParkAfterForeground
    \/ \E outcome \in {"retryable", "needs_review"} : PreissuanceFailure(outcome)
Redeeming(r) == Redeem(r) \/ RedeemLate(r) \/ RedeemRefused(r)
Applying(r) == ApplyTooLate(r) \/ ApplyRefused(r) \/ ApplyAttempt(r)
Owner == (\E ms \in SUBSET Macs : CreateBatch(ms)) \/ Eligibility

(* What the Controller's coroutines and routes do: nothing while one spins. *)
Coordinating ==
    \/ Owner \/ Dispatching \/ AdoptStatus
    \/ \E r \in Requests : ProbeStatus(r) \/ Redeeming(r)
RepairStep ==
    \/ ~spinning /\ Coordinating
    \/ \E r \in Requests : Applying(r) \/ Deadline(r)
    \/ \E m \in Macs : ApplyStep(m)

RepairTrouble ==
    \/ ControllerRestart
    \/ /\ UNCHANGED spinning
       /\ \/ \E r \in Requests : LoseDispatch(r)
          \/ \E m \in Macs : Restarts(m) \/ Edits(m)
          \/ /\ ~spinning
             /\ \/ ChangeIdentity
                \/ \E m \in Macs, b \in Bindings \cup {Ambiguous} : ChangeRegistration(m, b) \/ ReloadRegistry(m, b)

RepairNext ==
    \/ RepairStep /\ UNCHANGED << tokenVars, troubles >>
    \/ (SchedulerSpins \/ TokenBack) /\ UNCHANGED troubles
    \/ /\ troubles < MaxRepairTroubles /\ troubles' = troubles + 1
       /\ \/ RepairTrouble /\ UNCHANGED tokened
          \/ TokenLost

RepairSpec == RepairInit /\ [][RepairNext]_repairVars

(* The scheduler and the status loop run while the Hub does, every handler  *)
(* ends (its waits have timeouts), deadlines pass, and the status loop asks *)
(* every parked row in turn.  A dispatch is delivered unless it is lost.    *)
Quietly(A) == A /\ UNCHANGED << tokenVars, troubles >>
Coordinated(A) == ~spinning /\ Quietly(A)
RepairFairness ==
    /\ WF_repairVars(Coordinated(Dispatching)) /\ WF_repairVars(Coordinated(AdoptStatus))
    /\ \A r \in Requests : SF_repairVars(Coordinated(ProbeStatus(r))) /\ WF_repairVars(Quietly(Deadline(r)))
    /\ \A r \in Requests : WF_repairVars(Quietly(Applying(r)))
    /\ \A m \in Macs : WF_repairVars(Quietly(ApplyStep(m)))

FairRepairSpec == RepairSpec /\ RepairFairness
-----------------------------------------------------------------------------
Dispatchers == [pc : {"idle", "checking", "posted", "answered", "parking"},
                req : Requests \cup {NoRequest}, word : Words]
TroublesTypeOK == troubles \in Nat /\ tokened \in BOOLEAN /\ spinning \in BOOLEAN
RepairTypeOK ==
    /\ row \in [Requests -> Rows]
    /\ ExecutorTypeOK
    /\ dispatcher \in Dispatchers
    /\ dispatcher.pc # "idle" => dispatcher.req \in Requests
    /\ probe = NoProbe \/ probe \in [req : Requests, word : Terminal]
    /\ wire \subseteq Requests
    /\ late \in [Requests -> BOOLEAN]
    /\ site \in Nat /\ TroublesTypeOK
    /\ binding \in [Macs -> Bindings \cup {Ambiguous}]

(* An Agent writes an identity only under the Controller's live claim:      *)
(* while its handler is between the granted claim and its outcome, the      *)
(* request's row is still live and redeemed, and the Controller is still    *)
(* the site the claim names, through parking, restarts of either side, late *)
(* and stale status answers and owners who change identities.               *)
WriteFenced ==
    \A m \in Macs : Writing(m) =>
        LET r == agent[m].req IN
        /\ LiveClaim(r) /\ row[r].target = m /\ site = row[r].site /\ journal[m].site = site
        /\ Bound(r) \/ row[r].flagged

(* What the Controller tells the owner is what happened on the Mac: a       *)
(* completed repair is in the Mac's settings and a retryable one left them  *)
(* alone, as long as nobody edited them since and no later attempt began.   *)
OutcomeTruthful ==
    \A r \in Requests :
        LET m == TargetOf(r)
            untouched == m \in Macs /\ journal[m].req = r /\ settings[m].edits = journal[m].pre.edits
        IN /\ row[r].state = "complete" /\ untouched => settings[m].site = row[r].site
           /\ row[r].state = "retryable" /\ untouched => settings[m] = journal[m].pre

(* A repair never writes over an owner's edit of the Mac's settings.        *)
EditsKept == [][\A m \in Macs : settings'[m].edits >= settings[m].edits]_settings

(* One repair of a Mac at a time and one fresh dispatch at a time, and the  *)
(* dispatch slot is never left with a row that the next start of the Hub    *)
(* cannot recover, which would keep the Hub from starting.                  *)
OneRepairPerMac ==
    /\ \A m \in Macs : Cardinality(ActiveFor(m)) <= 1
    /\ Cardinality({r \in Requests : row[r].slot}) <= 1
    /\ \A r \in Requests : row[r].slot => Recoverable(r)

(* Claims are given, used and taken back as RepairFence promises.           *)
Claimed == {r \in Requests : LiveClaim(r)}
Spent == {r \in Requests : row[r].ticket = "redeemed"}
Writers == {agent[m].req : m \in {n \in Macs : Writing(n)}}
Fence == INSTANCE RepairFence WITH claimed <- Claimed, spent <- Spent, writing <- Writers
FenceKept == Fence!Spec

(* A repair the Controller can still bring to an end is brought to one: a   *)
(* queued one gets its turn whatever happens to the repairs before it, and  *)
(* one the Agent has journaled is settled with what the Agent found, unless *)
(* the registry no longer has the Mac where the ticket was bound, and for   *)
(* as long as the Controller has its fleet token: without one a queued      *)
(* request makes the scheduler spin and nothing of the Controller proceeds. *)
Owed(r) ==
    \/ row[r].state = "queued"
    \/ row[r].state \in Parkable /\ journal[TargetOf(r)].req = r /\ Bound(r)
RepairsProceed == \A r \in Requests : Owed(r) ~> ~Owed(r) \/ ~tokened

(* Why WriteFenced holds.  A request is at its Agent from its dispatch to    *)
(* the end of the handler; it is there once, and terminal evidence of it is *)
(* seen, and the claim given up, only after that.                           *)
AtAgent(m, r) == agent[m].pc # "idle" /\ agent[m].req = r
Underway(r) == r \in wire \/ \E m \in Macs : AtAgent(m, r)

RowsInOrder ==
    \A r \in Requests :
        /\ row[r].target = Nobody \/ row[r].state = "absent" => row[r] = Blank
        /\ row[r].state \in {"absent", "queued", "checking"} => row[r].ticket = "none"
        /\ row[r].state \in {"ticket_issued", "dispatched"} => row[r].ticket = "issued"
        /\ row[r].state \in Live => row[r].ticket # "none"
HandlersInOrder ==
    \A m \in Macs :
        IF agent[m].pc = "idle" THEN agent[m] = AtRest
        ELSE /\ agent[m].req \in Requests /\ journal[m].req = agent[m].req
             /\ journal[m].state = IF Writing(m) THEN "applying" ELSE "redemption_attempted"
             /\ journal[m].site = row[agent[m].req].site
             /\ callback[agent[m].req] # "none"
             /\ Writing(m) => callback[agent[m].req] = "granted"
JournalsInOrder ==
    \A m \in Macs : journal[m].req # NoRequest =>
        journal[m].req \in Requests \ wire /\ TargetOf(journal[m].req) = m
Unissued ==
    \A r \in Requests : row[r].ticket = "none" =>
        /\ ~Underway(r) /\ probe.req # r /\ callback[r] = "none"
        /\ \A m \in Macs : journal[m].req # r
        /\ dispatcher.req = r => dispatcher.pc \in {"idle", "checking"}
EvidenceIsFinal ==
    /\ probe # NoProbe => ~Underway(probe.req)
    /\ dispatcher.pc = "answered" /\ dispatcher.word \in Terminal => ~Underway(dispatcher.req)
ClaimsInOrder ==
    \A r \in Requests :
        /\ callback[r] = "granted" => LiveClaim(r) /\ \E m \in Macs : AtAgent(m, r)
        /\ LiveClaim(r) => row[r].site = site /\ (Bound(r) \/ row[r].flagged)
RepairInv ==
    /\ RepairTypeOK /\ RowsInOrder /\ HandlersInOrder /\ JournalsInOrder /\ Unissued
    /\ EvidenceIsFinal /\ ClaimsInOrder
=============================================================================
