------------------------- MODULE EnrollmentRepairProofs -------------------------
(***************************************************************************)
(* For every number of Macs, requests, registrations and troubles: an      *)
(* Agent writes its identity only under the Controller's live claim, the   *)
(* coordinator, its store and the executors implement RepairFence, one Mac *)
(* has one repair, no owner's edit is lost, and the outcome the Controller *)
(* tells is what happened on the Mac.                                      *)
(*                                                                         *)
(* WriteFenced is not inductive: a claim is given up when terminal         *)
(* evidence of its request is adopted, so the invariant says that such     *)
(* evidence, in the dispatcher's or the probe's hands, is of a request     *)
(* that is no longer at its Agent (EvidenceIsFinal), which needs that a    *)
(* request arrives there once (JournalsInOrder, Unissued).                 *)
(* OutcomeTruthful adds that the evidence still is what the Agent's        *)
(* journal says, and that the journal fits the settings (TruthInv).        *)
(***************************************************************************)
EXTENDS EnrollmentRepair, FiniteSetTheorems, TLAPS

LEMMA Constants == NoRequest \notin Requests /\ Requests \subseteq Nat /\ NoRequest \in Nat
  BY DEF NoRequest, Requests

(* A row that names its Mac. *)
LEMMA Targets ==
  ASSUME RepairTypeOK, RowsInOrder, NEW r \in Requests, row[r].state # "absent" \/ row[r].ticket # "none"
  PROVE  TargetOf(r) \in Macs
  BY DEF RepairTypeOK, RowsInOrder, Rows, Blank, TargetOf

-----------------------------------------------------------------------------
(* A step changes the repair, or only the token, the loop that spins without *)
(* it and the count of troubles.                                             *)
Untouched == UNCHANGED << row, executorVars, rest >>

LEMMA NextKinds == ASSUME [RepairNext]_repairVars PROVE RepairStep \/ RepairTrouble \/ Untouched
  BY DEF RepairNext, SchedulerSpins, TokenBack, TokenLost, Untouched, repairVars

-----------------------------------------------------------------------------
(* Types. *)
LEMMA InitType == RepairInit => RepairTypeOK
<1> SUFFICES ASSUME RepairInit PROVE RepairTypeOK
  OBVIOUS
<1>1. TroublesTypeOK
  BY DEF RepairInit, TroublesTypeOK
<1> QED BY <1>1, RequestsAssumption, NobodyAssumption
  DEF RepairInit, StoreInit, ExecutorInit, RepairTypeOK, ExecutorTypeOK, Rows, Blank, States, Settled, Parkable, Live,
      NoJournal, AtRest, Idle, NoProbe, Words, Settings, FirstSite, NoSite, Journals, Handlers, Dispatchers, NoRequest

(* A record of a row with other lifecycles is a row. *)
LEMMA RowOf ==
  ASSUME NEW w \in Rows, NEW s \in States, NEW k \in BOOLEAN, NEW t \in {"none", "issued", "redeemed", "expired"}
  PROVE  /\ [w EXCEPT !.state = s, !.slot = k] \in Rows
         /\ [w EXCEPT !.state = s, !.slot = k, !.ticket = t] \in Rows
         /\ [w EXCEPT !.state = s, !.ticket = t, !.slot = k] \in Rows
         /\ [w EXCEPT !.ticket = t, !.state = s, !.slot = k] \in Rows
         /\ [w EXCEPT !.ticket = t, !.state = s] \in Rows
         /\ [w EXCEPT !.state = s, !.ticket = t] \in Rows
         /\ [w EXCEPT !.slot = k, !.state = s] \in Rows
         /\ [w EXCEPT !.state = s] \in Rows
         /\ [w EXCEPT !.flagged = TRUE] \in Rows
  BY DEF Rows

LEMMA InStates ==
  /\ \A s \in {"queued", "checking", "needs_review", "retryable", "hub_update_required", "complete", "redeemed",
               "ticket_issued", "dispatched", "confirmation_pending"} : s \in States
  /\ Blank \in Rows
  BY DEF States, Settled, Parkable, Live, Rows, Blank

LEMMA OneRow ==
  ASSUME row \in [Requests -> Rows], NEW r \in Requests, NEW w \in Rows, row' = [row EXCEPT ![r] = w]
  PROVE  row' \in [Requests -> Rows] /\ row'[r] = w /\ \A q \in Requests \ {r} : row'[q] = row[q]
  OBVIOUS

LEMMA ResolvedRow ==
  ASSUME NEW r \in Requests, row[r] \in Rows PROVE Resolved(r, late) \in Rows
  BY RowOf, InStates DEF Resolved

LEMMA AdoptedType ==
  ASSUME NEW rows \in [Requests -> Rows], NEW r \in Requests, NEW word \in Terminal
  PROVE  AdoptedRow(rows, r, word) \in [Requests -> Rows]
<1> DEFINE s == IF word = "never_applied" THEN "retryable" ELSE word
           t == Closed(rows[r].ticket)
<1>1. rows[r].ticket \in {"none", "issued", "redeemed", "expired"} /\ rows[r] \in Rows
  BY DEF Rows
<1>2. s \in States /\ t \in {"none", "issued", "redeemed", "expired"}
  BY <1>1, InStates DEF Terminal, Closed
<1>3. [rows[r] EXCEPT !.state = s, !.ticket = t, !.slot = FALSE] \in Rows
  BY <1>1, <1>2, RowOf
<1> QED BY <1>3 DEF AdoptedRow

LEMMA OwnerType == ASSUME RepairTypeOK, Owner, TroublesTypeOK' PROVE RepairTypeOK'
<1>1. ASSUME NEW ms \in SUBSET Macs, CreateBatch(ms) PROVE row' \in [Requests -> Rows]
  <2>1. \A m \in Macs : [Blank EXCEPT !.target = m, !.state = "queued"] \in Rows
    BY InStates DEF Rows
  <2>2. \A r \in Requests : row[r] \in Rows /\ Resolved(r, late) \in Rows
    BY ResolvedRow DEF RepairTypeOK
  <2> DEFINE kept(r) == IF row[r].target \in ms THEN Resolved(r, late) ELSE row[r]
  <2>0. PICK new \in SUBSET Requests : \E asked \in [new -> Macs] :
            row' = [r \in Requests |->
                       IF r \in new THEN [Blank EXCEPT !.target = asked[r], !.state = "queued"] ELSE kept(r)]
    <3> DEFINE taken == {row[r].target : r \in {q \in Requests : StillOpen(q, ms, late)}}
    <3>1. ms \ taken \subseteq Macs
      OBVIOUS
    <3>3. PICK new \in SUBSET {r \in Requests : ~Created(r)} : \E asked \in [new -> ms \ taken] :
              row' = [r \in Requests |->
                         IF r \in new THEN [Blank EXCEPT !.target = asked[r], !.state = "queued"] ELSE kept(r)]
      BY <1>1 DEF CreateBatch, CreateOrAdoptBatch
    <3>4. PICK asked \in [new -> ms \ taken] :
              row' = [r \in Requests |->
                         IF r \in new THEN [Blank EXCEPT !.target = asked[r], !.state = "queued"] ELSE kept(r)]
      BY <3>3
    <3>5. asked \in [new -> Macs] /\ new \in SUBSET Requests
      BY <3>1, <3>4
    <3> HIDE DEF kept
    <3> QED BY <3>4, <3>5
  <2>3. PICK asked \in [new -> Macs] :
            row' = [r \in Requests |->
                       IF r \in new THEN [Blank EXCEPT !.target = asked[r], !.state = "queued"] ELSE kept(r)]
    BY <2>0
  <2>4. ASSUME NEW r \in Requests PROVE row'[r] \in Rows
    <3>1. CASE r \in new
      BY <2>1, <2>3, <3>1
    <3>2. CASE r \notin new
      BY <2>2, <2>3, <3>2
    <3> QED BY <3>1, <3>2
  <2> QED BY <2>3, <2>4
<1>2. CASE Eligibility
  <2>1. \A r \in Requests : row[r] \in Rows /\ Resolved(r, late) \in Rows
    BY ResolvedRow DEF RepairTypeOK
  <2>2. row' \in [Requests -> Rows]
    BY <1>2, <2>1 DEF Eligibility, ResolveExpired
  <2> QED BY <1>2, <2>2 DEF Eligibility, RepairTypeOK, ExecutorTypeOK, executorVars, rest
<1> QED BY <1>1, <1>2 DEF Owner, CreateBatch, RepairTypeOK, ExecutorTypeOK, executorVars, rest

LEMMA DispatchingType == ASSUME RepairTypeOK, RowsInOrder, Dispatching, TroublesTypeOK' PROVE RepairTypeOK'
<1>1. \A r \in Requests : row[r] \in Rows
  BY DEF RepairTypeOK
<1>2. ASSUME NEW r \in Requests, DispatchClaim(r) PROVE RepairTypeOK'
  <2>1. [row[r] EXCEPT !.state = "checking", !.slot = TRUE] \in Rows
    BY <1>1, RowOf, InStates
  <2> QED BY <1>2, <2>1 DEF DispatchClaim, ClaimNextDispatch, HasDispatchableRequest, RepairTypeOK, ExecutorTypeOK, executorVars, Words,
                          Dispatchers
<1>3. ASSUME NEW outcome \in {"hub_update_required", "retryable", "needs_review"}, FailBeforeClaim(dispatcher.req, outcome),
             dispatcher' = Idle, UNCHANGED << executorVars, probe, wire, late, site, binding >>
      PROVE RepairTypeOK'
  <2>1. dispatcher.req \in Requests => [row[dispatcher.req] EXCEPT !.state = outcome, !.slot = FALSE] \in Rows
    BY <1>1, RowOf, InStates
  <2>2. row' \in [Requests -> Rows]
    BY <1>1, <1>3, <2>1 DEF FailBeforeClaim, RepairTypeOK
  <2> QED BY <1>3, <2>2 DEF RepairTypeOK, ExecutorTypeOK, executorVars, Idle, Words, Dispatchers
<1>4. CASE DispatchIssue
  <2> DEFINE r == dispatcher.req
             w == [row[r] EXCEPT !.state = "ticket_issued", !.ticket = "issued", !.site = site, !.bind = binding[TargetOf(r)],
                                 !.before = {q \in Requests : row[q].state = "complete"}]
  <2>1. r \in Requests /\ TargetOf(r) \in Macs
    BY <1>4, Targets DEF DispatchIssue, IssueTicket, RepairTypeOK
  <2>2. row[r] \in Rows /\ site \in Nat /\ binding[TargetOf(r)] \in Bindings /\ "ticket_issued" \in States
    BY <1>1, <1>4, <2>1, InStates DEF DispatchIssue, RepairTypeOK
  <2>3. w \in Rows
    BY <2>2 DEF Rows
  <2>4. row' \in [Requests -> Rows]
    BY <1>4, <2>1, <2>3 DEF DispatchIssue, IssueTicket, RepairTypeOK
  <2> QED BY <1>4, <2>1, <2>4 DEF DispatchIssue, RepairTypeOK, ExecutorTypeOK, executorVars, Dispatchers
<1>5. CASE DispatchTimesOut
  BY <1>5 DEF DispatchTimesOut, RepairTypeOK, ExecutorTypeOK, executorVars, Dispatchers
<1>6. CASE DispatchAnswered
  <2> DEFINE r == dispatcher.req
             marked == [row EXCEPT ![r] = [row[r] EXCEPT !.state = "dispatched"]]
  <2>1. marked \in [Requests -> Rows]
    BY <1>1, RowOf, InStates DEF RepairTypeOK
  <2>2. row' \in [Requests -> Rows]
    BY <1>6, <2>1, AdoptedType DEF DispatchAnswered, RepairTypeOK, Adopts, Adoptable
  <2> QED BY <1>6, <2>2 DEF DispatchAnswered, RepairTypeOK, ExecutorTypeOK, executorVars, Idle, Words, Dispatchers
<1>7. CASE ParkAfterForeground
  <2>1. row' \in [Requests -> Rows]
    BY <1>1, <1>7, RowOf, InStates DEF ParkAfterForeground, ParkedRow, RepairTypeOK
  <2> QED BY <1>7, <2>1 DEF ParkAfterForeground, RepairTypeOK, ExecutorTypeOK, executorVars, Idle, Words, Dispatchers
<1> QED BY <1>2, <1>3, <1>4, <1>5, <1>6, <1>7 DEF Dispatching, CapabilityMissing, PreissuanceFailure

LEMMA JournalOf ==
  ASSUME NEW j \in Journals, NEW s \in Words
  PROVE  /\ [j EXCEPT !.state = s] \in Journals
         /\ [j EXCEPT !.state = s, !.staged = FALSE] \in Journals
         /\ [j EXCEPT !.staged = TRUE] \in Journals
  BY DEF Journals

LEMMA ExpireType == ASSUME NEW j \in Journals PROVE Expire(j, late) \in Journals
  BY JournalOf DEF Expire, Words

LEMMA HandlerOf ==
  /\ AtRest \in Handlers
  /\ \A r \in Requests : [pc |-> "callback", req |-> r] \in Handlers
  /\ \A h \in Handlers : \A pc \in {"staging", "staged", "replaced"} : [h EXCEPT !.pc = pc] \in Handlers
  BY DEF AtRest, Handlers

LEMMA ReplyType ==
  ASSUME dispatcher \in Dispatchers, NEW r \in Requests, NEW word \in Words, Reply(r, word)
  PROVE  dispatcher' \in Dispatchers /\ (dispatcher.pc # "idle" <=> dispatcher'.pc # "idle") /\ dispatcher'.req = dispatcher.req
  BY DEF Reply, Dispatchers

LEMMA StatusType ==
  ASSUME RepairTypeOK, RowsInOrder, AdoptStatus \/ \E r \in Requests : ProbeStatus(r), TroublesTypeOK' PROVE RepairTypeOK'
<1>1. CASE AdoptStatus
  <2>1. row' \in [Requests -> Rows]
    BY <1>1, AdoptedType DEF AdoptStatus, RepairTypeOK, Adopts, Adoptable
  <2> QED BY <1>1, <2>1 DEF AdoptStatus, RepairTypeOK, ExecutorTypeOK, executorVars
<1>2. ASSUME NEW r \in Requests, ProbeStatus(r) PROVE RepairTypeOK'
  <2>1. TargetOf(r) \in Macs
    BY <1>2, Targets DEF ProbeStatus
  <2>2. StatusJournal(TargetOf(r), late) \in Journals
    BY <2>1, ExpireType DEF StatusJournal, RepairTypeOK, ExecutorTypeOK
  <2>3. journal' \in [Macs -> Journals]
    BY <1>2, <2>2 DEF ProbeStatus, RepairTypeOK, ExecutorTypeOK
  <2>4. probe' \in [req : Requests, word : Terminal]
    BY <1>2 DEF ProbeStatus
  <2> QED BY <1>2, <2>3, <2>4 DEF ProbeStatus, RepairTypeOK, ExecutorTypeOK
<1> QED BY <1>1, <1>2

LEMMA RedeemingType ==
  ASSUME NEW r \in Requests, RepairTypeOK, Redeeming(r), TroublesTypeOK' PROVE RepairTypeOK'
<1>1. row[r] \in Rows
  BY DEF RepairTypeOK
<1>2. /\ [row[r] EXCEPT !.ticket = "redeemed", !.state = "redeemed"] \in Rows
      /\ [row[r] EXCEPT !.ticket = "expired", !.state = "confirmation_pending", !.slot = FALSE] \in Rows
  BY <1>1, RowOf, InStates
<1>3. row' \in [Requests -> Rows]
  BY <1>2 DEF Redeeming, Redeem, RedeemLate, RedeemRefused, Redeemed, ExpiredAtRedeem, RepairTypeOK
<1>4. callback' \in [Requests -> {"none", "sent", "granted", "refused"}]
  BY DEF Redeeming, Redeem, RedeemLate, RedeemRefused, Answered, RepairTypeOK, ExecutorTypeOK
<1> QED BY <1>3, <1>4 DEF Redeeming, Redeem, RedeemLate, RedeemRefused, RepairTypeOK, ExecutorTypeOK, rest

LEMMA ApplyingType ==
  ASSUME NEW r \in Requests, RepairTypeOK, Applying(r), TroublesTypeOK' PROVE RepairTypeOK'
<1>0. \A m \in Macs : Expire(journal[m], late) \in Journals
  BY ExpireType DEF RepairTypeOK, ExecutorTypeOK
<1>1. journal' \in [Macs -> Journals]
  <2>1. CASE ApplyTooLate(r) \/ ApplyRefused(r)
    BY <1>0, <2>1 DEF ApplyTooLate, ApplyRefused, Expired, RepairTypeOK, ExecutorTypeOK
  <2>2. CASE ApplyAttempt(r)
    <3>1. \A m \in Macs : [req |-> r, state |-> "redemption_attempted", pre |-> settings[m], site |-> row[r].site,
                           staged |-> FALSE] \in Journals
      BY DEF Journals, RepairTypeOK, ExecutorTypeOK, Rows, Words
    <3> QED BY <2>2, <3>1 DEF ApplyAttempt, AttemptRedemption, RepairTypeOK, ExecutorTypeOK
  <2> QED BY <2>1, <2>2 DEF Applying
<1>2. agent' \in [Macs -> Handlers]
  BY HandlerOf DEF Applying, ApplyTooLate, ApplyRefused, ApplyAttempt, AttemptRedemption, RepairTypeOK, ExecutorTypeOK
<1>3. dispatcher' \in Dispatchers /\ (dispatcher'.pc # "idle" => dispatcher'.req \in Requests)
  BY ReplyType DEF Applying, ApplyTooLate, ApplyRefused, ApplyAttempt, Words, RepairTypeOK
<1> QED BY <1>1, <1>2, <1>3 DEF Applying, ApplyTooLate, ApplyRefused, ApplyAttempt, Arrives, AttemptRedemption, RepairTypeOK,
           ExecutorTypeOK

LEMMA ClassifiedWord == ASSUME RepairTypeOK, NEW m \in Macs PROVE Classified(m) \in Words
  BY DEF Classified, RepairTypeOK, ExecutorTypeOK, Words, Journals

LEMMA EndsType ==
  ASSUME RepairTypeOK, NEW m \in Macs, NEW word \in Words, Ends(m, word) PROVE ExecutorTypeOK'
<1>1. [journal[m] EXCEPT !.state = word, !.staged = FALSE] \in Journals
  BY JournalOf DEF RepairTypeOK, ExecutorTypeOK
<1> QED BY <1>1, HandlerOf DEF Ends, RepairTypeOK, ExecutorTypeOK, Unread

LEMMA MovesType == ASSUME RepairTypeOK, NEW m \in Macs, ApplyMoves(m) PROVE ExecutorTypeOK'
<1>1. /\ [journal[m] EXCEPT !.state = "applying"] \in Journals
      /\ [journal[m] EXCEPT !.staged = TRUE] \in Journals
  BY JournalOf DEF RepairTypeOK, ExecutorTypeOK, Words
<1>2. Staged(journal[m]) \in Settings
  BY DEF Staged, RepairTypeOK, ExecutorTypeOK, Journals, Settings
<1>3. journal' \in [Macs -> Journals] /\ settings' \in [Macs -> Settings]
  BY <1>1, <1>2 DEF ApplyMoves, AcceptClaim, StageSettings, ReplaceSettings, RepairTypeOK, ExecutorTypeOK
<1>4. agent' \in [Macs -> Handlers]
  <2>1. \A pc \in {"staging", "staged", "replaced"} : [agent[m] EXCEPT !.pc = pc] \in Handlers
    BY HandlerOf DEF RepairTypeOK, ExecutorTypeOK
  <2> QED BY <2>1 DEF ApplyMoves, AcceptClaim, StageSettings, ReplaceSettings, RepairTypeOK, ExecutorTypeOK
<1> QED BY <1>3, <1>4 DEF ApplyMoves, AcceptClaim, StageSettings, ReplaceSettings, RepairTypeOK, ExecutorTypeOK

(* Every way a handler ends. *)
Ended(m) == \E word \in Words : Ends(m, word) /\ Reply(agent[m].req, word)
                                /\ UNCHANGED << row, probe, wire, late, site, binding >>
                                /\ agent[m].pc # "idle"

LEMMA StepsAre == ASSUME RepairTypeOK, NEW m \in Macs, ApplyStep(m) PROVE ApplyMoves(m) \/ Ended(m)
<1>1. {"redemption_attempted", "needs_review", "never_applied", "complete"} \subseteq Words /\ Classified(m) \in Words
  BY ClassifiedWord DEF Words
<1>3. ASSUME NEW word \in {"redemption_attempted", "needs_review"}, ApplyEnds(m, CallbackFails(m, word), word) PROVE Ended(m)
  BY <1>1, <1>3 DEF ApplyEnds, Ended, CallbackFails
<1>4. CASE ApplyEnds(m, PreimageChanged(m), "needs_review")
  BY <1>1, <1>4 DEF ApplyEnds, Ended, PreimageChanged, Granted
<1>5. CASE ApplyEnds(m, WriterBusy(m), "never_applied")
  BY <1>1, <1>5 DEF ApplyEnds, Ended, WriterBusy, Granted
<1>6. CASE ApplyEnds(m, ApplyComplete(m), "complete")
  BY <1>1, <1>6 DEF ApplyEnds, Ended, ApplyComplete
<1>7. CASE ApplyEnds(m, ApplyFails(m), Classified(m))
  BY <1>1, <1>7 DEF ApplyEnds, Ended, ApplyFails, Writing
<1> QED BY <1>3, <1>4, <1>5, <1>6, <1>7 DEF ApplyStep

LEMMA ApplyStepType ==
  ASSUME NEW m \in Macs, RepairTypeOK, HandlersInOrder, ApplyStep(m), TroublesTypeOK' PROVE RepairTypeOK'
<1>1. CASE ApplyMoves(m)
  BY <1>1, MovesType DEF ApplyMoves, RepairTypeOK, rest
<1>2. CASE Ended(m)
  <2>1. PICK word \in Words : Ends(m, word) /\ Reply(agent[m].req, word)
    BY <1>2 DEF Ended
  <2>2. agent[m].req \in Requests
    BY <1>2 DEF Ended, HandlersInOrder
  <2>3. dispatcher' \in Dispatchers /\ (dispatcher'.pc # "idle" => dispatcher'.req \in Requests)
    BY <2>1, <2>2, ReplyType DEF RepairTypeOK
  <2>4. ExecutorTypeOK'
    BY <2>1, EndsType
  <2> QED BY <1>2, <2>3, <2>4 DEF Ended, RepairTypeOK
<1> QED BY <1>1, <1>2, StepsAre

LEMMA TroubleType == ASSUME RepairTypeOK, RepairTrouble, TroublesTypeOK' PROVE RepairTypeOK'
<1>1. CASE ControllerRestart
  <2>1. ASSUME NEW r \in Requests PROVE row'[r] \in Rows
    <3>1. /\ [row[r] EXCEPT !.slot = FALSE, !.state = "queued"] \in Rows
          /\ [row[r] EXCEPT !.slot = FALSE, !.state = "confirmation_pending"] \in Rows
          /\ row[r] \in Rows
      BY RowOf, InStates DEF RepairTypeOK
    <3> QED BY <1>1, <3>1 DEF ControllerRestart, RecoverSchedulingSlot
  <2>2. row' \in [Requests -> Rows]
    BY <1>1, <2>1 DEF ControllerRestart, RecoverSchedulingSlot
  <2> QED BY <1>1, <2>2 DEF ControllerRestart, RepairTypeOK, ExecutorTypeOK, executorVars, Idle, Words, Dispatchers
<1>2. ASSUME NEW m \in Macs, Restarts(m) PROVE RepairTypeOK'
  <2>1. Expire([journal[m] EXCEPT !.state = Classified(m), !.staged = FALSE], late) \in Journals
    BY ClassifiedWord, JournalOf, ExpireType DEF RepairTypeOK, ExecutorTypeOK
  <2> QED BY <1>2, <2>1, HandlerOf DEF Restarts, AgentRestart, Unread, rest, RepairTypeOK, ExecutorTypeOK
<1>3. ASSUME NEW m \in Macs, Edits(m) PROVE RepairTypeOK'
  <2>1. [edits |-> settings[m].edits + 1, site |-> NoSite] \in Settings
    BY DEF RepairTypeOK, ExecutorTypeOK, Settings, NoSite
  <2> QED BY <1>3, <2>1 DEF Edits, OwnerEdits, rest, RepairTypeOK, ExecutorTypeOK
<1>4. ASSUME NEW m \in Macs, NEW b \in Bindings \cup {Ambiguous}, NoteRegistryReload(m, b) PROVE RepairTypeOK'
  <2>1. \A r \in Requests : [row[r] EXCEPT !.flagged = TRUE] \in Rows /\ row[r] \in Rows
    BY RowOf, InStates DEF RepairTypeOK
  <2> QED BY <1>4, <2>1 DEF NoteRegistryReload, FlagRegistryChanged, RepairTypeOK, ExecutorTypeOK, executorVars
<1> QED BY <1>1, <1>2, <1>3, <1>4
        DEF RepairTrouble, LoseDispatch, ChangeIdentity, ChangeRegistration, ReloadRegistry, RepairTypeOK, ExecutorTypeOK,
            executorVars

LEMMA TroublesType == ASSUME RepairTypeOK, [RepairNext]_repairVars PROVE TroublesTypeOK'
<1>1. troubles \in Nat /\ tokened \in BOOLEAN /\ spinning \in BOOLEAN
  BY DEF RepairTypeOK, TroublesTypeOK
<1>2. troubles' \in Nat
  BY <1>1 DEF RepairNext, repairVars
<1>3. tokened' \in BOOLEAN /\ spinning' \in BOOLEAN
  <2>1. CASE UNCHANGED tokenVars
    BY <1>1, <2>1 DEF tokenVars
  <2>2. CASE SchedulerSpins \/ TokenBack \/ TokenLost
    BY <1>1, <2>2 DEF SchedulerSpins, TokenBack, TokenLost
  <2>3. CASE RepairTrouble /\ UNCHANGED tokened
    BY <1>1, <2>3 DEF RepairTrouble, ControllerRestart
  <2> QED BY <2>1, <2>2, <2>3 DEF RepairNext, repairVars
<1> QED BY <1>2, <1>3 DEF TroublesTypeOK

LEMMA NextType == ASSUME RepairInv, [RepairNext]_repairVars PROVE RepairTypeOK'
<1>1. TroublesTypeOK'
  BY TroublesType DEF RepairInv
<1>2. CASE Untouched
  BY <1>1, <1>2 DEF Untouched, RepairInv, RepairTypeOK, ExecutorTypeOK, executorVars, rest
<1>3. ASSUME NEW r \in Requests, Deadline(r) PROVE RepairTypeOK'
  BY <1>1, <1>3 DEF Deadline, RepairInv, RepairTypeOK, ExecutorTypeOK, executorVars
<1>4. CASE RepairStep
  BY <1>1, <1>3, <1>4, OwnerType, DispatchingType, StatusType, RedeemingType, ApplyingType, ApplyStepType
  DEF RepairStep, Coordinating, RepairInv
<1> QED BY <1>1, <1>2, <1>4, TroubleType, NextKinds DEF RepairInv

-----------------------------------------------------------------------------
(* What most steps keep of a row. *)
RowKept(r) ==
    /\ row'[r].ticket = "none" <=> row[r].ticket = "none"
    /\ row'[r].ticket = "redeemed" <=> row[r].ticket = "redeemed"
    /\ row[r].ticket # "none" =>
           row'[r].target = row[r].target /\ row'[r].site = row[r].site /\ row'[r].bind = row[r].bind
    /\ LiveClaim(r)' <=> LiveClaim(r)
    /\ row[r].flagged => row'[r].flagged
RowOrdered(r) ==
    /\ row'[r].target = Nobody \/ row'[r].state = "absent" => row'[r] = Blank
    /\ row'[r].state \in {"absent", "queued", "checking"} => row'[r].ticket = "none"
    /\ row'[r].state \in {"ticket_issued", "dispatched"} => row'[r].ticket = "issued"
    /\ row'[r].state \in Live => row'[r].ticket # "none"
RowsKept == \A r \in Requests : RowKept(r) /\ RowOrdered(r)

Same(v, w) == v.target = w.target /\ v.site = w.site /\ v.bind = w.bind /\ v.flagged = w.flagged

(* A row that stays, or one whose target stays and whose claim is as before. *)
LEMMA StillThere ==
  ASSUME RowsInOrder, NEW r \in Requests, row'[r] = row[r]
  PROVE  RowKept(r) /\ RowOrdered(r)
  BY DEF RowKept, RowOrdered, RowsInOrder, LiveClaim

LEMMA Moved ==
  ASSUME RowsInOrder, NEW r \in Requests, row[r].state # "absent", Same(row'[r], row[r]),
         row'[r].ticket = "none" <=> row[r].ticket = "none", row'[r].ticket = "redeemed" <=> row[r].ticket = "redeemed",
         (row[r].ticket = "redeemed") => (row'[r].state \in Live <=> row[r].state \in Live),
         row'[r].state # "absent", row'[r].state \in {"queued", "checking"} => row'[r].ticket = "none",
         row'[r].state \in {"ticket_issued", "dispatched"} => row'[r].ticket = "issued",
         row'[r].state \in Live => row'[r].ticket # "none"
  PROVE  RowKept(r) /\ RowOrdered(r)
  BY DEF RowKept, RowOrdered, RowsInOrder, LiveClaim, Same, Blank

LEMMA ResolvedKeeps ==
  ASSUME RepairTypeOK, RowsInOrder, NEW r \in Requests, row'[r] = Resolved(r, late)
  PROVE  RowKept(r) /\ RowOrdered(r)
<1>1. row[r] \in Rows
  BY DEF RepairTypeOK
<1>2. CASE PreclaimReview(r)
  <2>0. row'[r] = [row[r] EXCEPT !.state = "retryable"]
    BY <1>2 DEF Resolved, PreclaimReview, ExpiredReview
  <2>1. Same(row'[r], row[r]) /\ row'[r].state = "retryable" /\ row'[r].ticket = row[r].ticket
    BY <1>1, <2>0 DEF Rows, Same
  <2> QED BY <1>2, <2>1, Moved DEF PreclaimReview, Live
<1>3. CASE ~PreclaimReview(r) /\ ExpiredReview(r, late)
  <2>0. row'[r] = [row[r] EXCEPT !.state = "retryable", !.ticket = "expired"]
    BY <1>3 DEF Resolved
  <2>1. Same(row'[r], row[r]) /\ row'[r].state = "retryable" /\ row'[r].ticket = "expired"
    BY <1>1, <2>0 DEF Rows, Same
  <2> QED BY <1>3, <2>1, Moved DEF ExpiredReview, Live
<1>4. CASE ~PreclaimReview(r) /\ ~ExpiredReview(r, late)
  BY <1>4, StillThere DEF Resolved
<1> QED BY <1>2, <1>3, <1>4

LEMMA CreateKeeps ==
  ASSUME RepairTypeOK, RowsInOrder, NEW ms \in SUBSET Macs, CreateBatch(ms) PROVE RowsKept
<1> DEFINE kept(r) == IF row[r].target \in ms THEN Resolved(r, late) ELSE row[r]
           fresh == ms \ {row[r].target : r \in {q \in Requests : StillOpen(q, ms, late)}}
<1>1. PICK new \in SUBSET {r \in Requests : ~Created(r)} : \E asked \in [new -> fresh] :
          row' = [r \in Requests |->
                     IF r \in new THEN [Blank EXCEPT !.target = asked[r], !.state = "queued"] ELSE kept(r)]
  BY DEF CreateBatch, CreateOrAdoptBatch
<1>2. PICK asked \in [new -> fresh] :
          row' = [r \in Requests |->
                     IF r \in new THEN [Blank EXCEPT !.target = asked[r], !.state = "queued"] ELSE kept(r)]
  BY <1>1
<1>3. ASSUME NEW r \in new PROVE RowKept(r) /\ RowOrdered(r)
  <2>1. r \in Requests /\ row[r].state = "absent" /\ asked[r] \in fresh
    BY DEF Created
  <2>2. row'[r] = [Blank EXCEPT !.target = asked[r], !.state = "queued"]
    BY <1>2, <2>1
  <2>3. row'[r].target = asked[r] /\ row'[r].state = "queued" /\ row'[r].ticket = "none"
    BY <2>2 DEF Blank
  <2>4. row[r].ticket = "none" /\ ~LiveClaim(r) /\ asked[r] # Nobody
    BY <2>1, NobodyAssumption DEF RowsInOrder, LiveClaim, Live
  <2>5. row[r].flagged => row'[r].flagged
    BY <2>1, <2>2 DEF RowsInOrder, Blank
  <2> QED BY <2>3, <2>4, <2>5 DEF RowKept, RowOrdered, LiveClaim, Live
<1>4. ASSUME NEW r \in Requests \ new PROVE RowKept(r) /\ RowOrdered(r)
  <2>1. row'[r] = Resolved(r, late) \/ row'[r] = row[r]
    BY <1>2
  <2> QED BY <2>1, StillThere, ResolvedKeeps
<1> QED BY <1>3, <1>4 DEF RowsKept

LEMMA OneRowKept ==
  ASSUME RepairTypeOK, RowsInOrder, NEW r \in Requests, NEW w, row' = [row EXCEPT ![r] = w],
         row'[r] = w => RowKept(r) /\ RowOrdered(r)
  PROVE  RowsKept
<1>1. row'[r] = w /\ \A q \in Requests \ {r} : row'[q] = row[q]
  BY DEF RepairTypeOK
<1>2. \A q \in Requests \ {r} : RowKept(q) /\ RowOrdered(q)
  BY <1>1, StillThere
<1> QED BY <1>1, <1>2 DEF RowsKept

(* A step of the dispatcher that adopts nothing and issues nothing. *)
LEMMA DispatchKeeps ==
  ASSUME RepairTypeOK, RowsInOrder, NEW r \in Requests, ClaimNextDispatch(r) PROVE RowsKept
<1>1. row[r] \in Rows /\ row[r].state = "queued" /\ row[r].ticket = "none"
  BY DEF RepairTypeOK, RowsInOrder, ClaimNextDispatch
<1> DEFINE w == [row[r] EXCEPT !.state = "checking", !.slot = TRUE]
<1>2. Same(w, row[r]) /\ w.state = "checking" /\ w.ticket = "none"
  BY <1>1 DEF Rows, Same
<1> HIDE DEF w
<1>3. row'[r] = w => RowKept(r) /\ RowOrdered(r)
  BY <1>1, <1>2, Moved DEF Live
<1> QED BY <1>3, OneRowKept DEF ClaimNextDispatch, w

LEMMA FailKeeps ==
  ASSUME RepairTypeOK, RowsInOrder, NEW r \in Requests, NEW s \in {"hub_update_required", "retryable", "needs_review"},
         FailBeforeClaim(r, s)
  PROVE  RowsKept
<1>1. row[r] \in Rows /\ row[r].state # "absent" /\ row[r].ticket = "none"
  BY DEF RepairTypeOK, RowsInOrder, FailBeforeClaim
<1> DEFINE w == [row[r] EXCEPT !.state = s, !.slot = FALSE]
<1>2. Same(w, row[r]) /\ w.state = s /\ w.ticket = "none"
  BY <1>1 DEF Rows, Same
<1> HIDE DEF w
<1>3. row'[r] = w => RowKept(r) /\ RowOrdered(r)
  BY <1>1, <1>2, Moved DEF Live
<1> QED BY <1>3, OneRowKept DEF FailBeforeClaim, w

LEMMA MarkKeeps ==
  ASSUME RepairTypeOK, RowsInOrder, NEW r \in Requests, Dispatchable(r),
         row' = [row EXCEPT ![r] = [row[r] EXCEPT !.state = "dispatched"]]
  PROVE  RowsKept
<1>1. row[r] \in Rows /\ row[r].state # "absent" /\ row[r].ticket = "issued"
  BY DEF RepairTypeOK, Dispatchable
<1> DEFINE w == [row[r] EXCEPT !.state = "dispatched"]
<1>2. Same(w, row[r]) /\ w.state = "dispatched" /\ w.ticket = "issued"
  BY <1>1 DEF Rows, Same
<1> HIDE DEF w
<1>3. row'[r] = w => RowKept(r) /\ RowOrdered(r)
  BY <1>1, <1>2, Moved
<1> QED BY <1>3, OneRowKept DEF w

LEMMA ParkKeeps ==
  ASSUME RepairTypeOK, RowsInOrder, NEW r \in Requests, row[r].state \in Parkable, row' = ParkedRow(r)
  PROVE  RowsKept
<1>1. row[r] \in Rows /\ row[r].state # "absent" /\ row[r].state \notin {"queued", "checking"}
      /\ (row[r].ticket = "redeemed" => row[r].state \in Live) /\ row[r].ticket # "none"
  BY DEF RepairTypeOK, RowsInOrder, Parkable, Live
<1> DEFINE w == [row[r] EXCEPT !.state = "confirmation_pending", !.slot = FALSE]
<1>2. Same(w, row[r]) /\ w.state = "confirmation_pending" /\ w.ticket = row[r].ticket
  BY <1>1 DEF Rows, Same
<1> HIDE DEF w
<1>3. row'[r] = w => RowKept(r) /\ RowOrdered(r)
  BY <1>1, <1>2, Moved DEF Live
<1> QED BY <1>3, OneRowKept DEF ParkedRow, w

LEMMA RecoverKeeps == ASSUME RepairTypeOK, RowsInOrder, RecoverSchedulingSlot PROVE RowsKept
<1>1. ASSUME NEW r \in Requests PROVE RowKept(r) /\ RowOrdered(r)
  <2>1. row[r] \in Rows
    BY DEF RepairTypeOK
  <2>2. CASE ~row[r].slot
    <3>1. row'[r] = row[r]
      BY <2>2 DEF RecoverSchedulingSlot
    <3> QED BY <3>1, StillThere
  <2>3. CASE row[r].slot /\ row[r].state = "checking"
    <3>1. row'[r] = [row[r] EXCEPT !.slot = FALSE, !.state = "queued"]
      BY <2>3 DEF RecoverSchedulingSlot
    <3>2. Same(row'[r], row[r]) /\ row'[r].state = "queued" /\ row'[r].ticket = row[r].ticket
      BY <2>1, <3>1 DEF Rows, Same
    <3>3. row[r].ticket = "none"
      BY <2>3 DEF RowsInOrder
    <3> QED BY <2>3, <3>2, <3>3, Moved DEF Live
  <2>4. CASE row[r].slot /\ row[r].state # "checking"
    <3>1. row'[r] = [row[r] EXCEPT !.slot = FALSE, !.state = "confirmation_pending"]
      BY <2>4 DEF RecoverSchedulingSlot
    <3>2. Same(row'[r], row[r]) /\ row'[r].state = "confirmation_pending" /\ row'[r].ticket = row[r].ticket
      BY <2>1, <3>1 DEF Rows, Same
    <3>3. row[r].state \in Parkable
      BY <2>4 DEF RecoverSchedulingSlot, Recoverable, Parkable, Live
    <3>4. row[r].state # "absent" /\ row[r].ticket # "none" /\ (row[r].ticket = "redeemed" => row[r].state \in Live)
      BY <3>3 DEF Parkable, RowsInOrder, Live
    <3> QED BY <3>2, <3>4, Moved DEF Live
  <2> QED BY <2>2, <2>3, <2>4
<1> QED BY <1>1 DEF RowsKept

LEMMA ExpireKeeps ==
  ASSUME RepairTypeOK, RowsInOrder, NEW r \in Requests, ExpiresAtRedeem(r, late), row' = ExpiredAtRedeem(r)
  PROVE  RowsKept
<1>1. row[r] \in Rows /\ row[r].state # "absent" /\ row[r].ticket = "issued"
  BY DEF RepairTypeOK, ExpiresAtRedeem
<1> DEFINE w == [row[r] EXCEPT !.ticket = "expired", !.state = "confirmation_pending", !.slot = FALSE]
<1>2. Same(w, row[r]) /\ w.state = "confirmation_pending" /\ w.ticket = "expired"
  BY <1>1 DEF Rows, Same
<1> HIDE DEF w
<1>3. row'[r] = w => RowKept(r) /\ RowOrdered(r)
  BY <1>1, <1>2, Moved
<1> QED BY <1>3, OneRowKept DEF ExpiredAtRedeem, w

LEMMA FlagKeeps ==
  ASSUME RepairTypeOK, RowsInOrder, NEW rs \in SUBSET {r \in Requests : LiveClaim(r)}, FlagRegistryChanged(rs)
  PROVE  RowsKept /\ \A r \in rs : row'[r].flagged
<1>1. ASSUME NEW r \in Requests PROVE RowKept(r) /\ RowOrdered(r) /\ (r \in rs => row'[r].flagged)
  <2>1. row[r] \in Rows
    BY DEF RepairTypeOK
  <2>2. CASE r \notin rs
    <3>1. row'[r] = row[r]
      BY <2>2 DEF FlagRegistryChanged
    <3> QED BY <2>2, <3>1, StillThere
  <2>3. CASE r \in rs
    <3>1. row'[r] = [row[r] EXCEPT !.flagged = TRUE]
      BY <2>3 DEF FlagRegistryChanged
    <3>2. /\ row'[r].target = row[r].target /\ row'[r].site = row[r].site /\ row'[r].bind = row[r].bind
          /\ row'[r].state = row[r].state /\ row'[r].ticket = row[r].ticket /\ row'[r].flagged
      BY <2>1, <3>1 DEF Rows
    <3>3. LiveClaim(r)
      BY <2>3
    <3> QED BY <3>2, <3>3 DEF RowKept, RowOrdered, RowsInOrder, LiveClaim, Live, Blank
  <2> QED BY <2>2, <2>3
<1> QED BY <1>1 DEF RowsKept

-----------------------------------------------------------------------------
(* A step that keeps the rows, the claims and the handlers. *)
Bookkeeping ==
    /\ RowsKept
    /\ UNCHANGED << journal, settings, agent, callback, wire, site >>
    /\ \A r \in Requests : LiveClaim(r) => (Bound(r) => Bound(r)') \/ row'[r].flagged
    /\ probe' = probe \/ probe' = NoProbe
    /\ \/ dispatcher' = dispatcher
       \/ dispatcher'.pc = "idle"
       \/ dispatcher'.pc = "checking"
       \/ (dispatcher'.pc = "parking" /\ row[dispatcher'.req].ticket # "none")

LEMMA BookkeepingKeeps == ASSUME RepairInv, Bookkeeping, RepairTypeOK' PROVE RepairInv'
<1> USE Constants
<1>1. RowsInOrder'
  BY DEF Bookkeeping, RowsKept, RowOrdered, RowsInOrder
<1>2. \A r \in Requests : RowKept(r)
  BY DEF Bookkeeping, RowsKept
<1>3. HandlersInOrder'
  <2>1. ASSUME NEW m \in Macs, agent[m].pc # "idle"
        PROVE  agent[m].req \in Requests /\ row'[agent[m].req].site = row[agent[m].req].site
    <3>1. agent[m].req \in Requests /\ AtAgent(m, agent[m].req)
      BY <2>1 DEF RepairInv, HandlersInOrder, AtAgent
    <3>2. row[agent[m].req].ticket # "none"
      BY <3>1 DEF RepairInv, Unissued, Underway
    <3> QED BY <1>2, <3>1, <3>2 DEF RowKept
  <2> QED BY <2>1 DEF Bookkeeping, RepairInv, HandlersInOrder, Writing
<1>4. JournalsInOrder'
  <2>1. ASSUME NEW m \in Macs, journal[m].req # NoRequest
        PROVE  journal[m].req \in Requests \ wire /\ TargetOf(journal[m].req) = m /\ TargetOf(journal[m].req)' = m
    <3>1. journal[m].req \in Requests \ wire /\ TargetOf(journal[m].req) = m
      BY <2>1 DEF RepairInv, JournalsInOrder
    <3>2. row[journal[m].req].ticket # "none"
      BY <3>1 DEF RepairInv, Unissued
    <3>3. row'[journal[m].req].target = row[journal[m].req].target
      BY <1>2, <3>1, <3>2 DEF RowKept
    <3> QED BY <3>1, <3>3 DEF TargetOf, Bookkeeping
  <2> QED BY <2>1 DEF Bookkeeping, JournalsInOrder, TargetOf
<1>5. Unissued'
  <2>1. ASSUME NEW r \in Requests, row'[r].ticket = "none"
        PROVE  /\ ~Underway(r)' /\ probe'.req # r /\ callback'[r] = "none"
               /\ \A m \in Macs : journal'[m].req # r
               /\ dispatcher'.req = r => dispatcher'.pc \in {"idle", "checking"}
    <3>1. row[r].ticket = "none"
      BY <1>2, <2>1 DEF RowKept
    <3>2. probe'.req # r
      BY <3>1 DEF Bookkeeping, RepairInv, Unissued, NoProbe
    <3> QED BY <3>1, <3>2 DEF Bookkeeping, RepairInv, Unissued, Underway, AtAgent
  <2> QED BY <2>1 DEF Unissued
<1>6. EvidenceIsFinal'
  BY DEF Bookkeeping, RepairInv, EvidenceIsFinal, Underway, AtAgent
<1>7. ClaimsInOrder'
  <2>1. ASSUME NEW r \in Requests, callback'[r] = "granted" PROVE LiveClaim(r)' /\ \E m \in Macs : AtAgent(m, r)'
    BY <1>2, <2>1 DEF Bookkeeping, RepairInv, ClaimsInOrder, RowKept, AtAgent
  <2>2. ASSUME NEW r \in Requests, LiveClaim(r)' PROVE row'[r].site = site' /\ (Bound(r)' \/ row'[r].flagged)
    <3>1. LiveClaim(r) /\ row[r].ticket # "none"
      BY <1>2, <2>2 DEF RowKept, LiveClaim
    <3> QED BY <1>2, <3>1 DEF Bookkeeping, RepairInv, ClaimsInOrder, RowKept
  <2> QED BY <2>1, <2>2 DEF ClaimsInOrder
<1> QED BY <1>1, <1>3, <1>4, <1>5, <1>6, <1>7 DEF RepairInv

(* Which bookkeeping a step of the coordinator is. *)
LEMMA BookkeepingSteps ==
  ASSUME RepairInv
  PROVE  /\ Owner => Bookkeeping
         /\ \A r \in Requests : DispatchClaim(r) \/ Deadline(r) => Bookkeeping
         /\ CapabilityMissing \/ DispatchTimesOut \/ ParkAfterForeground \/ ControllerRestart => Bookkeeping
         /\ \A outcome \in {"retryable", "needs_review"} : PreissuanceFailure(outcome) => Bookkeeping
         /\ \A m \in Macs, b \in Bindings \cup {Ambiguous} : NoteRegistryReload(m, b) => Bookkeeping
         /\ Untouched => Bookkeeping
<1> USE DEF RepairInv
<1>1. UNCHANGED row => RowsKept
  BY StillThere DEF RowsKept
<1>2. Owner => Bookkeeping
  <2>1. Eligibility => RowsKept
    <3>1. ASSUME Eligibility, NEW r \in Requests PROVE RowKept(r) /\ RowOrdered(r)
      <4>1. row'[r] = Resolved(r, late) \/ row'[r] = row[r]
        BY <3>1 DEF Eligibility, ResolveExpired
      <4> QED BY <4>1, StillThere, ResolvedKeeps
    <3> QED BY <3>1 DEF RowsKept
  <2> QED BY <2>1, CreateKeeps DEF Owner, CreateBatch, Eligibility, Bookkeeping, executorVars, rest, Bound, TargetOf,
             RowsKept, RowKept, LiveClaim
<1>3. ASSUME NEW r \in Requests, DispatchClaim(r) \/ Deadline(r) PROVE Bookkeeping
  BY <1>1, <1>3, DispatchKeeps DEF DispatchClaim, Deadline, Bookkeeping, executorVars, Bound, TargetOf, RowsKept, RowKept, LiveClaim
<1>4. ASSUME NEW outcome \in {"hub_update_required", "retryable", "needs_review"}, FailBeforeClaim(dispatcher.req, outcome),
             dispatcher.pc = "checking", dispatcher' = Idle, UNCHANGED << executorVars, probe, wire, late, site, binding >>
      PROVE  Bookkeeping
  <2>1. dispatcher.req \in Requests
    BY <1>4 DEF RepairTypeOK
  <2> QED BY <1>4, <2>1, FailKeeps DEF Bookkeeping, executorVars, Bound, TargetOf, RowsKept, RowKept, LiveClaim, Idle
<1>5. ASSUME DispatchTimesOut PROVE Bookkeeping
  <2>1. dispatcher.req \in Requests /\ row[dispatcher.req].ticket # "none"
    BY <1>5 DEF DispatchTimesOut, RepairTypeOK, Unissued
  <2>2. dispatcher'.pc = "parking" /\ dispatcher'.req = dispatcher.req
    BY <1>5 DEF DispatchTimesOut, RepairTypeOK, Dispatchers
  <2> QED BY <1>1, <1>5, <2>1, <2>2 DEF DispatchTimesOut, Bookkeeping, executorVars, Bound, TargetOf
<1>6. ASSUME ParkAfterForeground PROVE Bookkeeping
  <2>1. dispatcher.req \in Requests
    BY <1>6 DEF ParkAfterForeground, RepairTypeOK
  <2>2. RowsKept
    BY <1>1, <1>6, <2>1, ParkKeeps DEF ParkAfterForeground
  <2> QED BY <1>6, <2>2 DEF ParkAfterForeground, Bookkeeping, executorVars, Bound, TargetOf, RowsKept, RowKept, LiveClaim, Idle
<1>7. ASSUME ControllerRestart PROVE Bookkeeping
  BY <1>7, RecoverKeeps DEF ControllerRestart, Bookkeeping, executorVars, Bound, TargetOf, RowsKept, RowKept, LiveClaim, Idle
<1>8. ASSUME NEW m \in Macs, NEW b \in Bindings \cup {Ambiguous}, NoteRegistryReload(m, b) PROVE Bookkeeping
  <2> DEFINE rs == {r \in Requests : LiveClaim(r) /\ row[r].target = m /\ row[r].bind # b}
  <2>1. RowsKept /\ \A r \in rs : row'[r].flagged
    BY <1>8, FlagKeeps DEF NoteRegistryReload
  <2>2. ASSUME NEW r \in Requests, LiveClaim(r), Bound(r) PROVE Bound(r)' \/ row'[r].flagged
    <3>1. row'[r].target = row[r].target /\ row'[r].bind = row[r].bind
      BY <2>1, <2>2 DEF RowsKept, RowKept, LiveClaim
    <3>2. row[r].target \in Macs
      BY <2>2, Targets DEF LiveClaim, TargetOf
    <3>3. CASE row[r].target = m
      <4>1. row[r].bind # b => r \in rs
        BY <2>2, <3>3
      <4>2. binding'[m] = b
        BY <1>8 DEF NoteRegistryReload, RepairTypeOK
      <4> QED BY <2>1, <3>1, <3>3, <4>1, <4>2 DEF Bound, TargetOf
    <3>4. CASE row[r].target # m
      <4>1. binding'[row[r].target] = binding[row[r].target]
        BY <1>8, <3>2, <3>4 DEF NoteRegistryReload, RepairTypeOK
      <4> QED BY <2>2, <3>1, <4>1 DEF Bound, TargetOf
    <3> QED BY <3>3, <3>4
  <2> QED BY <1>8, <2>1, <2>2 DEF NoteRegistryReload, Bookkeeping, executorVars
<1>9. ASSUME Untouched PROVE Bookkeeping
  BY <1>1, <1>9 DEF Untouched, executorVars, rest, Bookkeeping, Bound, TargetOf
<1> QED BY <1>2, <1>3, <1>4, <1>5, <1>6, <1>7, <1>8, <1>9 DEF CapabilityMissing, PreissuanceFailure

-----------------------------------------------------------------------------
(* Terminal evidence of a request that has left its Agent is adopted. *)
Adoption(r) ==
    /\ ~Underway(r) /\ row[r].ticket # "none" /\ row[r].state # "absent"
    /\ \A q \in Requests \ {r} : row'[q] = row[q]
    /\ Same(row'[r], row[r]) /\ row'[r].state \in {"complete", "retryable", "needs_review"}
    /\ row'[r].ticket # "none" /\ (row'[r].ticket = "redeemed" <=> row[r].ticket = "redeemed")
    /\ UNCHANGED << journal, settings, agent, callback, wire, site, binding >>
    /\ probe' = probe \/ probe' = NoProbe
    /\ dispatcher' = dispatcher \/ dispatcher'.pc = "idle"

LEMMA AdoptionKeeps == ASSUME RepairInv, NEW r \in Requests, Adoption(r), RepairTypeOK' PROVE RepairInv'
<1> USE Constants
<1>1. \A q \in Requests : /\ row'[q].ticket = "none" <=> row[q].ticket = "none"
                          /\ row'[q].target = row[q].target /\ row'[q].site = row[q].site
                          /\ row'[q].bind = row[q].bind /\ row'[q].flagged = row[q].flagged
  BY DEF Adoption, Same
<1>2. RowsInOrder'
  <2>1. row[r].target # Nobody
    BY DEF Adoption, RepairInv, RowsInOrder, Blank
  <2>2. /\ row'[r].target # Nobody /\ row'[r].ticket # "none"
        /\ row'[r].state \in {"complete", "retryable", "needs_review"}
    BY <2>1 DEF Adoption, Same
  <2>3. \A q \in Requests \ {r} : row'[q] = row[q]
    BY DEF Adoption
  <2> QED BY <2>2, <2>3 DEF RepairInv, RowsInOrder, Live
<1>3. HandlersInOrder' /\ JournalsInOrder'
  <2>1. UNCHANGED << journal, agent, callback, wire >>
    BY DEF Adoption
  <2>2. HandlersInOrder'
    BY <1>1, <2>1 DEF RepairInv, HandlersInOrder, Writing
  <2>3. JournalsInOrder'
    BY <1>1, <2>1 DEF RepairInv, JournalsInOrder, TargetOf
  <2> QED BY <2>2, <2>3
<1>4. Unissued'
  BY <1>1 DEF Adoption, RepairInv, Unissued, Underway, AtAgent, NoProbe
<1>5. EvidenceIsFinal'
  BY DEF Adoption, RepairInv, EvidenceIsFinal, Underway, AtAgent
<1>6. ClaimsInOrder'
  <2>1. ~LiveClaim(r)' /\ \A q \in Requests \ {r} : LiveClaim(q)' <=> LiveClaim(q)
    BY DEF Adoption, LiveClaim, Live
  <2>2. callback[r] # "granted"
    BY DEF Adoption, RepairInv, ClaimsInOrder, Underway
  <2>3. UNCHANGED << agent, callback, site, binding >>
    BY DEF Adoption
  <2>4. ASSUME NEW q \in Requests, callback'[q] = "granted" PROVE LiveClaim(q)' /\ \E m \in Macs : AtAgent(m, q)'
    <3>1. LiveClaim(q) /\ \E m \in Macs : AtAgent(m, q)
      BY <2>3, <2>4 DEF RepairInv, ClaimsInOrder
    <3> QED BY <2>1, <2>2, <2>3, <2>4, <3>1 DEF AtAgent
  <2>5. ASSUME NEW q \in Requests, LiveClaim(q)' PROVE row'[q].site = site' /\ (Bound(q)' \/ row'[q].flagged)
    <3>1. LiveClaim(q)
      BY <2>1, <2>5
    <3>2. row[q].site = site /\ (Bound(q) \/ row[q].flagged)
      BY <3>1 DEF RepairInv, ClaimsInOrder
    <3> QED BY <1>1, <2>3, <3>2 DEF Bound, TargetOf
  <2> QED BY <2>4, <2>5 DEF ClaimsInOrder
<1> QED BY <1>2, <1>3, <1>4, <1>5, <1>6 DEF RepairInv

LEMMA AdoptedIs ==
  ASSUME RepairInv, NEW r \in Requests, NEW rows \in [Requests -> Rows], NEW word \in Terminal,
         \A q \in Requests \ {r} : rows[q] = row[q],
         Same(rows[r], row[r]), rows[r].ticket = row[r].ticket, row[r].state \in Parkable, row' = AdoptedRow(rows, r, word)
  PROVE  /\ row[r].ticket # "none" /\ row[r].state # "absent"
         /\ \A q \in Requests \ {r} : row'[q] = row[q]
         /\ Same(row'[r], row[r]) /\ row'[r].state \in {"complete", "retryable", "needs_review"}
         /\ row'[r].ticket # "none" /\ (row'[r].ticket = "redeemed" <=> row[r].ticket = "redeemed")
<1> DEFINE w == [rows[r] EXCEPT !.state = IF word = "never_applied" THEN "retryable" ELSE word,
                                !.ticket = Closed(rows[r].ticket), !.slot = FALSE]
<1>1. row[r].ticket # "none" /\ row[r].state # "absent"
  BY DEF RepairInv, RowsInOrder, Parkable, Live
<1>2. rows[r] \in Rows
  OBVIOUS
<1>3. Same(w, rows[r]) /\ w.ticket = Closed(rows[r].ticket) /\ w.state = IF word = "never_applied" THEN "retryable" ELSE word
  BY <1>2 DEF Rows, Same
<1> HIDE DEF w
<1>4. row' = [rows EXCEPT ![r] = w]
  BY DEF AdoptedRow, w
<1>5. row'[r] = w /\ \A q \in Requests \ {r} : row'[q] = row[q]
  BY <1>4
<1> QED BY <1>1, <1>3, <1>5 DEF Same, Closed, Terminal

LEMMA AdoptStatusIs == ASSUME RepairInv, AdoptStatus PROVE Bookkeeping \/ \E r \in Requests : Adoption(r)
<1>1. probe.req \in Requests /\ probe.word \in Terminal /\ ~Underway(probe.req)
  BY DEF AdoptStatus, RepairInv, RepairTypeOK, EvidenceIsFinal
<1>2. CASE Adopts(probe.req, probe.word)
  <2>1. row' = AdoptedRow(row, probe.req, probe.word) /\ row[probe.req].state \in Parkable
    BY <1>2 DEF AdoptStatus, Adopts, Adoptable
  <2>2. row \in [Requests -> Rows] /\ Same(row[probe.req], row[probe.req])
    BY DEF RepairInv, RepairTypeOK, Same
  <2> QED BY <1>1, <2>1, <2>2, AdoptedIs DEF AdoptStatus, Adoption, executorVars
<1>3. CASE ~Adopts(probe.req, probe.word)
  <2>1. row' = row
    BY <1>3 DEF AdoptStatus
  <2>2. RowsKept
    BY <2>1, StillThere DEF RowsKept, RepairInv
  <2> QED BY <2>1, <2>2 DEF AdoptStatus, Bookkeeping, executorVars, Bound, TargetOf
<1> QED BY <1>2, <1>3

LEMMA AnsweredIs == ASSUME RepairInv, DispatchAnswered PROVE Bookkeeping \/ \E r \in Requests : Adoption(r)
<1> DEFINE r == dispatcher.req
           word == dispatcher.word
           marked == [row EXCEPT ![r] = [row[r] EXCEPT !.state = "dispatched"]]
           adopted == Dispatchable(r) /\ Adopts(r, word)
<1>1. r \in Requests /\ row[r] \in Rows /\ row[r].ticket # "none" /\ row \in [Requests -> Rows]
  BY DEF DispatchAnswered, RepairInv, RepairTypeOK, Unissued
<1>2. dispatcher' = Idle \/ (dispatcher'.pc = "parking" /\ dispatcher'.req = r)
  <2>1. dispatcher' = Idle \/ dispatcher' = [dispatcher EXCEPT !.pc = "parking"]
    BY DEF DispatchAnswered
  <2>2. dispatcher \in Dispatchers
    BY DEF RepairInv, RepairTypeOK
  <2> QED BY <2>1, <2>2 DEF Dispatchers
<1>3. CASE adopted
  <2>1. word \in Terminal /\ row[r].state \in Parkable /\ ~Underway(r)
    BY <1>1, <1>3 DEF Adopts, Adoptable, RepairInv, EvidenceIsFinal, DispatchAnswered
  <2>2. marked \in [Requests -> Rows] /\ marked[r] = [row[r] EXCEPT !.state = "dispatched"]
        /\ \A q \in Requests \ {r} : marked[q] = row[q]
    BY <1>1, RowOf, InStates
  <2>3. Same(marked[r], row[r]) /\ marked[r].ticket = row[r].ticket
    BY <1>1, <2>2 DEF Same, Rows
  <2>4. row' = AdoptedRow(marked, r, word) /\ dispatcher' = Idle
    BY <1>3 DEF DispatchAnswered
  <2>5. UNCHANGED << executorVars, probe, wire, late, site, binding >>
    BY DEF DispatchAnswered
  <2> HIDE DEF marked, r, word
  <2>6. /\ row[r].ticket # "none" /\ row[r].state # "absent"
        /\ \A q \in Requests \ {r} : row'[q] = row[q]
        /\ Same(row'[r], row[r]) /\ row'[r].state \in {"complete", "retryable", "needs_review"}
        /\ row'[r].ticket # "none" /\ (row'[r].ticket = "redeemed" <=> row[r].ticket = "redeemed")
    BY <1>1, <2>1, <2>2, <2>3, <2>4, AdoptedIs
  <2> QED BY <1>1, <2>1, <2>4, <2>5, <2>6 DEF Adoption, executorVars, Idle
<1>4. CASE ~adopted
  <2>1. RowsKept
    <3>1. CASE Dispatchable(r)
      <4>1. row' = marked
        BY <1>4, <3>1 DEF DispatchAnswered
      <4> QED BY <1>1, <3>1, <4>1, MarkKeeps DEF RepairInv
    <3>2. CASE ~Dispatchable(r)
      <4>1. row' = row
        BY <1>4, <3>2 DEF DispatchAnswered
      <4> QED BY <4>1, StillThere DEF RowsKept, RepairInv
    <3> QED BY <3>1, <3>2
  <2>2. \A q \in Requests : LiveClaim(q) => (Bound(q) => Bound(q)') \/ row'[q].flagged
    BY <2>1 DEF RowsKept, RowKept, LiveClaim, Bound, TargetOf, DispatchAnswered
  <2> QED BY <1>1, <1>2, <2>1, <2>2 DEF DispatchAnswered, Bookkeeping, executorVars, Idle
<1> QED BY <1>3, <1>4

-----------------------------------------------------------------------------
(* A ticket is issued and its dispatch sent. *)
LEMMA IssueKeeps == ASSUME RepairInv, DispatchIssue, RepairTypeOK' PROVE RepairInv'
<1> USE Constants
<1> DEFINE r == dispatcher.req
<1>1. r \in Requests /\ row[r] \in Rows /\ row[r].ticket = "none" /\ row[r].state \in {"queued", "checking"}
  BY DEF DispatchIssue, IssueTicket, RepairInv, RepairTypeOK
<1>2. /\ row'[r].target = row[r].target /\ row'[r].state = "ticket_issued" /\ row'[r].ticket = "issued"
      /\ \A q \in Requests \ {r} : row'[q] = row[q]
  <2> DEFINE w == [row[r] EXCEPT !.state = "ticket_issued", !.ticket = "issued", !.site = site,
                                 !.bind = binding[TargetOf(r)],
                                 !.before = {q \in Requests : row[q].state = "complete"}]
  <2>1. row' = [row EXCEPT ![r] = w] /\ row \in [Requests -> Rows]
    BY DEF DispatchIssue, IssueTicket, RepairInv, RepairTypeOK
  <2>2. w.target = row[r].target /\ w.state = "ticket_issued" /\ w.ticket = "issued"
    BY <1>1 DEF Rows
  <2> HIDE DEF w
  <2> QED BY <1>1, <2>1, <2>2
<1>3. /\ ~Underway(r) /\ probe.req # r /\ callback[r] = "none" /\ \A m \in Macs : journal[m].req # r
  BY <1>1 DEF RepairInv, Unissued
<1>4. wire' = wire \cup {r} /\ UNCHANGED << executorVars, probe, late, site, binding >> /\ dispatcher'.pc = "posted"
      /\ dispatcher'.req = r
  <2>1. wire' = wire \cup {r} /\ UNCHANGED << executorVars, probe, late, site, binding >>
        /\ dispatcher' = [dispatcher EXCEPT !.pc = "posted"]
    BY DEF DispatchIssue
  <2>2. dispatcher \in Dispatchers
    BY DEF RepairInv, RepairTypeOK
  <2> QED BY <2>1, <2>2 DEF Dispatchers
<1> HIDE DEF r
<1>5. RowsInOrder'
  <2>1. row'[r].target # Nobody
    BY <1>1, <1>2 DEF RepairInv, RowsInOrder, Blank
  <2>2. \A q \in Requests \ {r} : row'[q] = row[q]
    BY <1>2
  <2> QED BY <1>2, <2>1, <2>2 DEF RepairInv, RowsInOrder, Live
<1>6. HandlersInOrder'
  <2>1. \A m \in Macs : agent[m].pc # "idle" => agent[m].req \in Requests \ {r}
    BY <1>3 DEF Underway, AtAgent, RepairInv, HandlersInOrder
  <2> QED BY <1>2, <1>4, <2>1 DEF RepairInv, HandlersInOrder, Writing, executorVars
<1>7. JournalsInOrder'
  <2>1. journal' = journal /\ wire' = wire \cup {r}
    BY <1>4 DEF executorVars
  <2>2. \A q \in Requests : row'[q].target = row[q].target
    BY <1>2
  <2>3. SUFFICES ASSUME NEW m \in Macs, journal[m].req # NoRequest
        PROVE journal[m].req \in Requests \ (wire \cup {r}) /\ row'[journal[m].req].target = m
    BY <2>1 DEF JournalsInOrder, TargetOf
  <2>4. journal[m].req \in Requests \ wire /\ row[journal[m].req].target = m
    BY <2>3 DEF RepairInv, JournalsInOrder, TargetOf
  <2> QED BY <1>3, <2>2, <2>4
<1>8. Unissued'
  BY <1>2, <1>3, <1>4 DEF RepairInv, Unissued, Underway, AtAgent, executorVars
<1>9. EvidenceIsFinal'
  BY <1>3, <1>4 DEF RepairInv, EvidenceIsFinal, Underway, AtAgent, executorVars
<1>10. ClaimsInOrder'
  BY <1>2, <1>3, <1>4 DEF RepairInv, ClaimsInOrder, LiveClaim, Live, Bound, TargetOf, AtAgent, executorVars
<1> QED BY <1>5, <1>6, <1>7, <1>8, <1>9, <1>10 DEF RepairInv

-----------------------------------------------------------------------------
(* The callback reaches the Controller. *)
LEMMA CallbackStep ==
  ASSUME RepairInv, NEW r \in Requests, NEW word \in {"granted", "refused"}, callback[r] = "sent",
         Answered(TargetOf(r), r, word)
  PROVE  /\ row[r].ticket # "none" /\ TargetOf(r) \in Macs
         /\ \A m \in Macs : AtAgent(m, r) => m = TargetOf(r) /\ agent[m].pc = "callback"
         /\ callback'[r] = "none" => \A m \in Macs : ~AtAgent(m, r)
         /\ callback'[r] = word => AtAgent(TargetOf(r), r)
         /\ callback'[r] \in {"none", word}
         /\ \A q \in Requests \ {r} : callback'[q] = callback[q]
<1>1. row[r].ticket # "none"
  BY DEF RepairInv, Unissued
<1>2. TargetOf(r) \in Macs
  BY <1>1, Targets DEF RepairInv
<1>3. ASSUME NEW m \in Macs, AtAgent(m, r) PROVE m = TargetOf(r) /\ agent[m] = [pc |-> "callback", req |-> r]
  <2>1. journal[m].req = r /\ agent[m].req = r /\ ~Writing(m) /\ agent[m] \in Handlers /\ agent[m].pc # "idle"
    BY <1>3 DEF AtAgent, RepairInv, HandlersInOrder, RepairTypeOK, ExecutorTypeOK
  <2>2. m = TargetOf(r)
    BY <2>1, Constants DEF RepairInv, JournalsInOrder
  <2> QED BY <2>1, <2>2 DEF Handlers, Writing
<1>4. callback'[r] = (IF agent[TargetOf(r)] = [pc |-> "callback", req |-> r] THEN word ELSE "none")
      /\ \A q \in Requests \ {r} : callback'[q] = callback[q]
  BY DEF Answered, RepairInv, RepairTypeOK, ExecutorTypeOK
<1>5. agent[TargetOf(r)] = [pc |-> "callback", req |-> r] => AtAgent(TargetOf(r), r)
  BY DEF AtAgent
<1> QED BY <1>1, <1>2, <1>3, <1>4, <1>5

LEMMA RedeemKeeps == ASSUME RepairInv, NEW r \in Requests, Redeem(r), RepairTypeOK' PROVE RepairInv'
<1> USE Constants
<1>1. /\ callback[r] = "sent" /\ Answered(TargetOf(r), r, "granted") /\ row[r] \in Rows /\ row[r].ticket = "issued"
      /\ row[r].state \in {"ticket_issued", "dispatched"} /\ row[r].site = site /\ Bound(r)
      /\ UNCHANGED << journal, settings, agent, rest >>
  BY DEF Redeem, Redeemable, RepairInv, RepairTypeOK, Bound
<1>2. row'[r] = [row[r] EXCEPT !.ticket = "redeemed", !.state = "redeemed"] /\ \A q \in Requests \ {r} : row'[q] = row[q]
  BY DEF Redeem, Redeemed, RepairInv, RepairTypeOK
<1>3. Same(row'[r], row[r]) /\ row'[r].state = "redeemed" /\ row'[r].ticket = "redeemed"
  BY <1>1, <1>2 DEF Rows, Same
<1>4. /\ \A m \in Macs : AtAgent(m, r) => m = TargetOf(r) /\ agent[m].pc = "callback"
      /\ callback'[r] = "none" => \A m \in Macs : ~AtAgent(m, r)
      /\ callback'[r] = "granted" => AtAgent(TargetOf(r), r)
      /\ callback'[r] \in {"none", "granted"} /\ TargetOf(r) \in Macs
      /\ \A q \in Requests \ {r} : callback'[q] = callback[q]
  BY <1>1, CallbackStep
<1>5. RowsInOrder'
  <2>1. row'[r].target # Nobody
    BY <1>1, <1>3 DEF RepairInv, RowsInOrder, Blank, Same
  <2>2. \A q \in Requests \ {r} : row'[q] = row[q]
    BY <1>2
  <2>3. row'[r].state = "redeemed" /\ row'[r].ticket = "redeemed"
    BY <1>3
  <2> QED BY <2>1, <2>2, <2>3 DEF RepairInv, RowsInOrder, Live
<1>6. HandlersInOrder'
  <2>1. ASSUME NEW m \in Macs, agent[m].pc # "idle"
        PROVE  /\ agent[m].req \in Requests /\ row'[agent[m].req].site = row[agent[m].req].site
               /\ callback'[agent[m].req] # "none"
               /\ Writing(m) => callback'[agent[m].req] = "granted"
    <3>1. agent[m].req \in Requests /\ AtAgent(m, agent[m].req) /\ callback[agent[m].req] # "none"
          /\ (Writing(m) => callback[agent[m].req] = "granted")
      BY <2>1 DEF RepairInv, HandlersInOrder, AtAgent
    <3>2. CASE agent[m].req = r
      BY <1>1, <1>3, <1>4, <3>1, <3>2 DEF Same
    <3>3. CASE agent[m].req # r
      BY <1>2, <1>4, <3>1, <3>3
    <3> QED BY <3>2, <3>3
  <2> QED BY <1>1, <2>1 DEF RepairInv, HandlersInOrder, Writing
<1>7. JournalsInOrder'
  BY <1>1, <1>2, <1>3 DEF RepairInv, JournalsInOrder, TargetOf, Same, rest
<1>8. Unissued'
  <2>1. ASSUME NEW q \in Requests, row'[q].ticket = "none" PROVE row[q].ticket = "none" /\ callback'[q] = callback[q]
    BY <1>2, <1>3, <1>4, <2>1
  <2> QED BY <1>1, <2>1 DEF RepairInv, Unissued, Underway, AtAgent, rest
<1>9. EvidenceIsFinal'
  BY <1>1 DEF RepairInv, EvidenceIsFinal, Underway, AtAgent, rest
<1>10. ClaimsInOrder'
  <2>1. LiveClaim(r)' /\ row'[r].site = site' /\ Bound(r)'
    BY <1>1, <1>3 DEF LiveClaim, Live, Same, Bound, TargetOf, rest
  <2>2. ASSUME NEW q \in Requests \ {r}
        PROVE  /\ callback'[q] = callback[q] /\ (LiveClaim(q)' <=> LiveClaim(q)) /\ (Bound(q)' <=> Bound(q))
               /\ row'[q] = row[q]
    BY <1>1, <1>2, <1>4 DEF LiveClaim, Bound, TargetOf, rest
  <2>3. callback'[r] = "granted" => \E m \in Macs : AtAgent(m, r)'
    BY <1>1, <1>4 DEF AtAgent
  <2>4. ASSUME NEW q \in Requests \ {r}, callback'[q] = "granted" PROVE LiveClaim(q)' /\ \E m \in Macs : AtAgent(m, q)'
    BY <1>1, <2>2, <2>4 DEF RepairInv, ClaimsInOrder, AtAgent
  <2>5. ASSUME NEW q \in Requests \ {r}, LiveClaim(q)' PROVE row'[q].site = site' /\ (Bound(q)' \/ row'[q].flagged)
    BY <1>1, <2>2, <2>5 DEF RepairInv, ClaimsInOrder, rest
  <2> QED BY <2>1, <2>3, <2>4, <2>5 DEF ClaimsInOrder
<1> QED BY <1>5, <1>6, <1>7, <1>8, <1>9, <1>10 DEF RepairInv

LEMMA RefuseKeeps ==
  ASSUME RepairInv, NEW r \in Requests, RedeemLate(r) \/ RedeemRefused(r), RepairTypeOK' PROVE RepairInv'
<1> USE Constants
<1>1. callback[r] = "sent" /\ Answered(TargetOf(r), r, "refused") /\ UNCHANGED << journal, settings, agent, rest >>
  BY DEF RedeemLate, RedeemRefused
<1>2. RowsKept
  BY ExpireKeeps, StillThere DEF RedeemLate, RedeemRefused, RepairInv, RowsKept
<1>3. /\ row[r].ticket # "none"
      /\ \A m \in Macs : AtAgent(m, r) => m = TargetOf(r) /\ agent[m].pc = "callback"
      /\ callback'[r] = "none" => \A m \in Macs : ~AtAgent(m, r)
      /\ callback'[r] \in {"none", "refused"}
      /\ \A q \in Requests \ {r} : callback'[q] = callback[q]
  BY <1>1, CallbackStep
<1>4. \A q \in Requests : RowKept(q) /\ RowOrdered(q)
  BY <1>2 DEF RowsKept
<1>5. \A q \in Requests : row[q].ticket # "none" => row'[q].target = row[q].target /\ row'[q].site = row[q].site
                                                    /\ row'[q].bind = row[q].bind /\ row'[q].ticket # "none"
  BY <1>4 DEF RowKept
<1>6. RowsInOrder'
  BY <1>4 DEF RowOrdered, RowsInOrder
<1>7. ASSUME NEW m \in Macs, agent[m].pc # "idle" PROVE row[agent[m].req].ticket # "none" /\ agent[m].req \in Requests
  BY <1>7 DEF RepairInv, HandlersInOrder, Unissued, Underway, AtAgent
<1>8. HandlersInOrder'
  <2>1. ASSUME NEW m \in Macs, agent[m].pc # "idle"
        PROVE  /\ agent[m].req \in Requests /\ row'[agent[m].req].site = row[agent[m].req].site
               /\ callback'[agent[m].req] # "none"
               /\ Writing(m) => callback'[agent[m].req] = "granted"
    <3>1. agent[m].req \in Requests /\ AtAgent(m, agent[m].req) /\ callback[agent[m].req] # "none"
          /\ (Writing(m) => callback[agent[m].req] = "granted")
      BY <2>1 DEF RepairInv, HandlersInOrder, AtAgent
    <3>2. CASE agent[m].req = r
      BY <1>1, <1>3, <1>5, <3>1, <3>2
    <3>3. CASE agent[m].req # r
      BY <1>3, <1>5, <1>7, <2>1, <3>1, <3>3
    <3> QED BY <3>2, <3>3
  <2> QED BY <1>1, <2>1 DEF RepairInv, HandlersInOrder, Writing
<1>9. JournalsInOrder'
  <2>1. \A m \in Macs : journal[m].req # NoRequest => row[journal[m].req].ticket # "none"
    BY DEF RepairInv, JournalsInOrder, Unissued
  <2> QED BY <1>1, <1>5, <2>1 DEF RepairInv, JournalsInOrder, TargetOf, rest
<1>10. Unissued'
  BY <1>1, <1>3, <1>4 DEF RepairInv, Unissued, Underway, AtAgent, rest, RowKept
<1>11. EvidenceIsFinal'
  BY <1>1 DEF RepairInv, EvidenceIsFinal, Underway, AtAgent, rest
<1>12. ClaimsInOrder'
  <2>1. ASSUME NEW q \in Requests, callback'[q] = "granted" PROVE LiveClaim(q)' /\ \E m \in Macs : AtAgent(m, q)'
    BY <1>1, <1>3, <1>4, <2>1 DEF RepairInv, ClaimsInOrder, RowKept, AtAgent
  <2>2. ASSUME NEW q \in Requests, LiveClaim(q)' PROVE row'[q].site = site' /\ (Bound(q)' \/ row'[q].flagged)
    <3>1. LiveClaim(q) /\ row[q].ticket # "none"
      BY <1>4, <2>2 DEF RowKept, LiveClaim
    <3> QED BY <1>1, <1>4, <1>5, <3>1 DEF RepairInv, ClaimsInOrder, RowKept, Bound, TargetOf, rest
  <2> QED BY <2>1, <2>2 DEF ClaimsInOrder
<1> QED BY <1>6, <1>8, <1>9, <1>10, <1>11, <1>12 DEF RepairInv

-----------------------------------------------------------------------------
(* Steps of the executors and of the wire: no row changes. *)
LEMMA SameRows ==
  ASSUME RepairInv, UNCHANGED row
  PROVE  /\ RowsInOrder'
         /\ \A r \in Requests : (LiveClaim(r)' <=> LiveClaim(r)) /\ TargetOf(r)' = TargetOf(r)
  BY DEF RepairInv, RowsInOrder, LiveClaim, TargetOf

LEMMA AtOne ==
  ASSUME RepairInv, NEW m \in Macs, agent[m].pc # "idle"
  PROVE  /\ agent[m].req \in Requests /\ agent[m].req \notin wire /\ TargetOf(agent[m].req) = m
         /\ AtAgent(m, agent[m].req) /\ Underway(agent[m].req) /\ journal[m].req = agent[m].req
         /\ \A n \in Macs : AtAgent(n, agent[m].req) => n = m
  BY Constants DEF RepairInv, HandlersInOrder, JournalsInOrder, AtAgent, Underway

LEMMA StatusKeeps == ASSUME RepairInv, NEW r \in Requests, ProbeStatus(r), RepairTypeOK' PROVE RepairInv'
<1> USE Constants
<1> DEFINE m == TargetOf(r)
<1>1. m \in Macs
  BY Targets DEF ProbeStatus, RepairInv
<1>2. /\ journal[m].req = r /\ StatusJournal(m, late).state \in Terminal /\ probe'.req = r
      /\ UNCHANGED << row, settings, agent, callback, dispatcher, wire, late, site, binding >>
  BY DEF ProbeStatus, StatusWord, Terminal
<1>3. /\ \A n \in Macs \ {m} : journal'[n] = journal[n]
      /\ journal'[m].req = journal[m].req /\ journal'[m].site = journal[m].site
      /\ agent[m].pc # "idle" => journal'[m] = journal[m]
  <2>1. journal' = [journal EXCEPT ![m] = StatusJournal(m, late)] /\ journal \in [Macs -> Journals]
    BY DEF ProbeStatus, RepairInv, RepairTypeOK, ExecutorTypeOK
  <2>2. StatusJournal(m, late).req = journal[m].req /\ StatusJournal(m, late).site = journal[m].site
        /\ (agent[m].pc # "idle" => StatusJournal(m, late) = journal[m])
    BY <1>1, <2>1 DEF StatusJournal, Expire, Journals
  <2> QED BY <1>1, <2>1, <2>2
<1>4. agent[m].pc = "idle"
  <2> SUFFICES ASSUME agent[m].pc # "idle" PROVE FALSE
    OBVIOUS
  <2>1. journal[m].state \in Terminal
    BY <1>2 DEF StatusJournal
  <2> QED BY <1>1, <2>1 DEF RepairInv, HandlersInOrder, Terminal
<1>5. ~Underway(r) /\ row[r].ticket # "none"
  <2>1. \A n \in Macs : ~AtAgent(n, r)
    BY <1>1, <1>4, AtOne DEF AtAgent
  <2> QED BY <1>1, <1>2, <2>1 DEF RepairInv, JournalsInOrder, Underway, Unissued
<1> HIDE DEF m
<1>6. RowsInOrder' /\ \A q \in Requests : (LiveClaim(q)' <=> LiveClaim(q)) /\ TargetOf(q)' = TargetOf(q)
  BY <1>2, SameRows
<1>7. HandlersInOrder'
  BY <1>1, <1>2, <1>3, <1>4 DEF RepairInv, HandlersInOrder, Writing
<1>8. JournalsInOrder'
  BY <1>1, <1>2, <1>3, <1>6 DEF RepairInv, JournalsInOrder
<1>9. Unissued'
  BY <1>1, <1>2, <1>3, <1>5 DEF RepairInv, Unissued, Underway, AtAgent
<1>10. EvidenceIsFinal'
  BY <1>2, <1>5 DEF RepairInv, EvidenceIsFinal, Underway, AtAgent
<1>11. ClaimsInOrder'
  BY <1>2, <1>6 DEF RepairInv, ClaimsInOrder, Bound, AtAgent
<1> QED BY <1>6, <1>7, <1>8, <1>9, <1>10, <1>11 DEF RepairInv

LEMMA OutsideKeeps ==
  ASSUME RepairInv, RepairTypeOK',
         \/ \E r \in Requests : LoseDispatch(r)
         \/ \E m \in Macs : Edits(m)
  PROVE  RepairInv'
<1> USE Constants
<1>1. /\ wire' \subseteq wire /\ UNCHANGED << row, journal, agent, callback, dispatcher, probe, late, site, binding >>
  BY DEF LoseDispatch, Edits, OwnerEdits, executorVars, rest
<1>2. RowsInOrder' /\ \A q \in Requests : (LiveClaim(q)' <=> LiveClaim(q)) /\ TargetOf(q)' = TargetOf(q)
  BY <1>1, SameRows
<1>3. \A q : Underway(q)' => Underway(q)
  BY <1>1 DEF Underway, AtAgent
<1>4. HandlersInOrder' /\ JournalsInOrder'
  BY <1>1, <1>2 DEF RepairInv, HandlersInOrder, JournalsInOrder, Writing
<1>5. Unissued' /\ EvidenceIsFinal'
  BY <1>1, <1>3 DEF RepairInv, Unissued, EvidenceIsFinal
<1>6. ClaimsInOrder'
  BY <1>1, <1>2 DEF RepairInv, ClaimsInOrder, Bound, AtAgent
<1> QED BY <1>2, <1>4, <1>5, <1>6 DEF RepairInv

LEMMA IdentityKeeps == ASSUME RepairInv, RepairTypeOK', ChangeIdentity PROVE RepairInv' /\ \A r \in Requests : ~LiveClaim(r)
<1> USE Constants
<1>1. UNCHANGED << row, journal, agent, callback, dispatcher, probe, wire, late, binding >>
  BY DEF ChangeIdentity, executorVars
<1>2. RowsInOrder' /\ \A q \in Requests : (LiveClaim(q)' <=> LiveClaim(q)) /\ TargetOf(q)' = TargetOf(q)
  BY <1>1, SameRows
<1>3. \A r \in Requests : ~LiveClaim(r)
  BY DEF ChangeIdentity, Blocked, LiveClaim
<1>4. HandlersInOrder' /\ JournalsInOrder' /\ Unissued' /\ EvidenceIsFinal'
  <2>1. HandlersInOrder' /\ JournalsInOrder'
    BY <1>1, <1>2 DEF RepairInv, HandlersInOrder, JournalsInOrder, Writing
  <2>2. Unissued'
    BY <1>1 DEF RepairInv, Unissued, Underway, AtAgent
  <2>3. EvidenceIsFinal'
    BY <1>1 DEF RepairInv, EvidenceIsFinal, Underway, AtAgent
  <2> QED BY <2>1, <2>2, <2>3
<1>5. ClaimsInOrder'
  BY <1>1, <1>2, <1>3 DEF RepairInv, ClaimsInOrder
<1> QED BY <1>2, <1>3, <1>4, <1>5 DEF RepairInv

(* A handler ends: by itself, with an answer, or with its process. *)
HandlerOver(m) ==
    /\ agent' = [agent EXCEPT ![m] = AtRest]
    /\ \A n \in Macs \ {m} : journal'[n] = journal[n]
    /\ journal'[m].req = journal[m].req /\ journal'[m].site = journal[m].site
    /\ \A q \in Requests : q # agent[m].req => callback'[q] = callback[q]
    /\ agent[m].req \in Requests => callback'[agent[m].req] = Unread(callback[agent[m].req])
    /\ UNCHANGED << row, probe, wire, late, site, binding >>
    /\ dispatcher' = dispatcher \/ (agent[m].pc # "idle" /\ dispatcher.req = agent[m].req
                                    /\ dispatcher'.pc = "answered" /\ dispatcher'.req = agent[m].req)

LEMMA OverKeeps == ASSUME RepairInv, NEW m \in Macs, HandlerOver(m), RepairTypeOK' PROVE RepairInv'
<1> USE Constants
<1>1. RowsInOrder' /\ \A q \in Requests : (LiveClaim(q)' <=> LiveClaim(q)) /\ TargetOf(q)' = TargetOf(q)
  BY SameRows DEF HandlerOver
<1>2. agent'[m] = AtRest /\ \A n \in Macs \ {m} : agent'[n] = agent[n]
  BY DEF HandlerOver, RepairInv, RepairTypeOK, ExecutorTypeOK
<1>3. AtRest.pc = "idle"
  BY DEF AtRest
<1>4. \A n \in Macs \ {m} : agent[n].pc # "idle" => agent[n].req \in Requests /\ agent[n].req # agent[m].req
  <2>1. ASSUME NEW n \in Macs \ {m}, agent[n].pc # "idle", agent[n].req = agent[m].req PROVE FALSE
    <3>1. agent[m].pc # "idle"
      BY <2>1, AtOne DEF RepairInv, HandlersInOrder, AtRest
    <3>2. AtAgent(n, agent[m].req)
      BY <2>1 DEF AtAgent
    <3> QED BY <3>1, <3>2, AtOne
  <2> QED BY <2>1, AtOne
<1>5. \A q : Underway(q)' => Underway(q)
  BY <1>2, <1>3 DEF Underway, AtAgent, HandlerOver
<1>6. ASSUME NEW q, agent[m].pc # "idle", q = agent[m].req PROVE ~Underway(q)'
  BY <1>2, <1>3, <1>6, AtOne DEF Underway, AtAgent, HandlerOver
<1>7. HandlersInOrder'
  <2>1. ASSUME NEW n \in Macs \ {m}, agent[n].pc # "idle"
        PROVE  /\ agent'[n] = agent[n] /\ journal'[n] = journal[n] /\ callback'[agent[n].req] = callback[agent[n].req]
    BY <1>2, <1>4, <2>1 DEF HandlerOver
  <2>2. UNCHANGED row
    BY DEF HandlerOver
  <2>3. ASSUME NEW n \in Macs
        PROVE  IF agent'[n].pc = "idle" THEN agent'[n] = AtRest
               ELSE /\ agent'[n].req \in Requests /\ journal'[n].req = agent'[n].req
                    /\ journal'[n].state = IF Writing(n)' THEN "applying" ELSE "redemption_attempted"
                    /\ journal'[n].site = row'[agent'[n].req].site
                    /\ callback'[agent'[n].req] # "none"
                    /\ Writing(n)' => callback'[agent'[n].req] = "granted"
    <3>1. CASE n = m
      BY <1>2, <1>3, <3>1
    <3>2. CASE n # m /\ agent[n].pc = "idle"
      BY <1>2, <3>2 DEF RepairInv, HandlersInOrder
    <3>3. CASE n # m /\ agent[n].pc # "idle"
      BY <2>1, <2>2, <3>3 DEF RepairInv, HandlersInOrder, Writing
    <3> QED BY <3>1, <3>2, <3>3
  <2> QED BY <2>3 DEF HandlersInOrder
<1>8. JournalsInOrder'
  <2>1. wire' = wire /\ \A n \in Macs : journal'[n].req = journal[n].req
    BY DEF HandlerOver
  <2> QED BY <1>1, <2>1 DEF RepairInv, JournalsInOrder
<1>9. Unissued'
  <2>1. ASSUME NEW q \in Requests, row'[q].ticket = "none"
        PROVE  /\ ~Underway(q)' /\ probe'.req # q /\ callback'[q] = "none"
               /\ \A n \in Macs : journal'[n].req # q
               /\ dispatcher'.req = q => dispatcher'.pc \in {"idle", "checking"}
    <3>1. /\ ~Underway(q) /\ probe.req # q /\ callback[q] = "none" /\ \A n \in Macs : journal[n].req # q
          /\ dispatcher.req = q => dispatcher.pc \in {"idle", "checking"}
      BY <2>1 DEF HandlerOver, RepairInv, Unissued
    <3>2. callback'[q] = "none"
      BY <3>1 DEF HandlerOver, Unread
    <3>3. dispatcher'.req = q => dispatcher'.pc \in {"idle", "checking"}
      BY <3>1, AtOne DEF HandlerOver
    <3> QED BY <1>5, <3>1, <3>2, <3>3 DEF HandlerOver
  <2> QED BY <2>1 DEF Unissued
<1>10. EvidenceIsFinal'
  <2>1. probe' # NoProbe => ~(\E q \in {probe'.req} : Underway(q)')
    BY <1>5 DEF HandlerOver, RepairInv, EvidenceIsFinal
  <2>2. dispatcher'.pc = "answered" /\ dispatcher'.word \in Terminal => ~(\E q \in {dispatcher'.req} : Underway(q)')
    <3>1. CASE dispatcher' = dispatcher
      BY <1>5, <3>1 DEF RepairInv, EvidenceIsFinal
    <3>2. CASE agent[m].pc # "idle" /\ dispatcher'.req = agent[m].req
      BY <1>6, <3>2
    <3> QED BY <3>1, <3>2 DEF HandlerOver
  <2> QED BY <2>1, <2>2 DEF EvidenceIsFinal
<1>11. ClaimsInOrder'
  <2>1. ASSUME NEW q \in Requests, callback'[q] = "granted" PROVE LiveClaim(q)' /\ \E n \in Macs : AtAgent(n, q)'
    <3>1. q # agent[m].req /\ callback[q] = "granted"
      BY <2>1 DEF HandlerOver, Unread
    <3>2. LiveClaim(q) /\ \E n \in Macs : AtAgent(n, q)
      BY <3>1 DEF RepairInv, ClaimsInOrder
    <3> QED BY <1>1, <1>2, <3>1, <3>2 DEF AtAgent
  <2> QED BY <1>1, <2>1 DEF HandlerOver, RepairInv, ClaimsInOrder, Bound
<1> QED BY <1>1, <1>7, <1>8, <1>9, <1>10, <1>11 DEF RepairInv

LEMMA EndedIsOver == ASSUME RepairInv, NEW m \in Macs, Ended(m) PROVE HandlerOver(m)
<1>1. PICK word \in Words : Ends(m, word) /\ Reply(agent[m].req, word)
  BY DEF Ended
<1>2. journal[m] \in Journals /\ journal \in [Macs -> Journals] /\ dispatcher \in Dispatchers
  BY DEF RepairInv, RepairTypeOK, ExecutorTypeOK
<1> DEFINE j == [journal[m] EXCEPT !.state = word, !.staged = FALSE]
<1>3. j.req = journal[m].req /\ j.site = journal[m].site
  BY <1>2 DEF Journals
<1>4. journal' = [journal EXCEPT ![m] = j] /\ agent' = [agent EXCEPT ![m] = AtRest]
      /\ callback' = [callback EXCEPT ![agent[m].req] = Unread(callback[agent[m].req])]
  BY <1>1 DEF Ends
<1> HIDE DEF j
<1>5. journal'[m] = j /\ \A n \in Macs \ {m} : journal'[n] = journal[n]
  BY <1>2, <1>4
<1>6. /\ \A q \in Requests : q # agent[m].req => callback'[q] = callback[q]
      /\ agent[m].req \in Requests => callback'[agent[m].req] = Unread(callback[agent[m].req])
  BY <1>4 DEF RepairInv, RepairTypeOK, ExecutorTypeOK
<1>7. dispatcher' = dispatcher \/ (agent[m].pc # "idle" /\ dispatcher.req = agent[m].req
                                  /\ dispatcher'.pc = "answered" /\ dispatcher'.req = agent[m].req)
  BY <1>1 DEF Reply, Ended
<1> QED BY <1>3, <1>4, <1>5, <1>6, <1>7 DEF HandlerOver, Ended

LEMMA RestartIsOver == ASSUME RepairInv, NEW m \in Macs, Restarts(m) PROVE HandlerOver(m)
<1>1. journal[m] \in Journals /\ journal \in [Macs -> Journals]
  BY DEF RepairInv, RepairTypeOK, ExecutorTypeOK
<1> DEFINE c == [journal[m] EXCEPT !.state = Classified(m), !.staged = FALSE]
           j == Expire(c, late)
<1>2. c \in Journals /\ c.req = journal[m].req /\ c.site = journal[m].site
  BY <1>1, ClassifiedWord, JournalOf DEF Journals, RepairInv
<1>3. j.req = journal[m].req /\ j.site = journal[m].site
  <2> HIDE DEF c
  <2> QED BY <1>2 DEF Expire, Journals
<1>4. journal' = [journal EXCEPT ![m] = j] /\ agent' = [agent EXCEPT ![m] = AtRest]
      /\ callback' = [r \in Requests |-> IF r = agent[m].req THEN Unread(callback[r]) ELSE callback[r]]
      /\ UNCHANGED << row, rest >>
  BY DEF Restarts, AgentRestart
<1> HIDE DEF j
<1> QED BY <1>1, <1>3, <1>4 DEF HandlerOver, rest

(* A dispatch reaches its Mac. *)
LEMMA ArrivedFacts ==
  ASSUME RepairInv, NEW r \in Requests, Arrives(r)
  PROVE  /\ row[r].ticket # "none" /\ TargetOf(r) \in Macs /\ agent[TargetOf(r)].pc = "idle"
         /\ r \in wire /\ wire' = wire \ {r} /\ Underway(r) /\ probe.req # r
         /\ \A m \in Macs : ~AtAgent(m, r) /\ journal[m].req # r
<1>1. row[r].ticket # "none" /\ r \in wire /\ Underway(r)
  BY DEF Arrives, RepairInv, Unissued, Underway
<1>2. TargetOf(r) \in Macs
  BY <1>1, Targets DEF RepairInv
<1>3. \A m \in Macs : ~AtAgent(m, r) /\ journal[m].req # r
  BY <1>1, Constants, AtOne DEF RepairInv, JournalsInOrder, AtAgent
<1>4. probe.req # r
  BY <1>1, Constants DEF RepairInv, EvidenceIsFinal, NoProbe
<1> QED BY <1>1, <1>2, <1>3, <1>4 DEF Arrives

LEMMA RefusedKeeps ==
  ASSUME RepairInv, NEW r \in Requests, ApplyTooLate(r) \/ ApplyRefused(r), RepairTypeOK' PROVE RepairInv'
<1> USE Constants
<1>1. /\ Arrives(r) /\ journal' = Expired(TargetOf(r)) /\ UNCHANGED << row, settings, agent, callback, probe, late, site, binding >>
      /\ \E word \in {"never_applied", "needs_review"} : Reply(r, word)
  BY DEF ApplyTooLate, ApplyRefused
<1>2. /\ row[r].ticket # "none" /\ TargetOf(r) \in Macs /\ agent[TargetOf(r)].pc = "idle"
      /\ r \in wire /\ wire' = wire \ {r}
      /\ \A m \in Macs : ~AtAgent(m, r)
  BY <1>1, ArrivedFacts
<1>3. \A m \in Macs : /\ journal'[m].req = journal[m].req /\ journal'[m].site = journal[m].site
                      /\ agent[m].pc # "idle" => journal'[m] = journal[m]
  <2>1. journal \in [Macs -> Journals] /\ journal' = [journal EXCEPT ![TargetOf(r)] = Expire(journal[TargetOf(r)], late)]
    BY <1>1 DEF Expired, RepairInv, RepairTypeOK, ExecutorTypeOK
  <2>2. Expire(journal[TargetOf(r)], late).req = journal[TargetOf(r)].req
        /\ Expire(journal[TargetOf(r)], late).site = journal[TargetOf(r)].site
    BY <1>2, <2>1 DEF Expire, Journals
  <2> QED BY <1>2, <2>1, <2>2
<1>4. dispatcher' = dispatcher \/ (dispatcher.req = r /\ dispatcher'.req = r)
  BY <1>1 DEF Reply
<1>5. RowsInOrder' /\ \A q \in Requests : (LiveClaim(q)' <=> LiveClaim(q)) /\ TargetOf(q)' = TargetOf(q)
  BY <1>1, SameRows
<1>6. ASSUME NEW q PROVE (Underway(q)' => Underway(q)) /\ (q = r => ~Underway(q)')
  BY <1>1, <1>2 DEF Underway, AtAgent
<1>7. HandlersInOrder'
  BY <1>1, <1>3 DEF RepairInv, HandlersInOrder, Writing
<1>8. JournalsInOrder'
  BY <1>2, <1>3, <1>5 DEF RepairInv, JournalsInOrder
<1>9. Unissued'
  BY <1>1, <1>2, <1>3, <1>4, <1>6 DEF RepairInv, Unissued
<1>10. EvidenceIsFinal'
  <2>1. probe' # NoProbe => ~(\E q \in {probe'.req} : Underway(q)')
    BY <1>1, <1>6 DEF RepairInv, EvidenceIsFinal
  <2>2. dispatcher'.pc = "answered" /\ dispatcher'.word \in Terminal => ~(\E q \in {dispatcher'.req} : Underway(q)')
    BY <1>4, <1>6 DEF RepairInv, EvidenceIsFinal
  <2> QED BY <2>1, <2>2 DEF EvidenceIsFinal
<1>11. ClaimsInOrder'
  BY <1>1, <1>5 DEF RepairInv, ClaimsInOrder, Bound, AtAgent
<1> QED BY <1>5, <1>7, <1>8, <1>9, <1>10, <1>11 DEF RepairInv

LEMMA AttemptKeeps == ASSUME RepairInv, NEW r \in Requests, ApplyAttempt(r), RepairTypeOK' PROVE RepairInv'
<1> USE Constants
<1> DEFINE m == TargetOf(r)
<1>1. /\ Arrives(r) /\ AttemptRedemption(m, r, row[r].site) /\ UNCHANGED << row, dispatcher, probe, late, site, binding >>
  BY DEF ApplyAttempt
<1>2. /\ row[r].ticket # "none" /\ m \in Macs /\ agent[m].pc = "idle" /\ r \in wire /\ wire' = wire \ {r} /\ Underway(r)
      /\ probe.req # r /\ \A n \in Macs : ~AtAgent(n, r) /\ journal[n].req # r
  BY <1>1, ArrivedFacts
<1>3. /\ agent'[m].pc = "callback" /\ agent'[m].req = r /\ \A n \in Macs \ {m} : agent'[n] = agent[n]
      /\ journal'[m].req = r /\ journal'[m].state = "redemption_attempted" /\ journal'[m].site = row[r].site
      /\ \A n \in Macs \ {m} : journal'[n] = journal[n]
      /\ callback'[r] = "sent" /\ \A q \in Requests \ {r} : callback'[q] = callback[q]
  BY <1>1, <1>2 DEF AttemptRedemption, RepairInv, RepairTypeOK, ExecutorTypeOK
<1>4. TargetOf(r) = m
  OBVIOUS
<1> HIDE DEF m
<1>5. RowsInOrder' /\ \A q \in Requests : (LiveClaim(q)' <=> LiveClaim(q)) /\ TargetOf(q)' = TargetOf(q)
  BY <1>1, SameRows
<1>6. ASSUME NEW q PROVE Underway(q)' => Underway(q)
  BY <1>2, <1>3 DEF Underway, AtAgent
<1>7. HandlersInOrder'
  <2>1. ASSUME NEW n \in Macs
        PROVE  IF agent'[n].pc = "idle" THEN agent'[n] = AtRest
               ELSE /\ agent'[n].req \in Requests /\ journal'[n].req = agent'[n].req
                    /\ journal'[n].state = IF Writing(n)' THEN "applying" ELSE "redemption_attempted"
                    /\ journal'[n].site = row'[agent'[n].req].site
                    /\ callback'[agent'[n].req] # "none"
                    /\ Writing(n)' => callback'[agent'[n].req] = "granted"
    <3>1. CASE n = m
      BY <1>1, <1>3, <3>1 DEF Writing
    <3>2. CASE n # m /\ agent[n].pc = "idle"
      BY <1>3, <3>2 DEF RepairInv, HandlersInOrder
    <3>3. CASE n # m /\ agent[n].pc # "idle"
      <4>1. agent[n].req \in Requests \ {r}
        BY <1>2, <3>3, AtOne
      <4> QED BY <1>1, <1>3, <3>3, <4>1 DEF RepairInv, HandlersInOrder, Writing
    <3> QED BY <3>1, <3>2, <3>3
  <2> QED BY <2>1 DEF HandlersInOrder
<1>8. JournalsInOrder'
  BY <1>2, <1>3, <1>4, <1>5 DEF RepairInv, JournalsInOrder
<1>9. Unissued'
  <2>1. ASSUME NEW q \in Requests, row'[q].ticket = "none" PROVE q # r /\ row[q].ticket = "none"
    BY <1>1, <1>2, <2>1
  <2> QED BY <1>1, <1>3, <1>6, <2>1 DEF RepairInv, Unissued
<1>10. EvidenceIsFinal'
  <2>1. probe' # NoProbe => ~(\E q \in {probe'.req} : Underway(q)')
    BY <1>1, <1>6 DEF RepairInv, EvidenceIsFinal
  <2>2. dispatcher'.pc = "answered" /\ dispatcher'.word \in Terminal => ~(\E q \in {dispatcher'.req} : Underway(q)')
    BY <1>1, <1>6 DEF RepairInv, EvidenceIsFinal
  <2> QED BY <2>1, <2>2 DEF EvidenceIsFinal
<1>11. ClaimsInOrder'
  <2>1. ASSUME NEW q \in Requests, callback'[q] = "granted" PROVE LiveClaim(q)' /\ \E n \in Macs : AtAgent(n, q)'
    <3>1. q # r /\ callback[q] = "granted"
      BY <1>3, <2>1
    <3>2. LiveClaim(q) /\ \E n \in Macs : AtAgent(n, q)
      BY <3>1 DEF RepairInv, ClaimsInOrder
    <3> QED BY <1>2, <1>3, <1>5, <3>2 DEF AtAgent
  <2> QED BY <1>1, <1>5, <2>1 DEF RepairInv, ClaimsInOrder, Bound
<1> QED BY <1>5, <1>7, <1>8, <1>9, <1>10, <1>11 DEF RepairInv

LEMMA MovesKeep == ASSUME RepairInv, NEW m \in Macs, ApplyMoves(m), RepairTypeOK' PROVE RepairInv'
<1> USE Constants
<1>1. /\ agent[m].pc # "idle" /\ agent[m] \in Handlers /\ journal[m] \in Journals /\ UNCHANGED << row, rest, callback >>
      /\ journal \in [Macs -> Journals] /\ agent \in [Macs -> Handlers]
  BY DEF ApplyMoves, AcceptClaim, StageSettings, ReplaceSettings, Granted, RepairInv, RepairTypeOK, ExecutorTypeOK
<1>2. agent'[m].pc \in {"staging", "staged", "replaced"} /\ agent'[m].req = agent[m].req
      /\ \A n \in Macs \ {m} : agent'[n] = agent[n]
  BY <1>1 DEF ApplyMoves, AcceptClaim, StageSettings, ReplaceSettings, Handlers
<1>3. /\ journal'[m].req = journal[m].req /\ journal'[m].site = journal[m].site
      /\ journal'[m].state = "applying" /\ \A n \in Macs \ {m} : journal'[n] = journal[n]
  <2>1. CASE AcceptClaim(m)
    BY <1>1, <2>1 DEF AcceptClaim, Journals
  <2>2. CASE StageSettings(m) \/ ReplaceSettings(m)
    <3>1. journal[m].state = "applying"
      BY <1>1, <2>2 DEF StageSettings, ReplaceSettings, RepairInv, HandlersInOrder, Writing
    <3> QED BY <1>1, <2>2, <3>1 DEF StageSettings, ReplaceSettings, Journals
  <2> QED BY <2>1, <2>2 DEF ApplyMoves
<1>4. callback[agent[m].req] = "granted"
  BY DEF ApplyMoves, AcceptClaim, StageSettings, ReplaceSettings, Granted, RepairInv, HandlersInOrder, Writing
<1>5. RowsInOrder' /\ \A q \in Requests : (LiveClaim(q)' <=> LiveClaim(q)) /\ TargetOf(q)' = TargetOf(q)
  BY <1>1, SameRows
<1>6. ASSUME NEW q PROVE (Underway(q)' <=> Underway(q)) /\ \A n \in Macs : AtAgent(n, q)' <=> AtAgent(n, q)
  BY <1>1, <1>2 DEF Underway, AtAgent, rest
<1>7. HandlersInOrder'
  <2>1. ASSUME NEW n \in Macs
        PROVE  IF agent'[n].pc = "idle" THEN agent'[n] = AtRest
               ELSE /\ agent'[n].req \in Requests /\ journal'[n].req = agent'[n].req
                    /\ journal'[n].state = IF Writing(n)' THEN "applying" ELSE "redemption_attempted"
                    /\ journal'[n].site = row'[agent'[n].req].site
                    /\ callback'[agent'[n].req] # "none"
                    /\ Writing(n)' => callback'[agent'[n].req] = "granted"
    <3>1. CASE n = m
      BY <1>1, <1>2, <1>3, <1>4, <3>1 DEF RepairInv, HandlersInOrder, Writing
    <3>2. CASE n # m
      BY <1>1, <1>2, <1>3, <3>2 DEF RepairInv, HandlersInOrder, Writing
    <3> QED BY <3>1, <3>2
  <2> QED BY <2>1 DEF HandlersInOrder
<1>8. JournalsInOrder'
  BY <1>1, <1>3, <1>5 DEF RepairInv, JournalsInOrder, rest
<1>9. Unissued'
  <2>1. UNCHANGED << row, callback, probe, dispatcher >> /\ \A n \in Macs : journal'[n].req = journal[n].req
    BY <1>1, <1>3 DEF rest
  <2> QED BY <1>6, <2>1 DEF RepairInv, Unissued
<1>10. EvidenceIsFinal'
  <2>1. probe' # NoProbe => ~(\E q \in {probe'.req} : Underway(q)')
    BY <1>1, <1>6 DEF RepairInv, EvidenceIsFinal, rest
  <2>2. dispatcher'.pc = "answered" /\ dispatcher'.word \in Terminal => ~(\E q \in {dispatcher'.req} : Underway(q)')
    BY <1>1, <1>6 DEF RepairInv, EvidenceIsFinal, rest
  <2> QED BY <2>1, <2>2 DEF EvidenceIsFinal
<1>11. ClaimsInOrder'
  BY <1>1, <1>5, <1>6 DEF RepairInv, ClaimsInOrder, Bound, rest
<1> QED BY <1>5, <1>7, <1>8, <1>9, <1>10, <1>11 DEF RepairInv

LEMMA InitInv == RepairInit => RepairInv
<1> SUFFICES ASSUME RepairInit PROVE RepairInv
  OBVIOUS
<1>1. RepairTypeOK
  BY InitType
<1>2. \A r \in Requests : row[r] = Blank
  BY DEF RepairInit, StoreInit
<1>3. /\ \A m \in Macs : agent[m] = AtRest /\ journal[m] = NoJournal
      /\ \A r \in Requests : callback[r] = "none"
      /\ wire = {} /\ probe = NoProbe /\ dispatcher = Idle
  BY DEF RepairInit, ExecutorInit
<1>4. RowsInOrder
  <2>1. Blank.state = "absent" /\ Blank.ticket = "none" /\ "absent" \notin Live \cup {"ticket_issued", "dispatched"}
    BY DEF Blank, Live
  <2> QED BY <1>2, <2>1 DEF RowsInOrder
<1>5. HandlersInOrder /\ JournalsInOrder
  BY <1>3 DEF HandlersInOrder, JournalsInOrder, AtRest, NoJournal
<1>6. \A r : ~Underway(r)
  BY <1>3 DEF Underway, AtAgent, AtRest
<1>7. Unissued
  <2>1. probe.req = NoRequest /\ dispatcher.pc = "idle" /\ \A m \in Macs : journal[m].req = NoRequest
    BY <1>3 DEF NoProbe, NoJournal, Idle
  <2> QED BY <1>3, <1>6, <2>1, Constants DEF Unissued
<1>8. EvidenceIsFinal /\ ClaimsInOrder
  BY <1>2, <1>3 DEF EvidenceIsFinal, ClaimsInOrder, LiveClaim, Live, Blank, Idle
<1> QED BY <1>1, <1>4, <1>5, <1>7, <1>8 DEF RepairInv

(* What a step of the repair is, by what it does to rows and handlers. *)
LEMMA StepKinds ==
  ASSUME RepairInv, [RepairNext]_repairVars
  PROVE  \/ Bookkeeping \/ DispatchIssue \/ ChangeIdentity
         \/ \E r \in Requests :
                \/ Adoption(r) \/ ProbeStatus(r) \/ Redeem(r) \/ RedeemLate(r) \/ RedeemRefused(r)
                \/ ApplyTooLate(r) \/ ApplyRefused(r) \/ ApplyAttempt(r) \/ LoseDispatch(r)
         \/ \E m \in Macs : ApplyMoves(m) \/ (ApplyStep(m) /\ Ended(m)) \/ Restarts(m) \/ Edits(m)
<1>1. CASE RepairStep
  <2>1. CASE Owner
    BY <2>1, BookkeepingSteps
  <2>2. CASE Dispatching
    BY <2>2, BookkeepingSteps, AnsweredIs DEF Dispatching
  <2>3. CASE AdoptStatus
    BY <2>3, AdoptStatusIs
  <2>4. ASSUME NEW r \in Requests, ProbeStatus(r) \/ Redeeming(r) \/ Applying(r) \/ Deadline(r)
        PROVE  \/ Bookkeeping \/ ProbeStatus(r) \/ Redeem(r) \/ RedeemLate(r) \/ RedeemRefused(r)
               \/ ApplyTooLate(r) \/ ApplyRefused(r) \/ ApplyAttempt(r)
    BY <2>4, BookkeepingSteps DEF Redeeming, Applying
  <2>5. ASSUME NEW m \in Macs, ApplyStep(m) PROVE ApplyMoves(m) \/ Ended(m)
    BY <2>5, StepsAre DEF RepairInv
  <2> QED BY <1>1, <2>1, <2>2, <2>3, <2>4, <2>5 DEF RepairStep, Coordinating
<1>2. CASE RepairTrouble
  <2>1. ASSUME NEW m \in Macs, NEW b \in Bindings \cup {Ambiguous}, ChangeRegistration(m, b) \/ ReloadRegistry(m, b)
        PROVE  Bookkeeping
    BY <2>1, BookkeepingSteps DEF ChangeRegistration, ReloadRegistry
  <2>2. ControllerRestart => Bookkeeping
    BY BookkeepingSteps
  <2> QED BY <1>2, <2>1, <2>2 DEF RepairTrouble
<1>3. CASE Untouched
  BY <1>3, BookkeepingSteps
<1> QED BY <1>1, <1>2, <1>3, NextKinds

LEMMA NextKeeps == RepairInv /\ [RepairNext]_repairVars => RepairInv'
<1> SUFFICES ASSUME RepairInv, [RepairNext]_repairVars PROVE RepairInv'
  OBVIOUS
<1>1. RepairTypeOK'
  BY NextType
<1>2. CASE Bookkeeping \/ DispatchIssue \/ ChangeIdentity
  BY <1>1, <1>2, BookkeepingKeeps, IssueKeeps, IdentityKeeps
<1>3. ASSUME NEW r \in Requests,
             \/ Adoption(r) \/ ProbeStatus(r) \/ Redeem(r) \/ RedeemLate(r) \/ RedeemRefused(r)
             \/ ApplyTooLate(r) \/ ApplyRefused(r) \/ ApplyAttempt(r) \/ LoseDispatch(r)
      PROVE  RepairInv'
  BY <1>1, <1>3, AdoptionKeeps, StatusKeeps, RedeemKeeps, RefuseKeeps, RefusedKeeps, AttemptKeeps, OutsideKeeps
<1>4. ASSUME NEW m \in Macs, ApplyMoves(m) \/ Ended(m) \/ Restarts(m) \/ Edits(m) PROVE RepairInv'
  BY <1>1, <1>4, MovesKeep, OverKeeps, EndedIsOver, RestartIsOver, OutsideKeeps
<1> QED BY <1>2, <1>3, <1>4, StepKinds

-----------------------------------------------------------------------------
(* The types of the repair hold in every reachable state. *)
THEOREM RepairTypes == RepairSpec => []RepairTypeOK
<1>1. RepairInv => RepairTypeOK
  BY DEF RepairInv
<1> QED BY <1>1, InitInv, NextKeeps, PTL DEF RepairSpec

(* For any number of Macs and requests an Agent that is between its granted *)
(* claim and its outcome writes under a row that is still live, for the     *)
(* identity the Controller still has (_apply and redeem together).          *)
THEOREM WritesAreFenced == RepairSpec => []WriteFenced
<1>1. RepairInv => WriteFenced
  <2> SUFFICES ASSUME RepairInv, NEW m \in Macs, Writing(m)
               PROVE  LET r == agent[m].req IN
                      /\ LiveClaim(r) /\ row[r].target = m /\ site = row[r].site /\ journal[m].site = site
                      /\ Bound(r) \/ row[r].flagged
    BY DEF WriteFenced
  <2> DEFINE r == agent[m].req
  <2>1. /\ agent[m].pc # "idle" /\ r \in Requests /\ journal[m].req = r
        /\ journal[m].site = row[r].site /\ callback[r] = "granted"
    BY DEF RepairInv, HandlersInOrder, Writing
  <2>2. LiveClaim(r) /\ row[r].site = site /\ (Bound(r) \/ row[r].flagged)
    BY <2>1 DEF RepairInv, ClaimsInOrder
  <2>3. row[r].target = m
    BY <2>1, Constants DEF RepairInv, JournalsInOrder, TargetOf
  <2> QED BY <2>1, <2>2, <2>3
<1> QED BY <1>1, InitInv, NextKeeps, PTL DEF RepairSpec

-----------------------------------------------------------------------------
(* The coordinator, its store and the executors implement RepairFence. *)
LEMMA SameClaims ==
  ASSUME \A q \in Requests : (LiveClaim(q)' <=> LiveClaim(q)) /\ (row'[q].ticket = "redeemed" <=> row[q].ticket = "redeemed")
  PROVE  Claimed' = Claimed /\ Spent' = Spent
  BY DEF Claimed, Spent

LEMMA SameWriters ==
  ASSUME \A n \in Macs : (Writing(n)' <=> Writing(n)) /\ (Writing(n) => agent'[n].req = agent[n].req)
  PROVE  Writers' = Writers
  BY DEF Writers

LEMMA UnchangedRow ==
  ASSUME UNCHANGED row PROVE Claimed' = Claimed /\ Spent' = Spent
  BY DEF Claimed, Spent, LiveClaim

LEMMA UnchangedAgent ==
  ASSUME UNCHANGED agent PROVE Writers' = Writers
  BY DEF Writers, Writing

LEMMA FenceStutters ==
  ASSUME site' = site, Claimed' = Claimed, Spent' = Spent, Writers' = Writers
  PROVE  UNCHANGED Fence!fenceVars
  BY DEF Fence!fenceVars

LEMMA BookkeepingMaps ==
  ASSUME Bookkeeping \/ DispatchIssue, RepairInv PROVE UNCHANGED Fence!fenceVars
<1>1. CASE Bookkeeping
  <2>1. Claimed' = Claimed /\ Spent' = Spent
    BY <1>1, SameClaims DEF Bookkeeping, RowsKept, RowKept
  <2> QED BY <1>1, <2>1, UnchangedAgent, FenceStutters DEF Bookkeeping
<1>2. CASE DispatchIssue
  <2> DEFINE r == dispatcher.req
  <2>1. /\ r \in Requests /\ row[r].ticket = "none" /\ row'[r].ticket = "issued"
        /\ \A q \in Requests \ {r} : row'[q] = row[q]
    BY <1>2 DEF DispatchIssue, IssueTicket, RepairInv, RepairTypeOK, Rows
  <2>2. Claimed' = Claimed /\ Spent' = Spent
    BY <2>1, SameClaims DEF LiveClaim
  <2> QED BY <1>2, <2>2, UnchangedAgent, FenceStutters DEF DispatchIssue, executorVars
<1> QED BY <1>1, <1>2

LEMMA AdoptionMaps ==
  ASSUME RepairInv, NEW r \in Requests, Adoption(r) PROVE Fence!TakeBack(r) \/ UNCHANGED Fence!fenceVars
<1>1. ~LiveClaim(r)' /\ (\A q \in Requests \ {r} : LiveClaim(q)' <=> LiveClaim(q))
  BY DEF Adoption, LiveClaim, Live
<1>2. \A q \in Requests : row'[q].ticket = "redeemed" <=> row[q].ticket = "redeemed"
  BY DEF Adoption
<1>3. Spent' = Spent /\ Claimed' = Claimed \ {r} /\ (~LiveClaim(r) => Claimed' = Claimed)
  BY <1>1, <1>2 DEF Spent, Claimed
<1>4. Writers' = Writers /\ site' = site
  BY UnchangedAgent DEF Adoption
<1>5. r \notin Writers
  BY DEF Adoption, Underway, AtAgent, Writers, Writing
<1>6. LiveClaim(r) => r \in Claimed
  BY DEF Claimed
<1> QED BY <1>3, <1>4, <1>5, <1>6, FenceStutters DEF Fence!TakeBack

LEMMA RedeemMaps == ASSUME RepairInv, NEW r \in Requests, Redeem(r) PROVE Fence!Grant(r)
<1>1. /\ row[r].ticket = "issued" /\ row'[r].ticket = "redeemed" /\ row'[r].state = "redeemed"
      /\ \A q \in Requests \ {r} : row'[q] = row[q]
  BY DEF Redeem, Redeemable, Redeemed, RepairInv, RepairTypeOK, Rows
<1>2. LiveClaim(r)' /\ (\A q \in Requests \ {r} : LiveClaim(q)' <=> LiveClaim(q))
  BY <1>1 DEF LiveClaim, Live
<1>3. Spent' = Spent \cup {r} /\ r \notin Spent
  BY <1>1 DEF Spent
<1>4. Claimed' = Claimed \cup {r}
  BY <1>2 DEF Claimed
<1>5. Writers' = Writers /\ site' = site
  BY UnchangedAgent DEF Redeem, rest
<1> QED BY <1>3, <1>4, <1>5 DEF Fence!Grant

LEMMA RefuseMaps ==
  ASSUME RepairInv, NEW r \in Requests, RedeemLate(r) \/ RedeemRefused(r) PROVE UNCHANGED Fence!fenceVars
<1>1. Claimed' = Claimed /\ Spent' = Spent
  <2>1. CASE RedeemRefused(r)
    BY <2>1, UnchangedRow DEF RedeemRefused
  <2>2. CASE RedeemLate(r)
    <3>1. /\ row[r].ticket = "issued" /\ row'[r].ticket = "expired"
          /\ \A q \in Requests \ {r} : row'[q] = row[q]
      BY <2>2 DEF RedeemLate, ExpiresAtRedeem, ExpiredAtRedeem, RepairInv, RepairTypeOK, Rows
    <3> QED BY <3>1, SameClaims DEF LiveClaim
  <2> QED BY <2>1, <2>2
<1> QED BY <1>1, UnchangedAgent, FenceStutters DEF RedeemLate, RedeemRefused, rest

LEMMA OverMaps ==
  ASSUME RepairInv, NEW m \in Macs, HandlerOver(m) PROVE (\E r \in Requests : Fence!Finish(r)) \/ UNCHANGED Fence!fenceVars
<1>1. agent'[m] = AtRest /\ \A n \in Macs \ {m} : agent'[n] = agent[n]
  BY DEF HandlerOver, RepairInv, RepairTypeOK, ExecutorTypeOK
<1>2. ~Writing(m)' /\ \A n \in Macs \ {m} : Writing(n)' <=> Writing(n)
  BY <1>1 DEF Writing, AtRest
<1>3. Claimed' = Claimed /\ Spent' = Spent /\ site' = site
  BY UnchangedRow DEF HandlerOver
<1>4. CASE ~Writing(m)
  BY <1>1, <1>2, <1>3, <1>4, SameWriters, FenceStutters
<1>5. CASE Writing(m)
  <2>1. agent[m].req \in Requests /\ AtAgent(m, agent[m].req) /\ agent[m].req \in Writers
    BY <1>5 DEF RepairInv, HandlersInOrder, Writing, AtAgent, Writers
  <2>2. \A n \in Macs \ {m} : Writing(n) => agent[n].req # agent[m].req
    BY <2>1, AtOne DEF AtAgent, Writing
  <2>3. Writers' = Writers \ {agent[m].req}
    BY <1>1, <1>2, <2>2 DEF Writers
  <2> QED BY <1>3, <2>1, <2>3 DEF Fence!Finish
<1> QED BY <1>4, <1>5

LEMMA ArrivalMaps ==
  ASSUME RepairInv, NEW r \in Requests, ApplyTooLate(r) \/ ApplyRefused(r) \/ ApplyAttempt(r)
  PROVE  UNCHANGED Fence!fenceVars
<1>1. UNCHANGED << row, site >> /\ Arrives(r)
  BY DEF ApplyTooLate, ApplyRefused, ApplyAttempt
<1>2. Writers' = Writers
  <2>1. CASE ApplyTooLate(r) \/ ApplyRefused(r)
    BY <2>1, UnchangedAgent DEF ApplyTooLate, ApplyRefused
  <2>2. CASE ApplyAttempt(r)
    <3>1. TargetOf(r) \in Macs /\ agent[TargetOf(r)].pc = "idle"
      BY <1>1, ArrivedFacts
    <3>2. agent'[TargetOf(r)].pc = "callback" /\ \A n \in Macs \ {TargetOf(r)} : agent'[n] = agent[n]
      BY <2>2, <3>1 DEF ApplyAttempt, AttemptRedemption, RepairInv, RepairTypeOK, ExecutorTypeOK
    <3>3. \A n \in Macs : (Writing(n)' <=> Writing(n)) /\ (Writing(n) => agent'[n].req = agent[n].req)
      BY <3>1, <3>2 DEF Writing
    <3> QED BY <3>3, SameWriters
  <2> QED BY <2>1, <2>2
<1> QED BY <1>1, <1>2, UnchangedRow, FenceStutters

LEMMA MovesMap ==
  ASSUME RepairInv, NEW m \in Macs, ApplyMoves(m) PROVE (\E r \in Requests : Fence!Begin(r)) \/ UNCHANGED Fence!fenceVars
<1>1. agent \in [Macs -> Handlers] /\ agent[m] \in Handlers
  BY DEF RepairInv, RepairTypeOK, ExecutorTypeOK
<1>2. Claimed' = Claimed /\ Spent' = Spent /\ site' = site
  BY UnchangedRow DEF ApplyMoves, rest
<1>3. CASE AcceptClaim(m)
  <2> DEFINE r == agent[m].req
  <2>1. agent[m].pc = "callback" /\ callback[r] = "granted" /\ r \in Requests
    BY <1>3 DEF AcceptClaim, Granted, RepairInv, HandlersInOrder
  <2>2. r \in Claimed
    BY <2>1 DEF RepairInv, ClaimsInOrder, Claimed
  <2>3. agent'[m].pc = "staging" /\ agent'[m].req = r /\ \A n \in Macs \ {m} : agent'[n] = agent[n]
    BY <1>1, <1>3 DEF AcceptClaim, Handlers
  <2>4. Writing(m)' /\ ~Writing(m) /\ \A n \in Macs \ {m} : Writing(n)' <=> Writing(n)
    BY <2>1, <2>3 DEF Writing
  <2>5. Writers' = Writers \cup {r}
    BY <2>3, <2>4 DEF Writers
  <2> QED BY <1>2, <2>1, <2>2, <2>5 DEF Fence!Begin
<1>4. CASE StageSettings(m) \/ ReplaceSettings(m)
  <2>1. /\ Writing(m) /\ agent'[m].pc \in {"staged", "replaced"} /\ agent'[m].req = agent[m].req
        /\ \A n \in Macs \ {m} : agent'[n] = agent[n]
    BY <1>1, <1>4 DEF StageSettings, ReplaceSettings, Handlers, Writing
  <2>2. \A n \in Macs : (Writing(n)' <=> Writing(n)) /\ agent'[n].req = agent[n].req
    BY <2>1 DEF Writing
  <2> QED BY <1>2, <2>2, SameWriters, FenceStutters
<1> QED BY <1>3, <1>4 DEF ApplyMoves

LEMMA FenceNext == RepairInv /\ RepairInv' /\ [RepairNext]_repairVars => [Fence!Next]_(Fence!fenceVars)
<1> SUFFICES ASSUME RepairInv, RepairInv', [RepairNext]_repairVars PROVE Fence!Next \/ UNCHANGED Fence!fenceVars
  OBVIOUS
<1>1. CASE Bookkeeping \/ DispatchIssue
  BY <1>1, BookkeepingMaps
<1>2. CASE ChangeIdentity
  <2>1. Claimed = {}
    BY <1>2 DEF ChangeIdentity, Blocked, Claimed, LiveClaim
  <2>2. Claimed' = Claimed /\ Spent' = Spent /\ Writers' = Writers
    BY <1>2, UnchangedRow, UnchangedAgent DEF ChangeIdentity, executorVars
  <2> QED BY <1>2, <2>1, <2>2 DEF ChangeIdentity, Fence!ChangeSite, Fence!Next
<1>3. ASSUME NEW r \in Requests, Adoption(r) \/ Redeem(r) PROVE Fence!Next \/ UNCHANGED Fence!fenceVars
  BY <1>3, AdoptionMaps, RedeemMaps DEF Fence!Next
<1>4. ASSUME NEW r \in Requests, ProbeStatus(r) \/ LoseDispatch(r) PROVE UNCHANGED Fence!fenceVars
  BY <1>4, UnchangedRow, UnchangedAgent, FenceStutters DEF ProbeStatus, LoseDispatch, executorVars
<1>5. ASSUME NEW r \in Requests, RedeemLate(r) \/ RedeemRefused(r) PROVE UNCHANGED Fence!fenceVars
  BY <1>5, RefuseMaps
<1>6. ASSUME NEW r \in Requests, ApplyTooLate(r) \/ ApplyRefused(r) \/ ApplyAttempt(r)
      PROVE UNCHANGED Fence!fenceVars
  BY <1>6, ArrivalMaps
<1>7. ASSUME NEW m \in Macs, ApplyMoves(m) \/ Ended(m) \/ Restarts(m)
      PROVE  Fence!Next \/ UNCHANGED Fence!fenceVars
  BY <1>7, MovesMap, OverMaps, EndedIsOver, RestartIsOver DEF Fence!Next
<1>8. ASSUME NEW m \in Macs, Edits(m) PROVE UNCHANGED Fence!fenceVars
  BY <1>8, UnchangedRow, UnchangedAgent, FenceStutters DEF Edits, OwnerEdits, rest
<1> QED BY <1>1, <1>2, <1>3, <1>4, <1>5, <1>6, <1>7, <1>8, StepKinds

(* Every behaviour of the coordinator, its store and the executors is one   *)
(* of RepairFence: a claim is given once, under the site's present          *)
(* identity, is taken back only after its writer's outcome, and the site    *)
(* does not change under it.                                                *)
THEOREM RepairImplementsFence == RepairSpec => FenceKept
<1>1. RepairInit => Fence!Init
  <2> SUFFICES ASSUME RepairInit PROVE Fence!Init
    OBVIOUS
  <2>1. site \in Nat
    BY DEF RepairInit, FirstSite
  <2>2. Claimed = {} /\ Spent = {}
    BY DEF RepairInit, StoreInit, Claimed, Spent, LiveClaim, Blank
  <2>3. Writers = {}
    BY DEF RepairInit, ExecutorInit, Writers, Writing, AtRest
  <2> QED BY <2>1, <2>2, <2>3 DEF Fence!Init
<1> QED BY <1>1, InitInv, NextKeeps, FenceNext, PTL DEF RepairSpec, FenceKept, Fence!Spec

-----------------------------------------------------------------------------
(* One repair of a Mac, one slot.  A step of the store other than the       *)
(* creation of a batch and the claim of the slot opens no row, moves none   *)
(* to another Mac, and leaves the slot with a row the next start recovers.  *)
OneActive == \A q, r \in Requests : Active(q) /\ Active(r) /\ row[q].target = row[r].target => q = r
OneSlot == \A q, r \in Requests : row[q].slot /\ row[r].slot => q = r
SlotRecoverable == \A r \in Requests : row[r].slot => Recoverable(r)
RepairsApart == OneActive /\ OneSlot /\ SlotRecoverable

Tidy(r) ==
    /\ Active(r)' => Active(r) /\ row'[r].target = row[r].target
    /\ row'[r].slot => row[r].slot /\ Recoverable(r)'
AllTidy == \A r \in Requests : Tidy(r)

LEMMA TidyApart == RepairsApart /\ AllTidy => RepairsApart'
  BY DEF RepairsApart, AllTidy, Tidy, OneActive, OneSlot, SlotRecoverable

LEMMA StillTidy ==
  ASSUME RepairsApart, NEW r \in Requests, row'[r] = row[r] PROVE Tidy(r)
  BY DEF RepairsApart, SlotRecoverable, Tidy, Active, Created, Recoverable

LEMMA SameTidy == RepairsApart /\ UNCHANGED row => AllTidy
  BY StillTidy DEF AllTidy

LEMMA OneRowTidy ==
  ASSUME RepairTypeOK, RepairsApart, NEW r \in Requests, NEW w, row' = [row EXCEPT ![r] = w],
         row'[r] = w => Tidy(r)
  PROVE  AllTidy
<1>1. row'[r] = w /\ \A q \in Requests \ {r} : row'[q] = row[q]
  BY DEF RepairTypeOK
<1> QED BY <1>1, StillTidy DEF AllTidy

(* A row whose lifecycle, ticket and slot are set. *)
LEMMA LeavesSlot ==
  ASSUME RepairTypeOK, NEW r \in Requests, Active(r), row'[r].target = row[r].target, ~row'[r].slot
  PROVE  Tidy(r)
  BY DEF Tidy

LEMMA KeepsSlot ==
  ASSUME RepairTypeOK, NEW r \in Requests, Active(r), row'[r].target = row[r].target,
         row'[r].slot = row[r].slot, row'[r].state \in {"ticket_issued", "dispatched", "redeemed", "verifying"}
  PROVE  Tidy(r)
  BY DEF Tidy, Recoverable

LEMMA ResolvedTidy ==
  ASSUME RepairTypeOK, RepairsApart, NEW r \in Requests, row'[r] = Resolved(r, late)
  PROVE  Tidy(r) /\ (PreclaimReview(r) \/ ExpiredReview(r, late) => ~Active(r)')
<1>1. row[r] \in Rows
  BY DEF RepairTypeOK
<1>2. CASE PreclaimReview(r) \/ ExpiredReview(r, late)
  <2>1. row[r].state = "needs_review" /\ ~row[r].slot
    BY <1>1, <1>2 DEF PreclaimReview, ExpiredReview, RepairsApart, SlotRecoverable, Recoverable
  <2>2. row'[r] = [row[r] EXCEPT !.state = "retryable"]
        \/ row'[r] = [row[r] EXCEPT !.state = "retryable", !.ticket = "expired"]
    BY <1>2 DEF Resolved
  <2>3. row'[r].state = "retryable" /\ row'[r].slot = row[r].slot
    BY <1>1, <2>2 DEF Rows
  <2> QED BY <2>1, <2>3 DEF Tidy, Active, Created, Settled
<1>3. CASE ~(PreclaimReview(r) \/ ExpiredReview(r, late))
  BY <1>3, StillTidy DEF Resolved
<1> QED BY <1>2, <1>3

(* A new row is for a Mac whose rows are all settled or being resolved. *)
LEMMA CreateApart ==
  ASSUME RepairTypeOK, RepairsApart, NEW ms \in SUBSET Macs, CreateBatch(ms) PROVE RepairsApart'
<1> DEFINE kept(r) == IF row[r].target \in ms THEN Resolved(r, late) ELSE row[r]
           taken == {row[r].target : r \in {q \in Requests : StillOpen(q, ms, late)}}
           fresh == ms \ taken
<1>1. PICK new \in SUBSET {r \in Requests : ~Created(r)} : \E asked \in [new -> fresh] :
          /\ \A r, q \in new : asked[r] = asked[q] => r = q
          /\ row' = [r \in Requests |->
                     IF r \in new THEN [Blank EXCEPT !.target = asked[r], !.state = "queued"] ELSE kept(r)]
  BY DEF CreateBatch, CreateOrAdoptBatch
<1>2. PICK asked \in [new -> fresh] :
          /\ \A r, q \in new : asked[r] = asked[q] => r = q
          /\ row' = [r \in Requests |->
                     IF r \in new THEN [Blank EXCEPT !.target = asked[r], !.state = "queued"] ELSE kept(r)]
  BY <1>1
<1>3. ASSUME NEW r \in new
      PROVE  row'[r].target = asked[r] /\ asked[r] \in fresh /\ ~row'[r].slot
  <2>1. r \in Requests /\ asked[r] \in fresh
    OBVIOUS
  <2>2. row'[r] = [Blank EXCEPT !.target = asked[r], !.state = "queued"]
    BY <1>2, <2>1
  <2> QED BY <2>1, <2>2 DEF Blank
<1>4. ASSUME NEW r \in Requests \ new PROVE Tidy(r) /\ (Active(r)' => row'[r].target \notin fresh)
  <2>1. row'[r] = kept(r)
    BY <1>2
  <2>2. Tidy(r) /\ (row[r].target \in ms /\ (PreclaimReview(r) \/ ExpiredReview(r, late)) => ~Active(r)')
    BY <2>1, StillTidy, ResolvedTidy
  <2>3. ASSUME Active(r)' PROVE row[r].target \in taken
    <3>1. StillOpen(r, ms, late)
      BY <2>2, <2>3 DEF Tidy, StillOpen
    <3> QED BY <3>1
  <2> QED BY <2>2, <2>3 DEF Tidy
<1> HIDE DEF kept, fresh
<1>5. OneActive'
  <2> SUFFICES ASSUME NEW q \in Requests, NEW r \in Requests, Active(q)', Active(r)', row'[q].target = row'[r].target
               PROVE  q = r
    BY DEF OneActive
  <2>1. CASE q \in new /\ r \in new
    BY <1>2, <1>3, <2>1
  <2>2. CASE q \notin new /\ r \notin new
    BY <1>4, <2>2 DEF Tidy, RepairsApart, OneActive
  <2>3. CASE q \in new <=> r \notin new
    BY <1>3, <1>4, <2>3
  <2> QED BY <2>1, <2>2, <2>3
<1>6. OneSlot' /\ SlotRecoverable'
  BY <1>3, <1>4 DEF Tidy, RepairsApart, OneSlot, SlotRecoverable
<1> QED BY <1>5, <1>6 DEF RepairsApart

LEMMA ClaimApart ==
  ASSUME RepairTypeOK, RowsInOrder, RepairsApart, NEW r \in Requests, ClaimNextDispatch(r) PROVE RepairsApart'
<1> DEFINE w == [row[r] EXCEPT !.state = "checking", !.slot = TRUE]
<1>1. row[r] \in Rows /\ row[r].state = "queued" /\ row[r].ticket = "none" /\ \A q \in Requests : ~row[q].slot
  BY DEF RepairTypeOK, RowsInOrder, ClaimNextDispatch, HasDispatchableRequest
<1>2. w.target = row[r].target /\ w.state = "checking" /\ w.ticket = "none"
  BY <1>1 DEF Rows
<1>3. row' = [row EXCEPT ![r] = w]
  BY DEF ClaimNextDispatch
<1> HIDE DEF w
<1>4. row'[r] = w /\ \A q \in Requests \ {r} : row'[q] = row[q]
  BY <1>3 DEF RepairTypeOK
<1>5. \A q \in Requests : (Active(q)' => Active(q)) /\ row'[q].target = row[q].target
  BY <1>1, <1>2, <1>4 DEF Active, Created, Settled
<1>6. \A q \in Requests : row'[q].slot => q = r
  BY <1>1, <1>4
<1>7. Recoverable(r)'
  BY <1>2, <1>4 DEF Recoverable
<1> QED BY <1>5, <1>6, <1>7 DEF RepairsApart, OneActive, OneSlot, SlotRecoverable

(* Everything else the coordinator writes. *)
LEMMA FailTidy ==
  ASSUME RepairTypeOK, RepairsApart, NEW r \in Requests, NEW s, FailBeforeClaim(r, s) PROVE AllTidy
<1> DEFINE w == [row[r] EXCEPT !.state = s, !.slot = FALSE]
<1>1. row[r] \in Rows /\ Active(r)
  BY DEF RepairTypeOK, FailBeforeClaim, Active, Created, Settled
<1>2. w.target = row[r].target /\ ~w.slot
  BY <1>1 DEF Rows
<1>3. row' = [row EXCEPT ![r] = w]
  BY DEF FailBeforeClaim
<1> HIDE DEF w
<1> QED BY <1>1, <1>2, <1>3, LeavesSlot, OneRowTidy

LEMMA IssueTidy ==
  ASSUME RepairTypeOK, RepairsApart, NEW r \in Requests, IssueTicket(r, site, binding[TargetOf(r)]) PROVE AllTidy
<1> DEFINE w == [row[r] EXCEPT !.state = "ticket_issued", !.ticket = "issued", !.site = site,
                               !.bind = binding[TargetOf(r)],
                               !.before = {q \in Requests : row[q].state = "complete"}]
<1>1. row[r] \in Rows /\ Active(r)
  BY DEF RepairTypeOK, IssueTicket, Active, Created, Settled
<1>2. w.target = row[r].target /\ w.slot = row[r].slot /\ w.state = "ticket_issued"
  BY <1>1 DEF Rows
<1>3. row' = [row EXCEPT ![r] = w]
  BY DEF IssueTicket
<1> HIDE DEF w
<1> QED BY <1>1, <1>2, <1>3, KeepsSlot, OneRowTidy

LEMMA ParkTidy ==
  ASSUME RepairTypeOK, RepairsApart, NEW r \in Requests, row[r].state \in Parkable, row' = ParkedRow(r) PROVE AllTidy
<1> DEFINE w == [row[r] EXCEPT !.state = "confirmation_pending", !.slot = FALSE]
<1>1. row[r] \in Rows /\ Active(r)
  BY DEF RepairTypeOK, Parkable, Live, Active, Created, Settled
<1>2. w.target = row[r].target /\ ~w.slot
  BY <1>1 DEF Rows
<1>3. row' = [row EXCEPT ![r] = w]
  BY DEF ParkedRow
<1> HIDE DEF w
<1> QED BY <1>1, <1>2, <1>3, LeavesSlot, OneRowTidy

LEMMA ExpireTidy ==
  ASSUME RepairTypeOK, RepairsApart, NEW r \in Requests, ExpiresAtRedeem(r, late), row' = ExpiredAtRedeem(r) PROVE AllTidy
<1> DEFINE w == [row[r] EXCEPT !.ticket = "expired", !.state = "confirmation_pending", !.slot = FALSE]
<1>1. row[r] \in Rows /\ Active(r)
  BY DEF RepairTypeOK, ExpiresAtRedeem, Active, Created, Settled
<1>2. w.target = row[r].target /\ ~w.slot
  BY <1>1 DEF Rows
<1>3. row' = [row EXCEPT ![r] = w]
  BY DEF ExpiredAtRedeem
<1> HIDE DEF w
<1> QED BY <1>1, <1>2, <1>3, LeavesSlot, OneRowTidy

LEMMA RedeemTidy ==
  ASSUME RepairTypeOK, RepairsApart, NEW r \in Requests, row[r].state \in {"ticket_issued", "dispatched"}, row' = Redeemed(r)
  PROVE  AllTidy
<1> DEFINE w == [row[r] EXCEPT !.ticket = "redeemed", !.state = "redeemed"]
<1>1. row[r] \in Rows /\ Active(r)
  BY DEF RepairTypeOK, Active, Created, Settled
<1>2. w.target = row[r].target /\ w.slot = row[r].slot /\ w.state = "redeemed"
  BY <1>1 DEF Rows
<1>3. row' = [row EXCEPT ![r] = w]
  BY DEF Redeemed
<1> HIDE DEF w
<1> QED BY <1>1, <1>2, <1>3, KeepsSlot, OneRowTidy

LEMMA AdoptTidy ==
  ASSUME RepairTypeOK, RepairsApart, NEW r \in Requests, NEW word, row[r].state \in Parkable,
         NEW rows \in [Requests -> Rows], rows[r].target = row[r].target, \A q \in Requests \ {r} : rows[q] = row[q],
         row' = AdoptedRow(rows, r, word)
  PROVE  AllTidy
<1> DEFINE w == [rows[r] EXCEPT !.state = IF word = "never_applied" THEN "retryable" ELSE word,
                                !.ticket = Closed(rows[r].ticket), !.slot = FALSE]
<1>1. rows[r] \in Rows /\ Active(r)
  BY DEF Parkable, Live, Active, Created, Settled
<1>2. w.target = row[r].target /\ ~w.slot
  BY <1>1 DEF Rows
<1>3. row' = [rows EXCEPT ![r] = w]
  BY DEF AdoptedRow
<1> HIDE DEF w
<1>4. row'[r] = w /\ \A q \in Requests \ {r} : row'[q] = row[q]
  BY <1>3
<1> QED BY <1>1, <1>2, <1>4, LeavesSlot, StillTidy DEF AllTidy

LEMMA AnsweredTidy ==
  ASSUME RepairInv, RepairsApart, DispatchAnswered PROVE AllTidy
<1> DEFINE r == dispatcher.req
           marked == [row EXCEPT ![r] = [row[r] EXCEPT !.state = "dispatched"]]
           adopted == Dispatchable(r) /\ Adopts(r, dispatcher.word)
<1>1. r \in Requests /\ row[r] \in Rows /\ row \in [Requests -> Rows] /\ RepairTypeOK
  BY DEF DispatchAnswered, RepairInv, RepairTypeOK
<1>2. marked \in [Requests -> Rows] /\ marked[r] = [row[r] EXCEPT !.state = "dispatched"]
      /\ \A q \in Requests \ {r} : marked[q] = row[q]
  BY <1>1, RowOf, InStates
<1>3. marked[r].target = row[r].target /\ marked[r].slot = row[r].slot /\ marked[r].state = "dispatched"
  BY <1>1, <1>2 DEF Rows
<1>4. CASE adopted
  <2>1. row' = AdoptedRow(marked, r, dispatcher.word) /\ row[r].state \in Parkable
    BY <1>4 DEF DispatchAnswered, Adopts, Adoptable
  <2> HIDE DEF marked, r
  <2> QED BY <1>1, <1>2, <1>3, <2>1, AdoptTidy
<1>5. CASE ~adopted /\ Dispatchable(r)
  <2>1. row' = marked /\ Active(r)
    BY <1>5 DEF DispatchAnswered, Dispatchable, Active, Created, Settled
  <2> HIDE DEF r
  <2> QED BY <1>1, <1>2, <1>3, <2>1, KeepsSlot, StillTidy DEF AllTidy
<1>6. CASE ~adopted /\ ~Dispatchable(r)
  BY <1>6, SameTidy DEF DispatchAnswered
<1> QED BY <1>4, <1>5, <1>6

LEMMA RecoverTidy ==
  ASSUME RepairTypeOK, RepairsApart, RecoverSchedulingSlot PROVE AllTidy
<1>1. ASSUME NEW r \in Requests PROVE Tidy(r)
  <2>1. row[r] \in Rows
    BY DEF RepairTypeOK
  <2>2. CASE ~row[r].slot
    <3>1. row'[r] = row[r]
      BY <2>2 DEF RecoverSchedulingSlot
    <3> QED BY <3>1, StillTidy
  <2>3. CASE row[r].slot
    <3>1. row'[r] = [row[r] EXCEPT !.slot = FALSE,
                        !.state = IF row[r].state = "checking" THEN "queued" ELSE "confirmation_pending"]
      BY <2>3 DEF RecoverSchedulingSlot
    <3>2. ~row'[r].slot /\ row'[r].target = row[r].target
      BY <2>1, <3>1 DEF Rows
    <3>3. Active(r)
      BY <2>3 DEF RecoverSchedulingSlot, Recoverable, Active, Created, Settled
    <3> QED BY <3>2, <3>3, LeavesSlot
  <2> QED BY <2>2, <2>3
<1> QED BY <1>1 DEF AllTidy

LEMMA FlagTidy ==
  ASSUME RepairTypeOK, RepairsApart, NEW rs, FlagRegistryChanged(rs) PROVE AllTidy
<1>1. ASSUME NEW r \in Requests PROVE Tidy(r)
  <2>1. row[r] \in Rows
    BY DEF RepairTypeOK
  <2>2. row'[r] = row[r] \/ row'[r] = [row[r] EXCEPT !.flagged = TRUE]
    BY DEF FlagRegistryChanged
  <2>3. /\ row'[r].slot = row[r].slot /\ row'[r].target = row[r].target
        /\ row'[r].state = row[r].state /\ row'[r].ticket = row[r].ticket
    BY <2>1, <2>2 DEF Rows
  <2> QED BY <2>3 DEF RepairsApart, SlotRecoverable, Tidy, Active, Created, Recoverable
<1> QED BY <1>1 DEF AllTidy

LEMMA StepsApart ==
  ASSUME RepairInv, RepairsApart, [RepairNext]_repairVars PROVE RepairsApart'
<1> USE DEF RepairInv
<1>1. CASE AllTidy
  BY <1>1, TidyApart
<1>2. CASE UNCHANGED row
  BY <1>1, <1>2, SameTidy
<1>3. CASE Owner
  <2>1. ASSUME Eligibility PROVE AllTidy
    <3>1. \A r \in Requests : row'[r] = Resolved(r, late) \/ row'[r] = row[r]
      BY <2>1 DEF Eligibility, ResolveExpired
    <3> QED BY <3>1, ResolvedTidy, StillTidy DEF AllTidy
  <2> QED BY <1>1, <1>3, <2>1, CreateApart DEF Owner
<1>4. CASE Dispatching
  <2>1. ASSUME NEW r \in Requests, DispatchClaim(r) PROVE RepairsApart'
    BY <2>1, ClaimApart DEF DispatchClaim
  <2>2. dispatcher.pc # "idle" => dispatcher.req \in Requests
    BY DEF RepairTypeOK
  <2>3. ASSUME NEW s, FailBeforeClaim(dispatcher.req, s), dispatcher.pc = "checking" PROVE AllTidy
    BY <2>2, <2>3, FailTidy
  <2>4. DispatchIssue => AllTidy
    BY <2>2, IssueTidy DEF DispatchIssue
  <2>5. DispatchTimesOut => UNCHANGED row
    BY DEF DispatchTimesOut
  <2>6. ParkAfterForeground => AllTidy
    BY <2>2, ParkTidy, SameTidy DEF ParkAfterForeground
  <2> QED BY <1>1, <1>2, <1>4, <2>1, <2>3, <2>4, <2>5, <2>6, AnsweredTidy DEF Dispatching, CapabilityMissing, PreissuanceFailure
<1>5. CASE AdoptStatus
  <2>1. CASE Adopts(probe.req, probe.word)
    <3>1. probe.req \in Requests /\ row[probe.req].state \in Parkable /\ row' = AdoptedRow(row, probe.req, probe.word)
      BY <1>5, <2>1 DEF AdoptStatus, RepairTypeOK, Adopts, Adoptable
    <3>2. row \in [Requests -> Rows] /\ RepairTypeOK
      BY DEF RepairTypeOK
    <3> QED BY <1>1, <3>1, <3>2, AdoptTidy
  <2>2. CASE ~Adopts(probe.req, probe.word)
    BY <1>2, <1>5, <2>2 DEF AdoptStatus
  <2> QED BY <2>1, <2>2
<1>6. ASSUME NEW r \in Requests, Redeem(r) \/ RedeemLate(r) PROVE AllTidy
  BY <1>6, RedeemTidy, ExpireTidy DEF Redeem, RedeemLate, Redeemable
<1>7. ASSUME NEW r \in Requests, ProbeStatus(r) \/ RedeemRefused(r) \/ Applying(r) \/ Deadline(r) \/ LoseDispatch(r)
      PROVE  UNCHANGED row
  BY <1>7 DEF ProbeStatus, RedeemRefused, Applying, ApplyTooLate, ApplyRefused, ApplyAttempt, Deadline, LoseDispatch
<1>8. ASSUME NEW m \in Macs, ApplyStep(m) \/ Restarts(m) \/ Edits(m) PROVE UNCHANGED row
  BY <1>8 DEF ApplyStep, ApplyMoves, ApplyEnds, Restarts, Edits
<1>9. CASE ControllerRestart
  BY <1>1, <1>9, RecoverTidy DEF ControllerRestart
<1>10. CASE ChangeIdentity
  BY <1>2, <1>10 DEF ChangeIdentity
<1>11. ASSUME NEW m, NEW b, ChangeRegistration(m, b) \/ ReloadRegistry(m, b) PROVE AllTidy
  BY <1>11, FlagTidy DEF ChangeRegistration, ReloadRegistry, NoteRegistryReload
<1>12. CASE RepairStep
  BY <1>1, <1>2, <1>3, <1>4, <1>5, <1>6, <1>7, <1>8, <1>12 DEF RepairStep, Coordinating, Redeeming
<1>13. CASE RepairTrouble
  BY <1>1, <1>2, <1>7, <1>8, <1>9, <1>10, <1>11, <1>13 DEF RepairTrouble
<1>14. CASE Untouched
  BY <1>2, <1>14 DEF Untouched
<1> QED BY <1>12, <1>13, <1>14, NextKinds

LEMMA InitApart == RepairInit => RepairsApart
  BY DEF RepairInit, StoreInit, RepairsApart, OneActive, OneSlot, SlotRecoverable, Active, Created, Blank

(* A set of requests that has no two elements. *)
LEMMA AtMostOne ==
  ASSUME NEW S \in SUBSET Requests, \A q, r \in S : q = r PROVE Cardinality(S) <= 1
<1>1. CASE S = {}
  BY <1>1, FS_EmptySet
<1>2. CASE S # {}
  <2>1. PICK q \in S : S = {q}
    BY <1>2
  <2>2. Cardinality({q}) = 1
    BY FS_Singleton
  <2> QED BY <2>1, <2>2
<1> QED BY <1>1, <1>2

(* Through refusals, deadlines, lost answers and restarts of both sides a   *)
(* Mac has one unresolved repair, one dispatch is fresh, and the slot is    *)
(* never with a row recover_scheduling_slot would refuse at the next start  *)
(* (one_unresolved_repair_per_target, claim_next_dispatch).                 *)
THEOREM RepairsOneAtATime == RepairSpec => []OneRepairPerMac
<1>1. RepairsApart => OneRepairPerMac
  <2> SUFFICES ASSUME RepairsApart PROVE OneRepairPerMac
    OBVIOUS
  <2>1. ASSUME NEW m \in Macs PROVE Cardinality(ActiveFor(m)) <= 1
    <3>1. ActiveFor(m) \in SUBSET Requests /\ \A q, r \in ActiveFor(m) : q = r
      BY DEF ActiveFor, RepairsApart, OneActive
    <3> QED BY <3>1, AtMostOne
  <2>2. Cardinality({r \in Requests : row[r].slot}) <= 1
    <3>1. \A q, r \in {p \in Requests : row[p].slot} : q = r
      BY DEF RepairsApart, OneSlot
    <3>2. {r \in Requests : row[r].slot} \in SUBSET Requests
      OBVIOUS
    <3> QED BY <3>1, <3>2, AtMostOne
  <2> QED BY <2>1, <2>2 DEF OneRepairPerMac, RepairsApart, SlotRecoverable
<1>2. RepairInv /\ RepairsApart /\ [RepairNext]_repairVars => (RepairInv /\ RepairsApart)'
  BY NextKeeps, StepsApart
<1> QED BY <1>1, <1>2, InitInv, InitApart, PTL DEF RepairSpec

(* A repair never writes over an owner's edit: the settings are replaced    *)
(* only when they still are what the attempt had read (_apply).             *)
THEOREM EditsSurvive == RepairSpec => EditsKept
<1>1. RepairInv /\ [RepairNext]_repairVars => [\A m \in Macs : settings'[m].edits >= settings[m].edits]_settings
  <2> SUFFICES ASSUME RepairInv, [RepairNext]_repairVars, settings' # settings, NEW n \in Macs
               PROVE  settings'[n].edits >= settings[n].edits
    OBVIOUS
  <2>1. settings \in [Macs -> Settings] /\ journal \in [Macs -> Journals]
    BY DEF RepairInv, RepairTypeOK, ExecutorTypeOK
  <2>2. \E m \in Macs : ReplaceSettings(m) \/ OwnerEdits(m)
    <3>1. RepairStep \/ RepairTrouble
      BY NextKinds DEF Untouched, executorVars
    <3>2. ASSUME NEW m \in Macs, ApplyStep(m) PROVE ReplaceSettings(m)
      BY <3>2 DEF ApplyStep, ApplyMoves, ApplyEnds, AcceptClaim, StageSettings, CallbackFails, PreimageChanged, WriterBusy,
                  ApplyComplete, ApplyFails, Ends
    <3>3. ASSUME RepairStep PROVE \E m \in Macs : ApplyStep(m)
      BY <3>3 DEF RepairStep, Coordinating, Owner, CreateBatch, Eligibility, Dispatching, DispatchClaim, CapabilityMissing,
                  DispatchIssue, DispatchTimesOut, DispatchAnswered, ParkAfterForeground, PreissuanceFailure, AdoptStatus,
                  ProbeStatus, Redeeming, Redeem, RedeemLate, RedeemRefused, Applying, ApplyTooLate, ApplyRefused,
                  ApplyAttempt, AttemptRedemption, Deadline, executorVars
    <3>4. ASSUME RepairTrouble PROVE \E m \in Macs : OwnerEdits(m)
      BY <3>4 DEF RepairTrouble, LoseDispatch, ChangeIdentity, ControllerRestart, Restarts, AgentRestart, Edits,
                  ChangeRegistration, ReloadRegistry, NoteRegistryReload, executorVars
    <3> QED BY <3>1, <3>2, <3>3, <3>4
  <2>3. PICK m \in Macs : ReplaceSettings(m) \/ OwnerEdits(m)
    BY <2>2
  <2>4. CASE ReplaceSettings(m)
    <3>1. settings' = [settings EXCEPT ![m] = Staged(journal[m])] /\ journal[m].pre = settings[m]
      BY <2>4 DEF ReplaceSettings, PreimageKept
    <3>2. Staged(journal[m]).edits = settings[m].edits
      BY <3>1 DEF Staged
    <3>3. settings'[n].edits = settings[n].edits /\ settings[n].edits \in Nat
      BY <2>1, <3>1, <3>2 DEF Settings
    <3> QED BY <3>3
  <2>5. CASE OwnerEdits(m)
    <3>1. settings' = [settings EXCEPT ![m] = [edits |-> settings[m].edits + 1, site |-> NoSite]]
      BY <2>5 DEF OwnerEdits
    <3>2. settings[n].edits \in Nat /\ settings'[n].edits = IF n = m THEN settings[n].edits + 1 ELSE settings[n].edits
      BY <2>1, <3>1 DEF Settings
    <3> QED BY <3>2
  <2> QED BY <2>3, <2>4, <2>5
<1> QED BY <1>1, InitInv, NextKeeps, PTL DEF RepairSpec, EditsKept
-----------------------------------------------------------------------------
(* Outcomes.  What a row says is true of the Mac because the evidence it    *)
(* was adopted from is what the Mac's journal still says, a journal tells   *)
(* what its attempt did to the settings (MacTrue), and nothing of a         *)
(* concluded request is still under way that could change either           *)
(* (FinalRows).                                                             *)
Final == Settled \cup {"needs_review"}
FinalRows == \A r \in Requests : row[r].state \in Final => ~Underway(r)

(* s: the settings of the Mac; spent: whether the claim was ever given. *)
Sound(j, s, spent) ==
    /\ s.edits >= j.pre.edits
    /\ s.edits = j.pre.edits /\ (j.state \in {"redemption_attempted", "never_applied"} \/ ~spent) => s = j.pre
    /\ s.edits = j.pre.edits /\ j.state = "complete" => s.site = j.site
(* The dispatcher or the probe holds this word about the request. *)
Evidence(r, word) ==
    \/ probe # NoProbe /\ probe.req = r /\ probe.word = word
    \/ dispatcher.pc = "answered" /\ dispatcher.req = r /\ dispatcher.word = word
MacTrue(m) ==
    LET j == journal[m]
        r == j.req
    IN r # NoRequest =>
        /\ j.site = row[r].site
        /\ Sound(j, settings[m], row[r].ticket = "redeemed")
        /\ \A word \in Terminal : Evidence(r, word) => j.state = word
        /\ row[r].state = "complete" => j.state = "complete"
        /\ row[r].state = "retryable" => j.state = "never_applied" \/ row[r].ticket # "redeemed"

TruthInv == RepairInv /\ FinalRows /\ \A m \in Macs : MacTrue(m)

(* What a step may do with a row that something else speaks of: it is       *)
(* concluded from evidence, or as an expired review, or it was never issued.*)
Lasts(r) ==
    row[r].ticket # "none" =>
        /\ row'[r].ticket # "none" /\ row'[r].site = row[r].site
        /\ row[r].ticket = "redeemed" => row'[r].ticket = "redeemed"
Settles(r) ==
    row'[r].state \in Final =>
        \/ row[r].ticket = "none"
        \/ row[r].state \in Final /\ row'[r].state = row[r].state
               /\ (row'[r].ticket = "redeemed" => row[r].ticket = "redeemed")
        \/ row[r].state = "needs_review" /\ row'[r].state = "retryable" /\ row'[r].ticket # "redeemed"
Concludes(r) ==
    \E word \in Terminal : Evidence(r, word)
        /\ row'[r].state = IF word = "never_applied" THEN "retryable" ELSE word
RowGoes(r) == Lasts(r) /\ (Settles(r) \/ Concludes(r))

LEMMA StillGoes == ASSUME NEW r \in Requests, row'[r] = row[r] PROVE RowGoes(r)
  BY DEF RowGoes, Lasts, Settles

LEMMA OneGoes ==
  ASSUME RepairTypeOK, NEW r \in Requests, NEW w, row' = [row EXCEPT ![r] = w], row'[r] = w => RowGoes(r)
  PROVE  \A q \in Requests : RowGoes(q)
<1>1. row'[r] = w /\ \A q \in Requests \ {r} : row'[q] = row[q]
  BY DEF RepairTypeOK
<1> QED BY <1>1, StillGoes

LEMMA NotFinal ==
  \A s \in {"queued", "checking", "ticket_issued", "dispatched", "redeemed", "confirmation_pending"} : s \notin Final
  BY DEF Final, Settled

LEMMA ResolvedGoes ==
  ASSUME RepairTypeOK, NEW r \in Requests, row'[r] = Resolved(r, late) PROVE RowGoes(r)
<1>1. row[r] \in Rows
  BY DEF RepairTypeOK
<1>2. CASE PreclaimReview(r)
  BY <1>2 DEF PreclaimReview, RowGoes, Lasts, Settles
<1>3. CASE ~PreclaimReview(r) /\ ExpiredReview(r, late)
  <2>1. row'[r] = [row[r] EXCEPT !.state = "retryable", !.ticket = "expired"]
    BY <1>3 DEF Resolved
  <2>2. row'[r].state = "retryable" /\ row'[r].ticket = "expired" /\ row'[r].site = row[r].site
    BY <1>1, <2>1 DEF Rows
  <2> QED BY <1>3, <2>2 DEF ExpiredReview, RowGoes, Lasts, Settles
<1>4. CASE ~PreclaimReview(r) /\ ~ExpiredReview(r, late)
  BY <1>4, StillGoes DEF Resolved
<1> QED BY <1>2, <1>3, <1>4

LEMMA OwnerGoes ==
  ASSUME RepairTypeOK, RowsInOrder, Owner PROVE \A r \in Requests : RowGoes(r)
<1>1. CASE Eligibility
  <2>1. \A r \in Requests : row'[r] = Resolved(r, late) \/ row'[r] = row[r]
    BY <1>1 DEF Eligibility, ResolveExpired
  <2> QED BY <2>1, StillGoes, ResolvedGoes
<1>2. ASSUME NEW ms \in SUBSET Macs, CreateBatch(ms) PROVE \A r \in Requests : RowGoes(r)
  <2> DEFINE kept(r) == IF row[r].target \in ms THEN Resolved(r, late) ELSE row[r]
  <2>1. PICK new \in SUBSET {r \in Requests : ~Created(r)} :
            \A r \in Requests \ new : row'[r] = kept(r)
    <3>1. PICK new \in SUBSET {r \in Requests : ~Created(r)} :
              \E asked \in [new -> ms \ {row[r].target : r \in {q \in Requests : StillOpen(q, ms, late)}}] :
                  row' = [r \in Requests |->
                     IF r \in new THEN [Blank EXCEPT !.target = asked[r], !.state = "queued"] ELSE kept(r)]
      BY <1>2 DEF CreateBatch, CreateOrAdoptBatch
    <3> QED BY <3>1
  <2>2. ASSUME NEW r \in new PROVE RowGoes(r)
    <3>1. row[r].ticket = "none"
      BY DEF RowsInOrder, Created
    <3> QED BY <3>1 DEF RowGoes, Lasts, Settles
  <2>3. ASSUME NEW r \in Requests \ new PROVE RowGoes(r)
    BY <2>1, StillGoes, ResolvedGoes
  <2> QED BY <2>2, <2>3
<1> QED BY <1>1, <1>2 DEF Owner

LEMMA UnissuedGoes ==
  ASSUME RepairTypeOK, NEW r \in Requests, row[r].ticket = "none", NEW w, row' = [row EXCEPT ![r] = w]
  PROVE  \A q \in Requests : RowGoes(q)
  BY OneGoes DEF RowGoes, Lasts, Settles

LEMMA OpenGoes ==
  ASSUME RepairTypeOK, NEW r \in Requests, NEW w, row' = [row EXCEPT ![r] = w], w.site = row[r].site,
         w.state \notin Final, w.ticket = row[r].ticket \/ (row[r].ticket = "issued" /\ w.ticket # "none")
  PROVE  \A q \in Requests : RowGoes(q)
  BY OneGoes DEF RowGoes, Lasts, Settles

LEMMA AdoptedGoes ==
  ASSUME RepairTypeOK, NEW r \in Requests, NEW word \in Terminal, Evidence(r, word), row[r].ticket # "none",
         NEW rows \in [Requests -> Rows], rows[r].site = row[r].site, rows[r].ticket = row[r].ticket,
         \A q \in Requests \ {r} : rows[q] = row[q], row' = AdoptedRow(rows, r, word)
  PROVE  \A q \in Requests : RowGoes(q)
<1> DEFINE w == [rows[r] EXCEPT !.state = IF word = "never_applied" THEN "retryable" ELSE word,
                                !.ticket = Closed(rows[r].ticket), !.slot = FALSE]
<1>1. rows[r] \in Rows
  OBVIOUS
<1>2. w.state = IF word = "never_applied" THEN "retryable" ELSE word
  BY <1>1 DEF Rows
<1>3. w.site = row[r].site /\ w.ticket = Closed(row[r].ticket)
  BY <1>1 DEF Rows
<1>4. row' = [rows EXCEPT ![r] = w]
  BY DEF AdoptedRow
<1> HIDE DEF w
<1>5. row'[r] = w /\ \A q \in Requests \ {r} : row'[q] = row[q]
  BY <1>4
<1>6. RowGoes(r)
  BY <1>2, <1>3, <1>5 DEF RowGoes, Lasts, Concludes, Closed
<1> QED BY <1>5, <1>6, StillGoes

LEMMA AnsweredGoes ==
  ASSUME RepairInv, DispatchAnswered PROVE \A q \in Requests : RowGoes(q)
<1> DEFINE r == dispatcher.req
           word == dispatcher.word
           w == [row[r] EXCEPT !.state = "dispatched"]
           marked == [row EXCEPT ![r] = w]
           adopted == Dispatchable(r) /\ Adopts(r, dispatcher.word)
<1>1. r \in Requests /\ row[r] \in Rows /\ row \in [Requests -> Rows] /\ RepairTypeOK
  BY DEF DispatchAnswered, RepairInv, RepairTypeOK
<1>2. w \in Rows /\ w.site = row[r].site /\ w.ticket = row[r].ticket /\ w.state = "dispatched"
  <2>1. w \in Rows
    BY <1>1, RowOf, InStates
  <2>2. w.site = row[r].site /\ w.ticket = row[r].ticket /\ w.state = "dispatched"
    BY <1>1 DEF Rows
  <2> QED BY <2>1, <2>2
<1>3. CASE adopted
  <2>1. row' = AdoptedRow(marked, r, word) /\ word \in Terminal /\ Evidence(r, word) /\ row[r].ticket # "none"
    BY <1>3 DEF DispatchAnswered, Adopts, Adoptable, Dispatchable, Evidence
  <2> HIDE DEF w, r, word
  <2>2. marked \in [Requests -> Rows] /\ marked[r] = w /\ \A q \in Requests \ {r} : marked[q] = row[q]
    BY <1>1, <1>2
  <2> HIDE DEF marked
  <2> QED BY <1>1, <1>2, <2>1, <2>2, AdoptedGoes
<1>4. CASE ~adopted /\ Dispatchable(r)
  <2>1. row' = [row EXCEPT ![r] = w]
    BY <1>4 DEF DispatchAnswered
  <2> HIDE DEF w, r
  <2> QED BY <1>1, <1>2, <2>1, OpenGoes, NotFinal
<1>5. CASE ~adopted /\ ~Dispatchable(r)
  BY <1>5, StillGoes DEF DispatchAnswered
<1> QED BY <1>3, <1>4, <1>5

LEMMA RowsGo ==
  ASSUME RepairInv, [RepairNext]_repairVars PROVE \A r \in Requests : RowGoes(r)
<1> USE DEF RepairInv
<1> DEFINE All == \A r \in Requests : RowGoes(r)
<1>1. CASE UNCHANGED row
  BY <1>1, StillGoes
<1>2. CASE Owner
  BY <1>2, OwnerGoes
<1>3. CASE Dispatching
  <2>1. dispatcher.pc # "idle" => dispatcher.req \in Requests
    BY DEF RepairTypeOK
  <2>2. ASSUME NEW r \in Requests, DispatchClaim(r) PROVE All
    BY <2>2, UnissuedGoes DEF DispatchClaim, ClaimNextDispatch, RowsInOrder
  <2>3. ASSUME NEW s, FailBeforeClaim(dispatcher.req, s), dispatcher.pc = "checking" PROVE All
    BY <2>1, <2>3, UnissuedGoes DEF FailBeforeClaim
  <2>4. DispatchIssue => All
    BY <2>1, UnissuedGoes DEF DispatchIssue, IssueTicket
  <2>5. DispatchTimesOut => UNCHANGED row
    BY DEF DispatchTimesOut
  <2>6. ASSUME ParkAfterForeground PROVE All
    <3> DEFINE r == dispatcher.req
               w == [row[r] EXCEPT !.state = "confirmation_pending", !.slot = FALSE]
    <3>1. r \in Requests /\ row[r] \in Rows /\ (row' = row \/ row' = [row EXCEPT ![r] = w])
      BY <2>1, <2>6 DEF ParkAfterForeground, ParkedRow, RepairTypeOK
    <3>2. w.site = row[r].site /\ w.ticket = row[r].ticket /\ w.state = "confirmation_pending"
      BY <3>1 DEF Rows
    <3> HIDE DEF r, w
    <3> QED BY <1>1, <3>1, <3>2, OpenGoes, NotFinal
  <2> QED BY <1>1, <1>3, <2>2, <2>3, <2>4, <2>5, <2>6, AnsweredGoes DEF Dispatching, CapabilityMissing, PreissuanceFailure
<1>4. CASE AdoptStatus
  <2>1. CASE Adopts(probe.req, probe.word)
    <3>1. /\ probe.req \in Requests /\ probe.word \in Terminal /\ Evidence(probe.req, probe.word)
          /\ row' = AdoptedRow(row, probe.req, probe.word) /\ row[probe.req].state \in Parkable
      BY <1>4, <2>1 DEF AdoptStatus, RepairTypeOK, Adopts, Adoptable, Evidence
    <3>2. row[probe.req].ticket # "none"
      BY <3>1 DEF RowsInOrder, Parkable
    <3>3. row \in [Requests -> Rows] /\ RepairTypeOK
      BY DEF RepairTypeOK
    <3> QED BY <3>1, <3>2, <3>3, AdoptedGoes
  <2>2. CASE ~Adopts(probe.req, probe.word)
    BY <1>1, <1>4, <2>2 DEF AdoptStatus
  <2> QED BY <2>1, <2>2
<1>5. ASSUME NEW r \in Requests, Redeem(r) PROVE All
  <2> DEFINE w == [row[r] EXCEPT !.ticket = "redeemed", !.state = "redeemed"]
  <2>1. row[r] \in Rows /\ row[r].ticket = "issued" /\ row' = [row EXCEPT ![r] = w]
    BY <1>5 DEF Redeem, Redeemable, Redeemed, RepairTypeOK
  <2>2. w.site = row[r].site /\ w.ticket = "redeemed" /\ w.state = "redeemed"
    BY <2>1 DEF Rows
  <2> HIDE DEF w
  <2> QED BY <2>1, <2>2, OpenGoes, NotFinal
<1>6. ASSUME NEW r \in Requests, RedeemLate(r) PROVE All
  <2> DEFINE w == [row[r] EXCEPT !.ticket = "expired", !.state = "confirmation_pending", !.slot = FALSE]
  <2>1. row[r] \in Rows /\ row[r].ticket = "issued" /\ row' = [row EXCEPT ![r] = w]
    BY <1>6 DEF RedeemLate, ExpiresAtRedeem, ExpiredAtRedeem, RepairTypeOK
  <2>2. w.site = row[r].site /\ w.ticket = "expired" /\ w.state = "confirmation_pending"
    BY <2>1 DEF Rows
  <2> HIDE DEF w
  <2> QED BY <2>1, <2>2, OpenGoes, NotFinal
<1>7. ASSUME NEW r \in Requests, ProbeStatus(r) \/ RedeemRefused(r) \/ Applying(r) \/ Deadline(r) \/ LoseDispatch(r)
      PROVE  UNCHANGED row
  BY <1>7 DEF ProbeStatus, RedeemRefused, Applying, ApplyTooLate, ApplyRefused, ApplyAttempt, Deadline, LoseDispatch
<1>8. ASSUME NEW m \in Macs, ApplyStep(m) \/ Restarts(m) \/ Edits(m) PROVE UNCHANGED row
  BY <1>8 DEF ApplyStep, ApplyMoves, ApplyEnds, Restarts, Edits
<1>9. ASSUME ControllerRestart, NEW r \in Requests PROVE RowGoes(r)
  <2>1. row[r] \in Rows
    BY DEF RepairTypeOK
  <2>2. \/ row'[r] = row[r]
        \/ row'[r] = [row[r] EXCEPT !.slot = FALSE, !.state = "queued"]
        \/ row'[r] = [row[r] EXCEPT !.slot = FALSE, !.state = "confirmation_pending"]
    BY <1>9 DEF ControllerRestart, RecoverSchedulingSlot
  <2>3. row'[r] # row[r] => /\ row'[r].state \in {"queued", "confirmation_pending"}
                            /\ row'[r].site = row[r].site /\ row'[r].ticket = row[r].ticket
    BY <2>1, <2>2 DEF Rows
  <2> QED BY <2>3, StillGoes, NotFinal DEF RowGoes, Lasts, Settles
<1>10. CASE ChangeIdentity
  BY <1>1, <1>10 DEF ChangeIdentity
<1>11. ASSUME NEW m, NEW b, ChangeRegistration(m, b) \/ ReloadRegistry(m, b), NEW r \in Requests PROVE RowGoes(r)
  <2>1. row[r] \in Rows
    BY DEF RepairTypeOK
  <2>2. row'[r] = row[r] \/ row'[r] = [row[r] EXCEPT !.flagged = TRUE]
    BY <1>11 DEF ChangeRegistration, ReloadRegistry, NoteRegistryReload, FlagRegistryChanged
  <2>3. row'[r].state = row[r].state /\ row'[r].site = row[r].site /\ row'[r].ticket = row[r].ticket
    BY <2>1, <2>2 DEF Rows
  <2> QED BY <2>3 DEF RowGoes, Lasts, Settles
<1>12. CASE RepairStep
  BY <1>1, <1>2, <1>3, <1>4, <1>5, <1>6, <1>7, <1>8, <1>12 DEF RepairStep, Coordinating, Redeeming
<1>13. CASE RepairTrouble
  BY <1>1, <1>7, <1>8, <1>9, <1>10, <1>11, <1>13 DEF RepairTrouble
<1>14. CASE Untouched
  BY <1>1, <1>14 DEF Untouched
<1> QED BY <1>12, <1>13, <1>14, NextKinds

(* Nothing comes under way but by the issue of its ticket. *)
LEMMA UnderwayGoes ==
  ASSUME RepairInv, [RepairNext]_repairVars, NEW r \in Requests, Underway(r)'
  PROVE  Underway(r) \/ row'[r].state = "ticket_issued"
<1>1. CASE UNCHANGED << agent, wire >>
  BY <1>1 DEF Underway, AtAgent
<1>2. CASE DispatchIssue
  <2> DEFINE q == dispatcher.req
  <2>1. q \in Requests /\ row[q] \in Rows /\ row'[q].state = "ticket_issued"
    BY <1>2 DEF DispatchIssue, IssueTicket, RepairInv, RepairTypeOK, Rows
  <2>2. agent' = agent /\ wire' = wire \cup {q}
    BY <1>2 DEF DispatchIssue, executorVars
  <2> HIDE DEF q
  <2> QED BY <2>1, <2>2 DEF Underway, AtAgent
<1>3. ASSUME NEW q \in Requests, LoseDispatch(q) \/ ApplyTooLate(q) \/ ApplyRefused(q) PROVE Underway(r)
  BY <1>3 DEF LoseDispatch, ApplyTooLate, ApplyRefused, Arrives, executorVars, Underway, AtAgent
<1>4. ASSUME NEW q \in Requests, ApplyAttempt(q) PROVE Underway(r)
  <2>1. q \in wire /\ wire' = wire \ {q} /\ TargetOf(q) \in Macs
    BY <1>4, ArrivedFacts DEF ApplyAttempt
  <2>2. /\ agent'[TargetOf(q)] = [pc |-> "callback", req |-> q]
        /\ \A n \in Macs \ {TargetOf(q)} : agent'[n] = agent[n]
    BY <1>4, <2>1 DEF ApplyAttempt, AttemptRedemption, RepairInv, RepairTypeOK, ExecutorTypeOK
  <2> QED BY <2>1, <2>2 DEF Underway, AtAgent
<1>5. ASSUME NEW m \in Macs, HandlerOver(m) PROVE Underway(r)
  <2>1. agent'[m] = AtRest /\ (\A n \in Macs \ {m} : agent'[n] = agent[n]) /\ wire' = wire
    BY <1>5 DEF HandlerOver, RepairInv, RepairTypeOK, ExecutorTypeOK
  <2> QED BY <2>1 DEF Underway, AtAgent, AtRest
<1>6. ASSUME NEW m \in Macs, ApplyMoves(m) PROVE Underway(r)
  <2>1. agent[m] \in Handlers /\ agent[m].pc # "idle" /\ wire' = wire
    BY <1>6 DEF ApplyMoves, AcceptClaim, StageSettings, ReplaceSettings, Granted, rest, RepairInv, RepairTypeOK, ExecutorTypeOK
  <2>2. agent'[m].req = agent[m].req /\ \A n \in Macs \ {m} : agent'[n] = agent[n]
    BY <1>6, <2>1 DEF ApplyMoves, AcceptClaim, StageSettings, ReplaceSettings, Handlers, RepairInv, RepairTypeOK, ExecutorTypeOK
  <2> QED BY <2>1, <2>2 DEF Underway, AtAgent
<1>7. ASSUME NEW q \in Requests, Adoption(q) \/ ProbeStatus(q) \/ Redeem(q) \/ RedeemLate(q) \/ RedeemRefused(q)
      PROVE  UNCHANGED << agent, wire >>
  BY <1>7 DEF Adoption, ProbeStatus, Redeem, RedeemLate, RedeemRefused, rest
<1>8. Bookkeeping \/ ChangeIdentity => UNCHANGED << agent, wire >>
  BY DEF Bookkeeping, ChangeIdentity, executorVars, rest
<1>9. ASSUME NEW m \in Macs, Edits(m) PROVE UNCHANGED << agent, wire >>
  BY <1>9 DEF Edits, OwnerEdits, rest
<1> QED BY <1>1, <1>2, <1>3, <1>4, <1>5, <1>6, <1>7, <1>8, <1>9, StepKinds, EndedIsOver, RestartIsOver

LEMMA FinalStays == ASSUME TruthInv, [RepairNext]_repairVars PROVE FinalRows'
<1> SUFFICES ASSUME NEW r \in Requests, row'[r].state \in Final, Underway(r)' PROVE FALSE
  BY DEF FinalRows
<1>1. RepairInv /\ RowGoes(r)
  BY RowsGo DEF TruthInv
<1>2. "ticket_issued" \notin Final /\ "needs_review" \in Final
  BY DEF Final, Settled
<1>3. Underway(r)
  BY <1>1, <1>2, UnderwayGoes
<1>4. row[r].ticket # "none" /\ row[r].state \notin Final
  BY <1>3 DEF TruthInv, RepairInv, Unissued, FinalRows
<1>5. Concludes(r)
  BY <1>1, <1>2, <1>4 DEF RowGoes, Settles
<1> QED BY <1>3, <1>5, Constants DEF Concludes, Evidence, RepairInv, TruthInv, EvidenceIsFinal

(* A journal that stays.  The row its request has goes as rows do. *)
Rests(n) ==
    /\ journal'[n] = journal[n] /\ settings'[n] = settings[n]
    /\ \A q \in Requests, word \in Terminal : Evidence(q, word)' => Evidence(q, word)

LEMMA RestTrue ==
  ASSUME TruthInv, NEW n \in Macs, MacTrue(n), Rests(n), \A r \in Requests : RowGoes(r) PROVE MacTrue(n)'
<1> DEFINE r == journal[n].req
<1>1. CASE r = NoRequest
  BY <1>1 DEF Rests, MacTrue
<1>2. CASE r # NoRequest
  <2>1. r \in Requests /\ row[r].ticket # "none"
    BY <1>2 DEF TruthInv, RepairInv, JournalsInOrder, Unissued
  <2> DEFINE j == journal[n]
             s == settings[n]
  <2>2. /\ j.site = row[r].site
        /\ Sound(j, s, row[r].ticket = "redeemed")
        /\ \A word \in Terminal : Evidence(r, word) => j.state = word
        /\ row[r].state = "complete" => j.state = "complete"
        /\ row[r].state = "retryable" => j.state = "never_applied" \/ row[r].ticket # "redeemed"
    BY <1>2 DEF MacTrue
  <2>3. /\ row'[r].site = row[r].site /\ (row[r].ticket = "redeemed" => row'[r].ticket = "redeemed")
        /\ Settles(r) \/ Concludes(r)
    BY <2>1 DEF RowGoes, Lasts
  <2>4. journal'[n] = j /\ settings'[n] = s /\ \A word \in Terminal : Evidence(r, word)' => Evidence(r, word)
    BY <2>1 DEF Rests
  <2>5. Sound(j, s, row'[r].ticket = "redeemed")
    BY <2>2, <2>3 DEF Sound
  <2>6. /\ row'[r].state = "complete" => j.state = "complete"
        /\ row'[r].state = "retryable" => j.state = "never_applied" \/ row'[r].ticket # "redeemed"
    <3>1. CASE Settles(r)
      <4>1. "complete" \in Final /\ "retryable" \in Final
        BY DEF Final, Settled
      <4> QED BY <2>1, <2>2, <3>1, <4>1 DEF Settles
    <3>2. CASE Concludes(r)
      BY <2>2, <3>2 DEF Concludes, Terminal
    <3> QED BY <2>3, <3>1, <3>2
  <2> QED BY <2>2, <2>3, <2>4, <2>5, <2>6 DEF MacTrue
<1> QED BY <1>1, <1>2

(* A journal that takes another word, with no row written: a verdict is     *)
(* final, and any other word fits the settings.                             *)
Fits(j, s, word) ==
    \/ word = j.state
    \/ /\ j.state \notin Terminal
       /\ \/ word \in {"applying", "needs_review"}
          \/ word = "never_applied" /\ (j.state = "redemption_attempted" \/ s = j.pre)
          \/ word = "complete" /\ s = Staged(j)
Turns(n) ==
    /\ journal'[n].req = journal[n].req /\ journal'[n].pre = journal[n].pre /\ journal'[n].site = journal[n].site
    /\ Fits(journal[n], settings[n], journal'[n].state)
    /\ settings'[n] = settings[n]
    /\ \A q \in Requests, word \in Terminal :
           Evidence(q, word)' => Evidence(q, word) \/ (q = journal[n].req => word = journal'[n].state)

LEMMA FitsSound ==
  ASSUME NEW j, NEW k, NEW s, NEW spent \in BOOLEAN, Sound(j, s, spent), k.pre = j.pre, k.site = j.site,
         Fits(j, s, k.state)
  PROVE  Sound(k, s, spent)
  BY DEF Fits, Sound, Terminal, Staged

LEMMA TurnTrue ==
  ASSUME TruthInv, NEW n \in Macs, MacTrue(n), Turns(n), UNCHANGED row PROVE MacTrue(n)'
<1> DEFINE r == journal[n].req
<1>1. CASE r = NoRequest
  BY <1>1 DEF Turns, MacTrue
<1>2. CASE r # NoRequest
  <2>1. r \in Requests
    BY <1>2 DEF TruthInv, RepairInv, JournalsInOrder
  <2> DEFINE j == journal[n]
             k == journal'[n]
             s == settings[n]
  <2>2. /\ j.site = row[r].site
        /\ Sound(j, s, row[r].ticket = "redeemed")
        /\ \A word \in Terminal : Evidence(r, word) => j.state = word
        /\ row[r].state = "complete" => j.state = "complete"
        /\ row[r].state = "retryable" => j.state = "never_applied" \/ row[r].ticket # "redeemed"
    BY <1>2 DEF MacTrue
  <2>3. /\ k.req = r /\ k.pre = j.pre /\ k.site = j.site /\ settings'[n] = s /\ Fits(j, s, k.state)
        /\ \A word \in Terminal : Evidence(r, word)' => Evidence(r, word) \/ word = k.state
    BY <2>1 DEF Turns
  <2>4. j.state \in Terminal => k.state = j.state
    BY <2>3 DEF Fits
  <2>5. Sound(k, s, row[r].ticket = "redeemed")
    <3>1. (row[r].ticket = "redeemed") \in BOOLEAN
      OBVIOUS
    <3> QED BY <2>2, <2>3, <3>1, FitsSound
  <2>6. \A word \in Terminal : Evidence(r, word)' => k.state = word
    BY <2>2, <2>3, <2>4
  <2>7. /\ row[r].state = "complete" => k.state = "complete"
        /\ row[r].state = "retryable" => k.state = "never_applied" \/ row[r].ticket # "redeemed"
    BY <2>2, <2>4 DEF Terminal
  <2> QED BY <2>2, <2>3, <2>5, <2>6, <2>7 DEF MacTrue
<1> QED BY <1>1, <1>2

(* Steps that touch no journal. *)
LEMMA ShrinkRests ==
  ASSUME UNCHANGED << journal, settings >>, probe' = probe \/ probe' = NoProbe,
         dispatcher' = dispatcher \/ dispatcher'.pc # "answered",
         NEW n \in Macs
  PROVE  Rests(n)
  BY DEF Rests, Evidence

LEMMA QuietRests ==
  ASSUME RepairInv, NEW n \in Macs,
         \/ Bookkeeping \/ DispatchIssue \/ ChangeIdentity
         \/ \E r \in Requests : Adoption(r) \/ Redeem(r) \/ RedeemLate(r) \/ RedeemRefused(r) \/ LoseDispatch(r)
  PROVE  Rests(n)
<1>1. CASE Bookkeeping
  BY <1>1, ShrinkRests DEF Bookkeeping
<1>2. CASE DispatchIssue
  <2>1. dispatcher'.pc = "posted"
    BY <1>2 DEF DispatchIssue, RepairInv, RepairTypeOK, Dispatchers
  <2> QED BY <1>2, <2>1, ShrinkRests DEF DispatchIssue, executorVars
<1>3. CASE ChangeIdentity
  BY <1>3, ShrinkRests DEF ChangeIdentity, executorVars, rest
<1>4. ASSUME NEW r \in Requests, Adoption(r) \/ Redeem(r) \/ RedeemLate(r) \/ RedeemRefused(r) \/ LoseDispatch(r)
      PROVE  Rests(n)
  <2>1. UNCHANGED << journal, settings >> /\ (probe' = probe \/ probe' = NoProbe)
        /\ (dispatcher' = dispatcher \/ dispatcher'.pc = "idle")
    BY <1>4 DEF Adoption, Redeem, RedeemLate, RedeemRefused, LoseDispatch, executorVars, rest
  <2> QED BY <2>1, ShrinkRests
<1> QED BY <1>1, <1>2, <1>3, <1>4

(* Steps that write the journal of one Mac and answer for its request. *)
LEMMA ExpireFits ==
  ASSUME NEW j \in Journals, NEW s
  PROVE  LET k == Expire(j, late) IN k.req = j.req /\ k.pre = j.pre /\ k.site = j.site /\ Fits(j, s, k.state)
<1>1. CASE j.state = "redemption_attempted" /\ late[j.req]
  <2>1. Expire(j, late) = [j EXCEPT !.state = "never_applied"]
    BY <1>1 DEF Expire
  <2> QED BY <1>1, <2>1 DEF Journals, Fits, Terminal
<1>2. CASE ~(j.state = "redemption_attempted" /\ late[j.req])
  BY <1>2 DEF Expire, Fits
<1> QED BY <1>1, <1>2

LEMMA OneJournal ==
  ASSUME RepairInv, NEW m \in Macs, journal[m].req \in Requests
  PROVE  \A i \in Macs \ {m} : journal[i].req # journal[m].req
  BY Constants DEF RepairInv, JournalsInOrder

(* One journal is written; the only evidence that appears is of it, or of a *)
(* request no journal has.                                                  *)
OneTurn(m, k, r) ==
    /\ journal' = [journal EXCEPT ![m] = k] /\ settings' = settings
    /\ k.req = journal[m].req /\ k.pre = journal[m].pre /\ k.site = journal[m].site
    /\ Fits(journal[m], settings[m], k.state)
    /\ \A i \in Macs \ {m} : journal[i].req # r
    /\ \A q \in Requests, word \in Terminal :
           Evidence(q, word)' => Evidence(q, word) \/ (q = r /\ (q = journal[m].req => word = k.state))

LEMMA OneTurns ==
  ASSUME RepairInv, NEW m \in Macs, NEW k, NEW r \in Requests, OneTurn(m, k, r), NEW n \in Macs
  PROVE  Turns(n)
<1>1. journal'[m] = k /\ \A i \in Macs \ {m} : journal'[i] = journal[i]
  BY DEF OneTurn, RepairInv, RepairTypeOK, ExecutorTypeOK
<1>2. CASE n = m
  BY <1>1, <1>2 DEF OneTurn, Turns
<1>3. CASE n # m
  <2>1. journal[n].req # r
    BY <1>3 DEF OneTurn
  <2>2. Fits(journal[n], settings[n], journal'[n].state)
    BY <1>1, <1>3 DEF Fits
  <2> QED BY <1>1, <1>3, <2>1, <2>2 DEF OneTurn, Turns
<1> QED BY <1>2, <1>3

LEMMA ReplyEvidence ==
  ASSUME NEW r, NEW w, Reply(r, w), UNCHANGED probe, NEW q \in Requests, NEW word \in Terminal, Evidence(q, word)'
  PROVE  Evidence(q, word) \/ (q = r /\ word = w)
  BY DEF Reply, Evidence

LEMMA ProbeTurns ==
  ASSUME RepairInv, NEW r \in Requests, ProbeStatus(r), NEW n \in Macs PROVE Turns(n)
<1> DEFINE m == TargetOf(r)
           k == StatusJournal(m, late)
<1>1. m \in Macs /\ journal[m] \in Journals
  BY Targets DEF ProbeStatus, RepairInv, RepairTypeOK, ExecutorTypeOK
<1>2. journal[m].req = r /\ StatusWord(m, r, late) = k.state
  BY DEF ProbeStatus, StatusWord, Terminal
<1>3. k.req = journal[m].req /\ k.pre = journal[m].pre /\ k.site = journal[m].site /\ Fits(journal[m], settings[m], k.state)
  <2>1. CASE k = journal[m]
    BY <2>1 DEF Fits
  <2>2. CASE k = Expire(journal[m], late)
    BY <1>1, <2>2, ExpireFits
  <2> QED BY <2>1, <2>2 DEF StatusJournal
<1>4. /\ probe' = [req |-> r, word |-> k.state] /\ dispatcher' = dispatcher
      /\ journal' = [journal EXCEPT ![m] = k] /\ settings' = settings
  BY <1>2 DEF ProbeStatus
<1> HIDE DEF m, k
<1>5. \A q \in Requests, word \in Terminal : Evidence(q, word)' => Evidence(q, word) \/ (q = r /\ word = k.state)
  BY <1>4 DEF Evidence
<1>6. \A q \in Requests, word \in Terminal :
             Evidence(q, word)' => Evidence(q, word) \/ (q = r /\ (q = journal[m].req => word = k.state))
  BY <1>5
<1>7. \A i \in Macs \ {m} : journal[i].req # r
  BY <1>1, <1>2, OneJournal
<1>8. OneTurn(m, k, r) /\ m \in Macs
  BY <1>1, <1>3, <1>4, <1>6, <1>7 DEF OneTurn
<1> QED BY <1>8, OneTurns

LEMMA RefusedTurns ==
  ASSUME RepairInv, NEW r \in Requests, ApplyTooLate(r) \/ ApplyRefused(r), NEW n \in Macs PROVE Turns(n)
<1> DEFINE m == TargetOf(r)
           k == Expire(journal[m], late)
<1>1. m \in Macs /\ journal[m] \in Journals /\ \A i \in Macs : journal[i].req # r
  BY ArrivedFacts DEF ApplyTooLate, ApplyRefused, RepairInv, RepairTypeOK, ExecutorTypeOK
<1>2. k.req = journal[m].req /\ k.pre = journal[m].pre /\ k.site = journal[m].site /\ Fits(journal[m], settings[m], k.state)
  BY <1>1, ExpireFits
<1>3. journal' = [journal EXCEPT ![m] = k] /\ settings' = settings /\ probe' = probe
  BY DEF ApplyTooLate, ApplyRefused, Expired
<1>4. Reply(r, "never_applied") \/ Reply(r, "needs_review")
  BY DEF ApplyTooLate, ApplyRefused
<1> HIDE DEF m, k
<1>5. \A q \in Requests, word \in Terminal :
             Evidence(q, word)' => Evidence(q, word) \/ (q = r /\ (q = journal[m].req => word = k.state))
  BY <1>1, <1>3, <1>4, ReplyEvidence
<1>6. \A i \in Macs \ {m} : journal[i].req # r
  BY <1>1
<1>7. m \in Macs
  BY <1>1
<1>8. OneTurn(m, k, r)
  BY <1>2, <1>3, <1>5, <1>6 DEF OneTurn
<1> QED BY <1>7, <1>8, OneTurns

LEMMA ClassifiedFits ==
  ASSUME NEW m \in Macs PROVE Fits(journal[m], settings[m], Classified(m))
<1>1. CASE journal[m].state # "applying"
  <2>1. Classified(m) = journal[m].state
    BY <1>1 DEF Classified
  <2> QED BY <2>1 DEF Fits
<1>2. CASE journal[m].state = "applying"
  <2>1. \/ Classified(m) = "complete" /\ settings[m] = Staged(journal[m])
        \/ Classified(m) = "never_applied" /\ settings[m] = journal[m].pre
        \/ Classified(m) = "needs_review"
    BY <1>2 DEF Classified, PreimageKept
  <2> QED BY <1>2, <2>1 DEF Fits, Terminal
<1> QED BY <1>1, <1>2

(* The word a handler ends with is what its journal takes. *)
LEMMA EndWords ==
  ASSUME RepairInv, NEW m \in Macs, ApplyStep(m), ~ApplyMoves(m)
  PROVE  \E word \in Words : /\ agent[m].pc # "idle" /\ Ends(m, word) /\ Reply(agent[m].req, word)
                             /\ UNCHANGED << row, probe >> /\ Fits(journal[m], settings[m], word)
<1>1. agent[m].pc # "idle" => /\ journal[m].state = "redemption_attempted" \/ journal[m].state = "applying"
                              /\ agent[m].pc = "callback" => journal[m].state = "redemption_attempted"
  BY DEF RepairInv, HandlersInOrder, Writing
<1>2. ASSUME NEW word \in {"redemption_attempted", "needs_review"}, ApplyEnds(m, CallbackFails(m, word), word)
      PROVE  /\ agent[m].pc # "idle" /\ Ends(m, word) /\ Reply(agent[m].req, word)
             /\ UNCHANGED << row, probe >> /\ Fits(journal[m], settings[m], word)
  BY <1>1, <1>2 DEF ApplyEnds, CallbackFails, Fits, Terminal
<1>3. ASSUME ApplyEnds(m, PreimageChanged(m), "needs_review")
      PROVE  /\ agent[m].pc # "idle" /\ Ends(m, "needs_review") /\ Reply(agent[m].req, "needs_review")
             /\ UNCHANGED << row, probe >> /\ Fits(journal[m], settings[m], "needs_review")
  BY <1>1, <1>3 DEF ApplyEnds, PreimageChanged, Granted, Fits, Terminal
<1>4. ASSUME ApplyEnds(m, WriterBusy(m), "never_applied")
      PROVE  /\ agent[m].pc # "idle" /\ Ends(m, "never_applied") /\ Reply(agent[m].req, "never_applied")
             /\ UNCHANGED << row, probe >> /\ Fits(journal[m], settings[m], "never_applied")
  BY <1>1, <1>4 DEF ApplyEnds, WriterBusy, Granted, Fits, Terminal
<1>5. ASSUME ApplyEnds(m, ApplyComplete(m), "complete")
      PROVE  /\ agent[m].pc # "idle" /\ Ends(m, "complete") /\ Reply(agent[m].req, "complete")
             /\ UNCHANGED << row, probe >> /\ Fits(journal[m], settings[m], "complete")
  BY <1>1, <1>5 DEF ApplyEnds, ApplyComplete, Fits, Terminal
<1>6. ASSUME ApplyEnds(m, ApplyFails(m), Classified(m))
      PROVE  /\ agent[m].pc # "idle" /\ Ends(m, Classified(m)) /\ Reply(agent[m].req, Classified(m))
             /\ UNCHANGED << row, probe >> /\ Fits(journal[m], settings[m], Classified(m))
  BY <1>6, ClassifiedFits DEF ApplyEnds, ApplyFails, Writing
<1>7. Classified(m) \in Words /\ {"redemption_attempted", "needs_review", "never_applied", "complete"} \subseteq Words
  BY ClassifiedWord DEF RepairInv, Words
<1> QED BY <1>2, <1>3, <1>4, <1>5, <1>6, <1>7 DEF ApplyStep

LEMMA EndTurns ==
  ASSUME RepairInv, NEW m \in Macs, ApplyStep(m), ~ApplyMoves(m), NEW n \in Macs PROVE Turns(n)
<1>1. PICK word \in Words : /\ agent[m].pc # "idle" /\ Ends(m, word) /\ Reply(agent[m].req, word)
                            /\ UNCHANGED << row, probe >> /\ Fits(journal[m], settings[m], word)
  BY EndWords
<1> DEFINE r == agent[m].req
           k == [journal[m] EXCEPT !.state = word, !.staged = FALSE]
<1>2. r \in Requests /\ journal[m].req = r /\ journal[m] \in Journals
  BY <1>1 DEF RepairInv, HandlersInOrder, RepairTypeOK, ExecutorTypeOK
<1>3. k.req = journal[m].req /\ k.pre = journal[m].pre /\ k.site = journal[m].site /\ k.state = word
  BY <1>2 DEF Journals
<1>4. journal' = [journal EXCEPT ![m] = k] /\ settings' = settings
  BY <1>1 DEF Ends
<1> HIDE DEF k
<1>5. \A q \in Requests, w \in Terminal :
             Evidence(q, w)' => Evidence(q, w) \/ (q = r /\ (q = journal[m].req => w = k.state))
  BY <1>1, <1>3, ReplyEvidence
<1> HIDE DEF r
<1>6. \A i \in Macs \ {m} : journal[i].req # r
  BY <1>2, OneJournal
<1>7. OneTurn(m, k, r)
  <2>1. Fits(journal[m], settings[m], k.state)
    BY <1>1, <1>3
  <2> QED BY <1>3, <1>4, <1>5, <1>6, <2>1 DEF OneTurn
<1> QED BY <1>2, <1>7, OneTurns

LEMMA RestartTurns ==
  ASSUME RepairInv, NEW m \in Macs, Restarts(m), NEW n \in Macs PROVE Turns(n)
<1> DEFINE c == [journal[m] EXCEPT !.state = Classified(m), !.staged = FALSE]
           k == Expire(c, late)
<1>1. journal[m] \in Journals /\ Classified(m) \in Words
  BY ClassifiedWord DEF RepairInv, RepairTypeOK, ExecutorTypeOK
<1>2. c \in Journals
  BY <1>1, JournalOf
<1>3. c.req = journal[m].req /\ c.pre = journal[m].pre /\ c.site = journal[m].site /\ c.state = Classified(m)
  BY <1>1 DEF Journals
<1>4. journal' = [journal EXCEPT ![m] = k] /\ settings' = settings /\ UNCHANGED << probe, dispatcher >>
  BY DEF Restarts, AgentRestart, rest
<1> HIDE DEF c
<1>5. k.req = c.req /\ k.pre = c.pre /\ k.site = c.site /\ Fits(c, settings[m], k.state)
  BY <1>2, ExpireFits
<1>6. Fits(journal[m], settings[m], k.state)
  <2>1. CASE k.state = c.state
    BY <1>3, <2>1, ClassifiedFits
  <2>2. CASE k.state # c.state
    <3>1. c.state = "redemption_attempted"
      BY <2>2 DEF Expire
    <3>2. journal[m].state = "redemption_attempted"
      BY <1>3, <3>1 DEF Classified
    <3>3. k = [c EXCEPT !.state = "never_applied"]
      BY <2>2 DEF Expire
    <3>4. k.state = "never_applied"
      BY <1>2, <3>3 DEF Journals
    <3> QED BY <3>2, <3>4 DEF Fits, Terminal
  <2> QED BY <2>1, <2>2
<1> HIDE DEF k
<1>7. journal'[m] = k /\ \A i \in Macs \ {m} : journal'[i] = journal[i]
  BY <1>4 DEF RepairInv, RepairTypeOK, ExecutorTypeOK
<1>8. \A q \in Requests, word \in Terminal : Evidence(q, word)' => Evidence(q, word)
  BY <1>4 DEF Evidence
<1>9. Fits(journal[n], settings[n], journal'[n].state)
  BY <1>6, <1>7 DEF Fits
<1> QED BY <1>3, <1>4, <1>5, <1>7, <1>8, <1>9 DEF Turns

(* The three steps that write a journal or settings anew. *)
LEMMA AttemptTrue ==
  ASSUME TruthInv, NEW r \in Requests, ApplyAttempt(r), NEW n \in Macs, MacTrue(n), RepairInv' PROVE MacTrue(n)'
<1> DEFINE m == TargetOf(r)
           k == [req |-> r, state |-> "redemption_attempted", pre |-> settings[m], site |-> row[r].site, staged |-> FALSE]
<1>1. m \in Macs /\ Underway(r) /\ RepairInv
  BY ArrivedFacts DEF ApplyAttempt, TruthInv
<1>2. UNCHANGED << row, dispatcher, probe, settings >> /\ journal' = [journal EXCEPT ![m] = k]
  BY DEF ApplyAttempt, AttemptRedemption
<1>3. journal'[m] = k /\ \A i \in Macs \ {m} : journal'[i] = journal[i]
  BY <1>1, <1>2 DEF RepairInv, RepairTypeOK, ExecutorTypeOK
<1>4. \A q \in Requests, word \in Terminal : Evidence(q, word)' <=> Evidence(q, word)
  BY <1>2 DEF Evidence
<1>5. CASE n # m
  <2>1. Turns(n)
    BY <1>2, <1>3, <1>4, <1>5 DEF Turns, Fits
  <2> QED BY <1>2, <2>1, TurnTrue
<1>6. CASE n = m
  <2>1. \A word \in Terminal : ~Evidence(r, word)
    BY <1>1, Constants DEF Evidence, RepairInv, EvidenceIsFinal
  <2>2. row[r].state \notin {"complete", "retryable"}
    BY <1>1 DEF TruthInv, FinalRows, Final, Settled
  <2>3. Sound(k, settings[m], row[r].ticket = "redeemed")
    <3>1. settings[m].edits \in Nat
      BY <1>1 DEF RepairInv, RepairTypeOK, ExecutorTypeOK, Settings
    <3> QED BY <3>1 DEF Sound
  <2>4. k.req = r /\ k.site = row[r].site
    OBVIOUS
  <2>5. journal'[n] = k /\ settings'[n] = settings[m] /\ row' = row
    BY <1>2, <1>3, <1>6
  <2> HIDE DEF k, m
  <2> QED BY <1>4, <2>1, <2>2, <2>3, <2>4, <2>5 DEF MacTrue
<1> QED BY <1>5, <1>6

LEMMA MoveTrue ==
  ASSUME TruthInv, NEW m \in Macs, ApplyMoves(m), NEW n \in Macs, MacTrue(n) PROVE MacTrue(n)'
<1>1. UNCHANGED << row, probe, dispatcher >> /\ RepairInv
  BY DEF ApplyMoves, rest, TruthInv
<1>2. \A q \in Requests, word \in Terminal : Evidence(q, word)' <=> Evidence(q, word)
  BY <1>1 DEF Evidence
<1>3. journal[m] \in Journals /\ journal \in [Macs -> Journals]
  BY <1>1 DEF RepairInv, RepairTypeOK, ExecutorTypeOK
<1>4. agent[m].pc # "idle" => /\ agent[m].req \in Requests /\ journal[m].req = agent[m].req
                              /\ journal[m].state = IF Writing(m) THEN "applying" ELSE "redemption_attempted"
                              /\ Writing(m) => row[agent[m].req].ticket = "redeemed"
  BY <1>1 DEF RepairInv, HandlersInOrder, ClaimsInOrder, LiveClaim
<1>5. CASE AcceptClaim(m) \/ StageSettings(m)
  <2>1. journal[m].state \notin Terminal
    BY <1>4, <1>5 DEF AcceptClaim, StageSettings, Granted, Terminal
  <2>2. PICK k \in {[journal[m] EXCEPT !.state = "applying"], [journal[m] EXCEPT !.staged = TRUE]} :
            journal' = [journal EXCEPT ![m] = k] /\ settings' = settings
    BY <1>5 DEF AcceptClaim, StageSettings
  <2>3. /\ k.req = journal[m].req /\ k.pre = journal[m].pre /\ k.site = journal[m].site
        /\ k.state \in {"applying", journal[m].state}
    BY <1>3, <2>2 DEF Journals
  <2>4. journal'[m] = k /\ \A i \in Macs \ {m} : journal'[i] = journal[i]
    BY <1>3, <2>2
  <2>5. Fits(journal[n], settings[n], journal'[n].state)
    BY <2>1, <2>3, <2>4 DEF Fits
  <2>6. Turns(n)
    BY <1>2, <2>2, <2>3, <2>4, <2>5 DEF Turns
  <2> QED BY <1>1, <2>6, TurnTrue
<1>6. CASE ReplaceSettings(m)
  <2> DEFINE j == journal[m]
             s == Staged(j)
  <2>1. journal' = journal /\ settings' = [settings EXCEPT ![m] = s]
    BY <1>6 DEF ReplaceSettings
  <2>2. settings'[m] = s /\ \A i \in Macs \ {m} : settings'[i] = settings[i]
    BY <1>1, <2>1 DEF RepairInv, RepairTypeOK, ExecutorTypeOK
  <2>3. CASE n # m
    <3>1. Turns(n)
      BY <1>2, <2>1, <2>2, <2>3 DEF Turns, Fits
    <3> QED BY <1>1, <3>1, TurnTrue
  <2>4. CASE n = m
    <3>1. j.req \in Requests /\ j.req # NoRequest /\ row[j.req].ticket = "redeemed" /\ j.state = "applying"
      BY <1>4, <1>6, Constants DEF ReplaceSettings, Writing
    <3>2. s.edits = j.pre.edits /\ j.pre.edits \in Nat
      BY <1>3 DEF Staged, Journals, Settings
    <3>3. Sound(j, s, TRUE)
      BY <3>1, <3>2 DEF Sound
    <3>4. /\ j.site = row[j.req].site
          /\ \A word \in Terminal : Evidence(j.req, word) => j.state = word
          /\ row[j.req].state = "complete" => j.state = "complete"
          /\ row[j.req].state = "retryable" => j.state = "never_applied" \/ row[j.req].ticket # "redeemed"
      BY <2>4, <3>1 DEF MacTrue
    <3>5. journal'[n] = j /\ settings'[n] = s /\ (row[j.req].ticket = "redeemed") = TRUE
      BY <2>1, <2>2, <2>4, <3>1
    <3> HIDE DEF j, s
    <3> QED BY <1>1, <1>2, <3>1, <3>3, <3>4, <3>5 DEF MacTrue
  <2> QED BY <2>3, <2>4
<1> QED BY <1>5, <1>6 DEF ApplyMoves

LEMMA EditTrue ==
  ASSUME TruthInv, NEW m \in Macs, Edits(m), NEW n \in Macs, MacTrue(n) PROVE MacTrue(n)'
<1> DEFINE s == [edits |-> settings[m].edits + 1, site |-> NoSite]
<1>1. UNCHANGED << row, probe, dispatcher, journal >> /\ settings' = [settings EXCEPT ![m] = s] /\ RepairInv
  BY DEF Edits, OwnerEdits, rest, TruthInv
<1>2. \A q \in Requests, word \in Terminal : Evidence(q, word)' <=> Evidence(q, word)
  BY <1>1 DEF Evidence
<1>3. settings'[m] = s /\ \A i \in Macs \ {m} : settings'[i] = settings[i]
  BY <1>1 DEF RepairInv, RepairTypeOK, ExecutorTypeOK
<1>4. CASE n # m
  <2>1. Turns(n)
    BY <1>1, <1>2, <1>3, <1>4 DEF Turns, Fits
  <2> QED BY <1>1, <2>1, TurnTrue
<1>5. CASE n = m /\ journal[m].req # NoRequest
  <2> DEFINE j == journal[m]
  <2>1. s.edits > settings[m].edits /\ settings[m].edits \in Nat /\ j.pre.edits \in Nat
    BY <1>1 DEF RepairInv, RepairTypeOK, ExecutorTypeOK, Settings, Journals
  <2>2. /\ j.site = row[j.req].site
        /\ Sound(j, settings[m], row[j.req].ticket = "redeemed")
        /\ \A word \in Terminal : Evidence(j.req, word) => j.state = word
        /\ row[j.req].state = "complete" => j.state = "complete"
        /\ row[j.req].state = "retryable" => j.state = "never_applied" \/ row[j.req].ticket # "redeemed"
    BY <1>5 DEF MacTrue
  <2>3. s.edits \in Nat
    BY <2>1
  <2> HIDE DEF s
  <2>4. Sound(j, s, row[j.req].ticket = "redeemed")
    BY <2>1, <2>2, <2>3 DEF Sound
  <2>5. j.req \in Requests
    BY <1>1, <1>5 DEF RepairInv, JournalsInOrder
  <2>6. journal'[n] = j /\ settings'[n] = s
    BY <1>1, <1>3, <1>5
  <2> HIDE DEF j
  <2> QED BY <1>1, <1>2, <2>2, <2>4, <2>5, <2>6 DEF MacTrue
<1>6. CASE n = m /\ journal[m].req = NoRequest
  BY <1>1, <1>6 DEF MacTrue
<1> QED BY <1>4, <1>5, <1>6

LEMMA TruthNext == TruthInv /\ [RepairNext]_repairVars => TruthInv'
<1> SUFFICES ASSUME TruthInv, [RepairNext]_repairVars PROVE TruthInv'
  OBVIOUS
<1>1. RepairInv /\ RepairInv' /\ FinalRows' /\ \A r \in Requests : RowGoes(r)
  BY NextKeeps, FinalStays, RowsGo DEF TruthInv
<1>2. ASSUME NEW n \in Macs PROVE MacTrue(n)'
  <2>1. MacTrue(n)
    BY DEF TruthInv
  <2>2. CASE Rests(n)
    BY <1>1, <2>1, <2>2, RestTrue
  <2>3. ASSUME NEW r \in Requests, ProbeStatus(r) \/ ApplyTooLate(r) \/ ApplyRefused(r) PROVE MacTrue(n)'
    <3>1. Turns(n)
      BY <1>1, <2>3, ProbeTurns, RefusedTurns
    <3>2. UNCHANGED row
      BY <2>3 DEF ProbeStatus, ApplyTooLate, ApplyRefused
    <3> QED BY <2>1, <3>1, <3>2, TurnTrue
  <2>4. ASSUME NEW r \in Requests, ApplyAttempt(r) PROVE MacTrue(n)'
    BY <1>1, <2>1, <2>4, AttemptTrue
  <2>5. ASSUME NEW m \in Macs, ApplyStep(m), ~ApplyMoves(m) PROVE MacTrue(n)'
    <3>1. Turns(n)
      BY <1>1, <2>5, EndTurns
    <3>2. UNCHANGED row
      BY <2>5 DEF ApplyStep, ApplyEnds
    <3> QED BY <2>1, <3>1, <3>2, TurnTrue
  <2>6. ASSUME NEW m \in Macs, Restarts(m) PROVE MacTrue(n)'
    <3>1. Turns(n) /\ UNCHANGED row
      BY <1>1, <2>6, RestartTurns DEF Restarts
    <3> QED BY <2>1, <3>1, TurnTrue
  <2>7. ASSUME NEW m \in Macs, ApplyMoves(m) \/ Edits(m) PROVE MacTrue(n)'
    BY <2>1, <2>7, MoveTrue, EditTrue
  <2>8. CASE \/ Bookkeeping \/ DispatchIssue \/ ChangeIdentity
             \/ \E r \in Requests : Adoption(r) \/ Redeem(r) \/ RedeemLate(r) \/ RedeemRefused(r) \/ LoseDispatch(r)
    BY <1>1, <2>2, <2>8, QuietRests
  <2> QED BY <1>1, <2>3, <2>4, <2>5, <2>6, <2>7, <2>8, StepKinds
<1> QED BY <1>1, <1>2 DEF TruthInv

(* What the Controller tells the owner of a repair is what happened on the  *)
(* Mac: a completed one is in its settings, a retryable one left them       *)
(* alone, through timeouts, parked rows, stale status answers, expired      *)
(* tickets and restarts of either side (adopt_status, _expire, recover).    *)
THEOREM OutcomesTrue == RepairSpec => []OutcomeTruthful
<1>1. RepairInit => TruthInv
  <2> SUFFICES ASSUME RepairInit PROVE TruthInv
    OBVIOUS
  <2>1. RepairInv
    BY InitInv
  <2>2. \A m \in Macs : journal[m] = NoJournal /\ agent[m] = AtRest
    BY DEF RepairInit, ExecutorInit
  <2>3. \A m \in Macs : MacTrue(m)
    BY <2>2 DEF MacTrue, NoJournal
  <2>4. FinalRows
    BY <2>2 DEF FinalRows, Underway, AtAgent, AtRest, RepairInit
  <2> QED BY <2>1, <2>3, <2>4 DEF TruthInv
<1>2. TruthInv => OutcomeTruthful
  <2> SUFFICES ASSUME TruthInv, NEW r \in Requests, TargetOf(r) \in Macs, journal[TargetOf(r)].req = r,
                      settings[TargetOf(r)].edits = journal[TargetOf(r)].pre.edits
               PROVE  /\ row[r].state = "complete" => settings[TargetOf(r)].site = row[r].site
                      /\ row[r].state = "retryable" => settings[TargetOf(r)] = journal[TargetOf(r)].pre
    BY DEF OutcomeTruthful
  <2> DEFINE m == TargetOf(r)
  <2>1. r # NoRequest
    BY Constants
  <2>2. /\ journal[m].site = row[r].site
        /\ Sound(journal[m], settings[m], row[r].ticket = "redeemed")
        /\ row[r].state = "complete" => journal[m].state = "complete"
        /\ row[r].state = "retryable" => journal[m].state = "never_applied" \/ row[r].ticket # "redeemed"
    BY <2>1 DEF TruthInv, MacTrue
  <2> QED BY <2>2 DEF Sound
<1> QED BY <1>1, <1>2, TruthNext, PTL DEF RepairSpec
=============================================================================
