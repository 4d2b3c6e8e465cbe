------------------------------ MODULE RepairStore ------------------------------
(***************************************************************************)
(* The Controller's durable rows of enrollment repair                      *)
(* (enrollment_repair_store.py).  Every definition that names a method is  *)
(* one SQLite transaction of it.  A row keeps what later transitions read: *)
(* its lifecycle, the ticket's separate lifecycle, the dispatch slot and   *)
(* the Controller and registry snapshots the ticket was bound to.  Batches *)
(* are counts recomputed from the rows and are not state here.             *)
(***************************************************************************)
EXTENDS RepairRequests

CONSTANTS
    Nobody,     \* not a Mac
    Bindings    \* what the registry may say of a Mac: where it is

ASSUME NobodyAssumption == Nobody \notin Macs

VARIABLE row        \* enrollment_repair_requests

Settled == {"complete", "retryable", "hub_update_required"}
Live == {"redeemed", "verifying", "confirmation_pending"}
Parkable == Live \cup {"ticket_issued", "dispatched"}
States == Settled \cup Parkable \cup {"absent", "queued", "checking", "needs_review"}

Blank == [target |-> Nobody, state |-> "absent", ticket |-> "none", slot |-> FALSE,
          site |-> 0, bind |-> "none", before |-> {}, flagged |-> FALSE]

StoreInit == row = [r \in Requests |-> Blank]

Rows == [target : Macs \cup {Nobody}, state : States, slot : BOOLEAN, flagged : BOOLEAN,
         ticket : {"none", "issued", "redeemed", "expired"}, site : Nat, bind : Bindings \cup {"none"},
         before : SUBSET Requests]

Created(r) == row[r].state # "absent"
Active(r) == Created(r) /\ row[r].state \notin Settled

(* one_unresolved_repair_per_target *)
ActiveFor(m) == {r \in Requests : Active(r) /\ row[r].target = m}

(* A row with a ticket that was redeemed and no terminal evidence: its      *)
(* target may still write its identity.                                     *)
LiveClaim(r) == row[r].state \in Live /\ row[r].ticket = "redeemed"

(* Mutant of Blocked: a parked claim is not counted. *)
MutantBlocked == \E r \in Requests : row[r].state \in {"redeemed", "verifying"}

(* mutation_blocker, of any target or of one. *)
Blocked == \E r \in Requests : row[r].state \in Live
BlockedFor(m) == \E r \in Requests : row[r].state \in Live /\ row[r].target = m

(* A review that the next batch for its Mac resolves: the ticket was never  *)
(* issued (resolve_preclaim_review), or it can no longer be redeemed        *)
(* (resolve_expired_unredeemed_review).                                     *)
PreclaimReview(r) == row[r].state = "needs_review" /\ row[r].ticket = "none"
ExpiredReview(r, late) ==
    row[r].state = "needs_review" /\ row[r].ticket \in {"issued", "expired"} /\ late[r]
Resolved(r, late) ==
    CASE PreclaimReview(r) -> [row[r] EXCEPT !.state = "retryable"]
      [] ExpiredReview(r, late) -> [row[r] EXCEPT !.state = "retryable", !.ticket = "expired"]
      [] OTHER -> row[r]

(* eligibility: every expired review is resolved, whatever its Mac. *)
ResolveExpired(late) ==
    row' = [r \in Requests |-> IF ExpiredReview(r, late) THEN Resolved(r, late) ELSE row[r]]

(* Mutant of StillOpen: a review no longer holds its Mac. *)
MutantStillOpen(r, ms, late) == Active(r) /\ row[r].state # "needs_review"

(* The requests that keep their Mac from getting another one.               *)
StillOpen(r, ms, late) ==
    /\ Active(r)
    /\ ~(row[r].target \in ms /\ (PreclaimReview(r) \/ ExpiredReview(r, late)))

(* create_or_adopt_batch, after the reviews of the chosen Macs were         *)
(* resolved: a row for every Mac without an unresolved one; if every Mac    *)
(* has one the batch is adopted or refused and no row is written.           *)
CreateOrAdoptBatch(ms, late) ==
    LET taken == {row[r].target : r \in {q \in Requests : StillOpen(q, ms, late)}}
        fresh == ms \ taken
        unused == {r \in Requests : ~Created(r)}
        kept(r) == IF row[r].target \in ms THEN Resolved(r, late) ELSE row[r]
    IN \E new \in SUBSET unused : \E asked \in [new -> fresh] :
           /\ \A r \in new, q \in unused \ new : r < q
           /\ \A m \in fresh : \E r \in new : asked[r] = m
           /\ \A r, q \in new : asked[r] = asked[q] => r = q
           /\ row' = [r \in Requests |->
                  IF r \in new THEN [Blank EXCEPT !.target = asked[r], !.state = "queued"] ELSE kept(r)]

HasDispatchableRequest ==
    (\A q \in Requests : ~row[q].slot) /\ \E q \in Requests : row[q].state = "queued"

(* claim_next_dispatch: the oldest queued row takes the only slot.          *)
ClaimNextDispatch(r) ==
    /\ HasDispatchableRequest
    /\ row[r].state = "queued" /\ \A q \in Requests : q < r => row[q].state # "queued"
    /\ row' = [row EXCEPT ![r] = [row[r] EXCEPT !.state = "checking", !.slot = TRUE]]

FailBeforeClaim(r, outcome) ==
    /\ row[r].state \in {"queued", "checking"} /\ row[r].ticket = "none"
    /\ row' = [row EXCEPT ![r] = [row[r] EXCEPT !.state = outcome, !.slot = FALSE]]

(* issue_ticket: bound to the Controller's identity and to the registry as  *)
(* they are now.  "before" is what issued_at separates: the completions of  *)
(* earlier repair efforts.                                                  *)
IssueTicket(r, site, bind) ==
    /\ row[r].state \in {"queued", "checking"} /\ row[r].ticket = "none"
    /\ row' = [row EXCEPT ![r] = [row[r] EXCEPT !.state = "ticket_issued", !.ticket = "issued",
                                           !.site = site, !.bind = bind,
                                           !.before = {q \in Requests : row[q].state = "complete"}]]

(* mark_dispatched refuses a row whose ticket the target redeemed while the *)
(* dispatch request was open.                                               *)
Dispatchable(r) == row[r].state = "ticket_issued" /\ row[r].ticket = "issued"

(* Mutant of Redeemable: the Controller identity is not compared. *)
MutantRedeemable(r, site, bind, late) ==
    /\ row[r].ticket = "issued" /\ row[r].state \in {"ticket_issued", "dispatched"} /\ ~late[r]
    /\ row[r].bind = bind

(* redeem, the checks that consume a ticket. *)
Redeemable(r, site, bind, late) ==
    /\ row[r].ticket = "issued" /\ row[r].state \in {"ticket_issued", "dispatched"} /\ ~late[r]
    /\ row[r].site = site /\ row[r].bind = bind
    /\ \A q \in Requests : row[q].target = row[r].target /\ q # r /\ row[q].state = "complete"
                               => q \in row[r].before
Redeemed(r) == [row EXCEPT ![r] = [row[r] EXCEPT !.ticket = "redeemed", !.state = "redeemed"]]

(* redeem past the deadline: the ticket ends, the row waits for status.     *)
ExpiresAtRedeem(r, late) ==
    row[r].ticket = "issued" /\ row[r].state \in {"ticket_issued", "dispatched"} /\ late[r]
ExpiredAtRedeem(r) ==
    [row EXCEPT ![r] = [row[r] EXCEPT !.ticket = "expired", !.state = "confirmation_pending", !.slot = FALSE]]

(* Mutant of ParkedRow: the slot stays taken. *)
MutantParkedRow(r) == [row EXCEPT ![r].state = "confirmation_pending"]

(* park *)
ParkedRow(r) == [row EXCEPT ![r] = [row[r] EXCEPT !.state = "confirmation_pending", !.slot = FALSE]]

(* adopt_status: terminal evidence of the target ends the row; a settled    *)
(* one answers the same evidence again and refuses any other.               *)
Terminal == {"complete", "never_applied", "needs_review"}
Adoptable(r, word) ==
    /\ word \in Terminal /\ row[r].state \in Parkable
    /\ word = "complete" => row[r].ticket = "redeemed"

Closed(ticket) == IF ticket = "issued" THEN "expired" ELSE ticket

AdoptedRow(rows, r, word) ==
    [rows EXCEPT ![r] = [rows[r] EXCEPT !.state = IF word = "never_applied" THEN "retryable" ELSE word,
                                        !.ticket = Closed(rows[r].ticket), !.slot = FALSE]]

(* flag_registry_changed, of every live claim note_registry_reload found    *)
(* changed: evidence only, the claim stays live.                            *)
FlagRegistryChanged(rs) == row' = [r \in Requests |-> IF r \in rs THEN [row[r] EXCEPT !.flagged = TRUE] ELSE row[r]]

(* recover_scheduling_slot, when the Controller starts; with a slot in any   *)
(* other state it raises, and the Hub does not start.                       *)
Recoverable(r) ==
    \/ row[r].state \in {"ticket_issued", "dispatched", "redeemed", "verifying"}
    \/ row[r].state = "checking" /\ row[r].ticket = "none"
RecoverSchedulingSlot ==
    /\ \A r \in Requests : row[r].slot => Recoverable(r)
    /\ row' = [r \in Requests |->
           IF ~row[r].slot THEN row[r]
           ELSE [row[r] EXCEPT !.slot = FALSE,
                               !.state = IF row[r].state = "checking" THEN "queued" ELSE "confirmation_pending"]]
=============================================================================
