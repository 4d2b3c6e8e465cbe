--------------------------- MODULE FleetMaintenance ---------------------------
(* The maintenance of one Mac: its Hub's updater, its Studios' jobs and the   *)
(* withdrawal of its site, people and the schedule asking for all of them,    *)
(* and the row the Controller keeps of the Hub update it asked this Mac for   *)
(* (fleet_ops._update_hub_one).                                               *)
EXTENDS HubUpdater, SiteMaintenance

CONSTANTS
    MaxAsked,       \* bound: what people and the Controller ask for in a behaviour
    MaxTrouble      \* bound: failing steps, killed helpers, restarts and lost messages

VARIABLES
    row,            \* the Controller's row: its status and the operation it posts
    asked, trouble

vars == << updaterVars, siteVars, row, asked, trouble >>

NoRow == [status |-> "none"]
Init == UpdaterInit /\ SiteInit /\ row = NoRow /\ asked = 0 /\ trouble = 0

Asking == asked < MaxAsked /\ asked' = asked + 1 /\ UNCHANGED trouble
Trouble == trouble < MaxTrouble /\ trouble' = trouble + 1 /\ UNCHANGED asked
Quiet == UNCHANGED << asked, trouble >>
SiteStays == UNCHANGED << siteVars, row >>
UpdaterStays == UNCHANGED << updaterVars, row >>

-----------------------------------------------------------------------------
(* What is asked of the Hub *)

AskManaged(op) == (TriggerManaged(op, TRUE) \/ QueueManaged(op)) /\ SiteStays /\ Asking
AskPlain(h) == TriggerPlain(h) /\ SiteStays /\ Asking
AskDrained == TriggerDrained /\ DrainBegins /\ UNCHANGED row /\ Asking
AskSettings(mode) == SaveSettings(mode) /\ SiteStays /\ Asking
AskCheck == CheckStarts /\ SiteStays /\ Asking
AskWork == hub.up /\ Submit /\ UpdaterStays /\ Asking
AskJob(chosen) ==
    /\ hub.up /\ (StartUpdates(chosen) \/ StartInstalls(chosen) \/ StartRepairs(chosen))
    /\ UpdaterStays /\ Asking
AskRolling(chosen) == hub.up /\ StartRolling(chosen) /\ UpdaterStays /\ Asking
(* restart_hub: of the service, when nothing is in the way, or by force *)
AskRestart(force) == RestartService /\ (force \/ Idle) /\ SiteRestarts /\ UNCHANGED row /\ Asking

(* What the Hub goes on with *)
SiteMoves ==
    /\ hub.up
    /\ \/ \E s \in Studios : Pick(s) \/ Lease(s) \/ LeaseEnds(s) \/ RollingBegins(s) \/ RollingEnds(s)
       \/ \E s \in Studios : UpdateGoesOn(s) \/ InstallGoesOn(s) \/ RepairGoesOn(s)
       \/ \E s \in Studios : UpdateEnds(s) \/ InstallEnds(s) \/ RepairEnds(s)
       \/ \E k \in Kinds : JobCloses(k)
    /\ UpdaterStays /\ Quiet
SiteWaitsOver == hub.up /\ (\E k \in Kinds, s \in Studios : ItemTimesOut(k, s)) /\ UpdaterStays /\ Quiet
UpdaterMoves == (ApplyScheduler \/ CheckEnds) /\ SiteStays /\ Quiet
DrainMoves ==
    /\ \/ \E h \in Spawns : DrainEmpty(h) /\ ~DrainPending /\ (IF Open THEN DrainReleased ELSE UNCHANGED siteVars)
       \/ DrainTimesOut /\ DrainPending /\ DrainReleased
       \/ \E settled \in BOOLEAN : DrainOver(settled) /\ DrainReleased
    /\ UNCHANGED row /\ Quiet

(* The helpers: a Hub that is stopped or replaced ends what its process did. *)
Replaces(h) == helpers[h].pc \in {"stop", "undo_stop", "restart", "undo_start"} /\ helpers[h].mode # "stopped"
HelperGoesOn(h) ==
    \/ HelperMoves(h) /\ (IF Replaces(h) THEN SiteRestarts ELSE UNCHANGED siteVars) /\ UNCHANGED row /\ Quiet
    \/ (Passes(h, Idle) \/ Defers(h, Idle)) /\ SiteStays /\ Quiet
Scheduled == Tick /\ SiteStays /\ Quiet
Starts == OperatorStarts /\ SiteStays /\ Quiet

(* Troubles *)
HelperFails(h) == (StepFails(h) \/ UndoFails(h)) /\ SiteStays /\ Trouble
HelperKilled(h) == HelperDies(h) /\ SiteStays /\ Trouble
NotStarted(op) == TriggerManaged(op, FALSE) /\ SiteStays /\ Trouble
Restarts == Reboot /\ SiteRestarts /\ UNCHANGED row /\ Trouble

-----------------------------------------------------------------------------
(* The Controller's row (_update_hub_one): it looks at the Hub's version,    *)
(* posts the operation, and polls the updater's state and the Hub's health   *)
(* until it is told an outcome or its own wait is over.                      *)
RowActive == row.status \in {"checking", "posting", "polling"}
Runs(commit) == hub.up /\ hub.loaded = commit
(* start_hub_updates *)
RowStarts(op) ==
    /\ ~RowActive /\ row' = [status |-> "checking", op |-> op]
    /\ UNCHANGED << updaterVars, siteVars >> /\ Asking
RowBecomes(next) == row' = [row EXCEPT !.status = next]
(* The result "current", of a Hub that needs no update, is "complete" too. *)
RowEnds(result) == row' = [status |-> result]
RowChecks ==
    /\ row.status = "checking"
    /\ IF ~hub.up THEN RowEnds("failed") ELSE IF Runs(Target[row.op]) THEN RowEnds("complete") ELSE RowBecomes("posting")
    /\ UNCHANGED << updaterVars, siteVars >> /\ Quiet
(* A refusal ends the row; an answer, or none, is followed by the status.    *)
RowPosts ==
    /\ row.status = "posting" /\ hub.up
    /\ IF Accepts(row.op) /\ ~(Open /\ HelperAlive(row.op)) THEN TriggerManaged(row.op, TRUE) ELSE UNCHANGED updaterVars
    /\ IF Accepts(row.op) \/ status.history[row.op] # "none" THEN RowBecomes("polling") ELSE RowEnds("failed")
    /\ UNCHANGED siteVars /\ Quiet
RowUnheard ==
    /\ row.status = "posting"
    /\ RowBecomes("polling")
    /\ UNCHANGED << updaterVars, siteVars >> /\ (IF hub.up THEN Trouble ELSE Quiet)
Proven(op) == Runs(Target[op])
RowPolls ==
    /\ row.status = "polling" /\ hub.up
    /\ \/ status.state = "failed" /\ (RowEnds("failed") \/ (Proven(row.op) /\ RowEnds("complete")))
       \/ status.state = "succeeded" /\ Proven(row.op) /\ RowEnds("complete")
    /\ UNCHANGED << updaterVars, siteVars >> /\ Quiet
RowGivesUp ==
    /\ row.status = "polling" /\ RowEnds("failed")
    /\ UNCHANGED << updaterVars, siteVars >> /\ Quiet
(* _load_state of a Controller that restarts *)
RowInterrupted ==
    /\ RowActive /\ RowEnds("failed")
    /\ UNCHANGED << updaterVars, siteVars >> /\ Trouble

Row == RowChecks \/ RowPosts \/ RowUnheard \/ RowPolls \/ RowGivesUp \/ RowInterrupted

Asked ==
    \/ \E op \in Operations : AskManaged(op) \/ RowStarts(op)
    \/ \E h \in Spawns : AskPlain(h)
    \/ \E mode \in {"off", "notify", "auto"} : AskSettings(mode)
    \/ \E chosen \in SUBSET Studios : AskRolling(chosen) \/ AskJob(chosen)
    \/ \E force \in BOOLEAN : AskRestart(force)
    \/ AskDrained \/ AskCheck \/ AskWork
Troubled ==
    \/ \E h \in Helpers : HelperFails(h) \/ HelperKilled(h)
    \/ \E op \in Operations : NotStarted(op)
    \/ Restarts

Next ==
    \/ Asked \/ Troubled \/ Row
    \/ SiteMoves \/ SiteWaitsOver \/ UpdaterMoves \/ DrainMoves
    \/ \E h \in Helpers : HelperGoesOn(h)
    \/ Scheduled \/ Starts

Spec == Init /\ [][Next]_vars

(* The Hub and the helpers do what they can, the schedule comes round, and   *)
(* the Studios end what they were asked.  No trouble is assumed, nor that    *)
(* anybody asks for anything, nor that a wait runs out.                      *)
FairSpec ==
    /\ Spec
    /\ \A h \in Helpers : WF_vars(HelperGoesOn(h))
    /\ WF_vars(Scheduled) /\ WF_vars(SiteMoves) /\ WF_vars(UpdaterMoves) /\ WF_vars(DrainMoves)

-----------------------------------------------------------------------------
(* Properties *)

(* An operation is over as succeeded only on a Hub that runs its commit, and *)
(* the Controller's row with it.  One that is over as failed is told the     *)
(* truth about its files: taken back to where the first attempt found them,  *)
(* through every crash and retry, or known to be left, unless its last       *)
(* attempt was refused before it looked.                                     *)
Becomes(op, result) == status.active.op = op /\ Open /\ ~Open' /\ status'.history[op] = result
Origin == status.active.origin
Unchecked == \E h \in Helpers : helpers[h].pc = "fail" /\ helpers[h].old = 0
VerdictsTrue == [][
    /\ \A op \in Operations :
        /\ Becomes(op, "succeeded") => \/ Runs(Target[op])
                                       \/ status.active.mode = "stopped" /\ checkout.files = Target[op]
        /\ Becomes(op, "failed") /\ Origin # 0 =>
            \/ Unchecked \/ status'.rollback = "failed"
            \/ /\ Clean /\ checkout.head = Origin
               /\ status'.rollback = "succeeded" /\ status.active.mode # "stopped" => Runs(Origin)
    /\ row'.status = "complete" /\ row'.status # row.status => Runs(Target[row.op])]_vars

(* The recovery of an operation that is open is armed when it is admitted,   *)
(* and neither settings saved, nor the end of another update, nor a schedule *)
(* that finds itself switched off takes it away.  A helper that gets the     *)
(* lock only after another one gave the verdict may open an operation again, *)
(* with its recovery armed or not.                                           *)
Unsettled(op) == Open /\ status.active.op = op /\ status.history[op] = "none"
Enters == \E h \in Helpers : helpers[h].pc \in {"spawned", "due"} /\ helpers'[h].pc = "gate"
RecoveryArmed == [][\A op \in Operations :
    Unsettled(op)' => schedule' \/ Enters \/ (Unsettled(op) /\ ~schedule)]_vars

(* A managed operation that is open comes to its end. *)
OperationEnds == \A op \in Operations : Unsettled(op) ~> ~Unsettled(op)

(* A Studio that was withdrawn is given back. *)
StudiosRejoin == \A s \in Studios : s \in maintenance ~> s \notin maintenance
=============================================================================
