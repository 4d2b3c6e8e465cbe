------------------------------ MODULE HubUpdater ------------------------------
(* The updater of one Mac's Hub (auto_update.py): its durable status and      *)
(* schedule, the Hub's own calls, and the helper processes, of which one at a *)
(* time holds update.lock and changes the checkout while the Hub is stopped.  *)
EXTENDS Naturals

CONSTANTS
    MaxCommit,      \* bound: the published history is the commits 1 .. MaxCommit
    Operations,     \* managed operations
    Plain,          \* an update that is no managed operation
    Target,         \* the commit each managed operation asks for
    Owners,         \* what may own the Hub's process: "service", "pinokio"
    Launchd,        \* the helper the LaunchAgent runs, one at a time
    Spawns          \* bound: helpers the Hub has started that run at a time

ASSUME UpdaterAssumption ==
    /\ MaxCommit \in Nat \ {0} /\ Plain \notin Operations
    /\ Target \in [Operations -> 1 .. MaxCommit] /\ Owners \subseteq {"service", "pinokio"}
    /\ Launchd \notin Spawns

VARIABLES
    status,     \* status.json
    config,     \* the mode in config.json
    schedule,   \* the updater's LaunchAgent is loaded
    checkout,   \* the repository: its HEAD and the commit of its files
    hub,        \* the Hub's process: up, the commit it loaded, its owner, and its calls under way
    drain,      \* _drain_and_update's thread in it
    helpers     \* the helper processes

updaterVars == << status, config, schedule, checkout, hub, drain, helpers >>

Commits == 1 .. MaxCommit
Helpers == Spawns \cup {Launchd}
NoActive == [op |-> Plain]
Open == status.active # NoActive
NoHelper == [pc |-> "none"]
Clean == checkout.head = checkout.files

UpdaterInit ==
    /\ status = [state |-> "idle", active |-> NoActive, pending |-> FALSE, rollback |-> "none",
                 history |-> [op \in Operations |-> "none"]]
    /\ config = "off" /\ schedule = FALSE
    /\ checkout = [head |-> 1, files |-> 1]
    /\ hub \in [up : {TRUE}, loaded : {1}, owner : Owners, applying : {"no"}, checking : {FALSE}]
    /\ drain = "none"
    /\ helpers = [h \in Helpers |-> NoHelper]

(* _exclusive_lock, and _managed_helper_alive *)
Unlocked == {"none", "spawned", "due", "tick", "check", "unschedule"}
Locked == \E h \in Helpers : helpers[h].pc \notin Unlocked
HelperAlive(op) == Locked \/ \E h \in Helpers : helpers[h] = [pc |-> "spawned", op |-> op, auto |-> FALSE]

Stays(h, pc) == helpers' = [helpers EXCEPT ![h].pc = pc]
Ends(h) == helpers' = [helpers EXCEPT ![h] = NoHelper]

(* Mutant of Armed: the mode alone decides whether there is a schedule. *)
MutantArmed(force) == config # "off"
(* apply_scheduler reads the active operation again before it decides. *)
Armed(force) == config # "off" \/ force \/ Open

(* active_mode *)
ActiveMode == IF hub.owner = "service" \/ hub.up THEN hub.owner ELSE "stopped"

-----------------------------------------------------------------------------
(* The Hub's calls *)

Spawned(h, op) == helpers' = [helpers EXCEPT ![h] = [pc |-> "spawned", op |-> op, auto |-> FALSE]]
Free(h) == helpers[h] = NoHelper

(* trigger_update of a managed operation: a known one is answered from the   *)
(* history, another is refused while one is open, a living helper is left    *)
(* alone; else the request is durable and its schedule armed before the      *)
(* helper is started, which may fail.                                        *)
Accepts(op) == status.history[op] = "none" /\ (Open => status.active.op = op)
Admission(op) == IF Open THEN status.active
                 ELSE [op |-> op, phase |-> "admitted", mode |-> "unknown", origin |-> 0]
TriggerManaged(op, started) ==
    /\ hub.up /\ Accepts(op) /\ ~(Open /\ HelperAlive(op))
    /\ schedule' = TRUE
    /\ status' = [status EXCEPT !.active = Admission(op), !.pending = TRUE,
                                !.state = IF started THEN "updating" ELSE "deferred"]
    /\ IF started THEN \E h \in Spawns : Free(h) /\ Spawned(h, op) ELSE UNCHANGED helpers
    /\ UNCHANGED << config, checkout, hub, drain >>
(* ... after current work: it is left to the schedule. *)
QueueManaged(op) ==
    /\ hub.up /\ Accepts(op) /\ ~Open
    /\ schedule' = TRUE
    /\ status' = [status EXCEPT !.active = Admission(op), !.pending = TRUE, !.state = "deferred"]
    /\ UNCHANGED << config, checkout, hub, drain, helpers >>

(* trigger_update of an ordinary update *)
TriggerPlain(h) ==
    /\ hub.up /\ ~Open /\ Free(h)
    /\ Spawned(h, Plain)
    /\ status' = [status EXCEPT !.state = "updating", !.pending = FALSE]
    /\ UNCHANGED << config, schedule, checkout, hub, drain >>
(* _start_drain_update *)
TriggerDrained ==
    /\ hub.up /\ ~Open /\ drain = "none"
    /\ drain' = "waiting"
    /\ status' = [status EXCEPT !.state = "draining", !.pending = TRUE]
    /\ UNCHANGED << config, schedule, checkout, hub, helpers >>

(* _drain_and_update: the site is empty, and the update starts, unless a     *)
(* managed operation came first; or the wait is over before the work.        *)
DrainEmpty(h) ==
    /\ drain = "waiting"
    /\ IF Open THEN /\ drain' = "none" /\ UNCHANGED helpers
                    /\ status' = [status EXCEPT !.state = "failed", !.pending = FALSE]
       ELSE /\ Free(h) /\ Spawned(h, Plain) /\ drain' = "holding"
            /\ status' = [status EXCEPT !.state = "updating", !.pending = FALSE]
    /\ UNCHANGED << config, schedule, checkout, hub >>
DrainTimesOut ==
    /\ drain = "waiting" /\ drain' = "none"
    /\ status' = [status EXCEPT !.state = "deferred", !.pending = FALSE]
    /\ UNCHANGED << config, schedule, checkout, hub, helpers >>
(* _hold_drain_until_settled *)
Settled == status.state \notin {"draining", "updating", "restarting"}
DrainOver(settled) ==
    /\ drain = "holding" /\ (settled => Settled)
    /\ drain' = "none"
    /\ UNCHANGED << status, config, schedule, checkout, hub, helpers >>

(* save_settings, in two steps: the files, then the schedule *)
SaveSettings(mode) ==
    /\ hub.up /\ hub.applying # "settings"
    /\ config' = mode
    /\ status' = IF Open THEN [status EXCEPT !.pending = TRUE]
                 ELSE [status EXCEPT !.pending = FALSE, !.state = "idle"]
    /\ hub' = [hub EXCEPT !.applying = "settings"]
    /\ UNCHANGED << schedule, checkout, drain, helpers >>
(* ... and _reconcile_auto_update_scheduler of a Hub that starts, which      *)
(* waits for the helper to end.                                              *)
ApplyScheduler ==
    /\ hub.up /\ hub.applying # "no" /\ (hub.applying = "start" => ~Locked)
    /\ schedule' = Armed(FALSE)
    /\ hub' = [hub EXCEPT !.applying = "no"]
    /\ UNCHANGED << status, config, checkout, drain, helpers >>

(* trigger_check's thread: check() *)
CheckStarts ==
    /\ hub.up /\ ~hub.checking
    /\ hub' = [hub EXCEPT !.checking = TRUE]
    /\ status' = [status EXCEPT !.state = "checking"]
    /\ UNCHANGED << config, schedule, checkout, drain, helpers >>
Checked == IF ~Clean THEN "failed" ELSE IF checkout.head < MaxCommit THEN "available" ELSE "succeeded"
CheckEnds ==
    /\ hub.up /\ hub.checking
    /\ hub' = [hub EXCEPT !.checking = FALSE]
    /\ status' = [status EXCEPT !.state = Checked]
    /\ UNCHANGED << config, schedule, checkout, drain, helpers >>

(* restart_safety, and the service that is started again *)
RestartService ==
    /\ hub.up /\ hub.owner = "service" /\ Clean
    /\ hub' = [hub EXCEPT !.loaded = checkout.files, !.applying = "start", !.checking = FALSE]
    /\ drain' = "none"
    /\ UNCHANGED << status, config, schedule, checkout, helpers >>

-----------------------------------------------------------------------------
(* The schedule starts a helper: scheduled() *)

(* Mutant of Pending: only the flag is asked, not the active operation. *)
MutantPending == status.pending
Pending == status.pending \/ Open

Tick ==
    /\ schedule /\ Free(Launchd)
    /\ helpers' = [helpers EXCEPT ![Launchd] = [pc |-> "tick"]]
    /\ UNCHANGED << status, config, schedule, checkout, hub, drain >>
Due(h, op, auto) == helpers' = [helpers EXCEPT ![h] = [pc |-> "due", op |-> op, auto |-> auto]]
TickReads(h) ==
    /\ helpers[h].pc = "tick"
    /\ IF Pending THEN Due(h, status.active.op, FALSE) /\ UNCHANGED status
       ELSE IF config = "off" THEN Stays(h, "unschedule") /\ UNCHANGED status
       ELSE Stays(h, "check") /\ status' = [status EXCEPT !.state = "checking"]
    /\ UNCHANGED << config, schedule, checkout, hub, drain >>
(* ... the check is over: an operation admitted meanwhile comes first. *)
TickChecked(h) ==
    /\ helpers[h].pc = "check"
    /\ status' = [status EXCEPT !.state = Checked]
    /\ IF Open THEN Due(h, status.active.op, FALSE)
       ELSE IF Checked = "available" /\ config = "auto" THEN Due(h, Plain, TRUE)
       ELSE Ends(h)
    /\ UNCHANGED << config, schedule, checkout, hub, drain >>

-----------------------------------------------------------------------------
(* update(), by the helper that holds the lock *)

Managed(h) == helpers[h].op # Plain
Phase(h, phase) == IF Managed(h) THEN [status.active EXCEPT !.phase = phase] ELSE status.active

(* The lock, and the durable state an interrupted attempt left. *)
Resumed(op) == IF Open /\ status.active.op = op /\ status.active.mode # "unknown" THEN status.active
               ELSE [op |-> op, phase |-> "prepared", mode |-> ActiveMode, origin |-> 0]
Enter(h) ==
    /\ helpers[h].pc \in {"spawned", "due"}
    /\ IF Locked \/ (helpers[h].op = Plain /\ Open) THEN Ends(h) /\ UNCHANGED status
       ELSE LET known == Resumed(helpers[h].op) IN
            /\ helpers' = [helpers EXCEPT ![h] = [pc |-> "gate", op |-> @.op, auto |-> @.auto,
                                                  mode |-> known.mode, old |-> 0, new |-> 0, undone |-> "none"]]
            /\ status' = IF Managed(h) THEN [status EXCEPT !.active = known, !.pending = TRUE] ELSE status
    /\ UNCHANGED << config, schedule, checkout, hub, drain >>

(* The readiness gate of automatic and managed updates. *)
Gated(h) == Managed(h) \/ helpers[h].auto
Passes(h, idle) ==
    /\ helpers[h].pc = "gate" /\ (Gated(h) /\ hub.up => idle) /\ Stays(h, "preflight")
    /\ UNCHANGED << status, config, schedule, checkout, hub, drain >>
Defers(h, idle) ==
    /\ helpers[h].pc = "gate" /\ Gated(h) /\ hub.up /\ ~idle
    /\ Ends(h)
    /\ status' = [status EXCEPT !.state = "deferred", !.pending = Managed(h) \/ @]
    /\ schedule' = IF status'.pending THEN TRUE ELSE schedule
    /\ UNCHANGED << config, checkout, hub, drain >>

(* Mutant of Base: a retry takes the commit it finds for the rollback point. *)
MutantBase(h) == checkout.head
(* The rollback point: what the first attempt recorded, or HEAD. *)
Base(h) == IF Managed(h) /\ status.active.origin # 0 THEN status.active.origin ELSE checkout.head
Wanted(h) == IF Managed(h) THEN Target[helpers[h].op] ELSE MaxCommit
Available(h) == checkout.head # Wanted(h)
Refused(h) == ~Clean \/ checkout.head > Wanted(h)
(* Where an attempt that finds the files in place goes on. *)
GoesOn(phase) == CASE phase \in {"stopping", "stopped", "merged"} -> "deps"
                   [] phase \in {"verified", "restarting"} -> "restart"
                   [] OTHER -> "health"

(* _git_preflight and what follows from it *)
Preflight(h) ==
    /\ helpers[h].pc = "preflight" /\ ~Refused(h)
    /\ LET at == IF Available(h) THEN "announce" ELSE IF Managed(h) THEN GoesOn(status.active.phase) ELSE "health"
       IN  helpers' = [helpers EXCEPT ![h].pc = at, ![h].old = Base(h), ![h].new = Wanted(h)]
    /\ status' = IF Managed(h) /\ Available(h) THEN [status EXCEPT !.active.origin = Base(h)] ELSE status
    /\ UNCHANGED << config, schedule, checkout, hub, drain >>
PreflightRefuses(h) ==
    /\ helpers[h].pc = "preflight" /\ Refused(h) /\ Stays(h, "fail")
    /\ UNCHANGED << status, config, schedule, checkout, hub, drain >>
Announce(h) ==
    /\ helpers[h].pc = "announce" /\ Stays(h, "stop")
    /\ status' = [status EXCEPT !.state = "updating", !.active = Phase(h, "stopping")]
    /\ UNCHANGED << config, schedule, checkout, hub, drain >>

(* _stop_mode *)
Down == [hub EXCEPT !.up = FALSE, !.applying = "no", !.checking = FALSE]
Up == [hub EXCEPT !.up = TRUE, !.loaded = checkout.files, !.applying = "start", !.checking = FALSE]
Stopped(h) == IF helpers[h].mode = "stopped" THEN ~hub.up /\ UNCHANGED << hub, drain >>
              ELSE hub' = Down /\ drain' = "none"
Stop(h) ==
    /\ helpers[h].pc = "stop" /\ Stopped(h) /\ Stays(h, "merge")
    /\ status' = [status EXCEPT !.active = Phase(h, "stopped")]
    /\ UNCHANGED << config, schedule, checkout >>
Merge(h) ==
    /\ helpers[h].pc = "merge" /\ Stays(h, "deps")
    /\ checkout' = [head |-> helpers[h].new, files |-> helpers[h].new]
    /\ status' = [status EXCEPT !.active = Phase(h, "merged")]
    /\ UNCHANGED << config, schedule, hub, drain >>
(* _install_dependencies and _verify_import *)
Deps(h) ==
    /\ helpers[h].pc = "deps" /\ Stays(h, "restart")
    /\ status' = [status EXCEPT !.active = Phase(h, "verified")]
    /\ UNCHANGED << config, schedule, checkout, hub, drain >>
(* _start_mode: a service that runs is replaced. *)
Started(h) == hub' = IF helpers[h].mode = "stopped" THEN hub ELSE Up
Restart(h) ==
    /\ helpers[h].pc = "restart" /\ Started(h) /\ Stays(h, "health")
    /\ drain' = IF helpers[h].mode = "stopped" THEN drain ELSE "none"
    /\ status' = [status EXCEPT !.state = "restarting", !.active = Phase(h, "restarting")]
    /\ UNCHANGED << config, schedule, checkout >>

(* _verify_health: the running Hub, or, of a Mac whose Hub was not running,  *)
(* one started for the check.                                                *)
Attested(h, commit) == IF helpers[h].mode = "stopped" THEN checkout.files = commit ELSE hub.up /\ hub.loaded = commit
Completed(h, result) == IF Managed(h) THEN [status.history EXCEPT ![helpers[h].op] = result] ELSE status.history
Over(h) == IF Managed(h) THEN NoActive ELSE status.active
Succeed(h) ==
    /\ helpers[h].pc = "health"
    /\ Attested(h, helpers[h].new) \/ (~Managed(h) /\ helpers[h].old = helpers[h].new)
    /\ status' = [status EXCEPT !.state = "succeeded", !.pending = FALSE, !.history = Completed(h, "succeeded"),
                                !.active = Over(h), !.rollback = IF helpers[h].old = helpers[h].new THEN @ ELSE "none"]
    /\ Stays(h, "reschedule")
    /\ UNCHANGED << config, schedule, checkout, hub, drain >>
(* The schedule goes with the work it was forced for. *)
Reschedule(h) ==
    /\ helpers[h].pc \in {"reschedule", "unschedule"} /\ Ends(h)
    /\ schedule' = IF config = "off" THEN Armed(FALSE) ELSE schedule
    /\ UNCHANGED << status, config, checkout, hub, drain >>

-----------------------------------------------------------------------------
(* A step raises; _rollback *)

Undo(h) == IF helpers[h].old \notin {0, helpers[h].new} THEN "undo_stop" ELSE "fail"
StepFails(h) ==
    /\ helpers[h].pc \in {"preflight", "stop", "merge", "deps", "restart", "health"}
    /\ Stays(h, Undo(h))
    /\ UNCHANGED << status, config, schedule, checkout, hub, drain >>
Unattested(h) ==
    /\ helpers[h].pc = "health" /\ ~Attested(h, helpers[h].new) /\ (Managed(h) \/ helpers[h].old # helpers[h].new)
    /\ Stays(h, Undo(h))
    /\ UNCHANGED << status, config, schedule, checkout, hub, drain >>

Undone(h, result) == helpers' = [helpers EXCEPT ![h].pc = "fail", ![h].undone = result]
(* Only what this updater applied is taken back. *)
UndoStop(h) ==
    /\ helpers[h].pc = "undo_stop" /\ Stopped(h)
    /\ IF checkout.head = helpers[h].new /\ Clean THEN Stays(h, "undo_files") ELSE Undone(h, "failed")
    /\ UNCHANGED << status, config, schedule, checkout >>
UndoFiles(h) ==
    /\ helpers[h].pc = "undo_files" /\ Stays(h, "undo_head")
    /\ checkout' = [checkout EXCEPT !.files = helpers[h].old]
    /\ UNCHANGED << status, config, schedule, hub, drain >>
UndoHead(h) ==
    /\ helpers[h].pc = "undo_head" /\ Stays(h, "undo_start")
    /\ checkout' = [checkout EXCEPT !.head = helpers[h].old]
    /\ UNCHANGED << status, config, schedule, hub, drain >>
UndoStart(h) ==
    /\ helpers[h].pc = "undo_start" /\ Started(h) /\ Stays(h, "undo_health")
    /\ UNCHANGED << status, config, schedule, checkout, drain >>
UndoHealth(h) ==
    /\ helpers[h].pc = "undo_health"
    /\ Undone(h, IF Attested(h, helpers[h].old) THEN "succeeded" ELSE "failed")
    /\ UNCHANGED << status, config, schedule, checkout, hub, drain >>
UndoFails(h) ==
    /\ helpers[h].pc \in {"undo_stop", "undo_files", "undo_head", "undo_start", "undo_health"}
    /\ Undone(h, "failed")
    /\ UNCHANGED << status, config, schedule, checkout, hub, drain >>
Fail(h) ==
    /\ helpers[h].pc = "fail" /\ Stays(h, "reschedule")
    /\ status' = [status EXCEPT !.state = "failed", !.pending = FALSE, !.rollback = helpers[h].undone,
                                !.history = Completed(h, "failed"), !.active = Over(h)]
    /\ UNCHANGED << config, schedule, checkout, hub, drain >>

HelperMoves(h) ==
    \/ TickReads(h) \/ TickChecked(h) \/ Enter(h) \/ Preflight(h) \/ PreflightRefuses(h) \/ Announce(h)
    \/ Stop(h) \/ Merge(h) \/ Deps(h) \/ Restart(h) \/ Succeed(h) \/ Reschedule(h) \/ Unattested(h)
    \/ UndoStop(h) \/ UndoFiles(h) \/ UndoHead(h) \/ UndoStart(h) \/ UndoHealth(h) \/ Fail(h)

-----------------------------------------------------------------------------
(* What ends processes *)

HelperDies(h) ==
    /\ ~Free(h) /\ Ends(h)
    /\ UNCHANGED << status, config, schedule, checkout, hub, drain >>
(* The Mac starts again: its service with it, and whatever is scheduled. *)
Reboot ==
    /\ helpers' = [h \in Helpers |-> NoHelper]
    /\ hub' = IF hub.owner = "service" THEN Up ELSE Down
    /\ drain' = "none"
    /\ UNCHANGED << status, config, schedule, checkout >>
(* Somebody starts a Hub that is down, and that no helper is at work on. *)
OperatorStarts ==
    /\ ~hub.up /\ ~Locked
    /\ hub' = Up
    /\ UNCHANGED << status, config, schedule, checkout, drain, helpers >>
=============================================================================
