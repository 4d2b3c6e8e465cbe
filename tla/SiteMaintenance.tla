---------------------------- MODULE SiteMaintenance ----------------------------
(* What a Hub does with its Studios besides running work on them: the jobs    *)
(* that update, install or repair them (fleet_ops.py), the staggered updates  *)
(* (fleet_auto_updates.py) and the withdrawal of the whole site (_SiteDrain   *)
(* in main.py), which share one plain set of Studios (broker.py).             *)
EXTENDS Naturals, FiniteSets

CONSTANTS
    Studios,    \* the Studios of the registry
    MaxWork     \* bound: batch items queued or leased

VARIABLES
    maintenance,    \* broker._maintenance
    withdrawn,      \* _SiteDrain._withdrawn
    work,           \* items queued, Studios a dispatch has picked, Studios under lease
    jobs,           \* _updates, _generation_installs, _studio_update_repairs: the job of each that
                    \* is open, and its items
    rolling         \* FleetAutoUpdates: the items of the last job that have no result

siteVars == << maintenance, withdrawn, work, jobs, rolling >>

Kinds == {"update", "install", "repair"}
Items == {"out", "queued", "draining", "working", "over"}
NoItems == [s \in Studios |-> "out"]
NoJob == [open |-> FALSE, items |-> NoItems]

SiteInit ==
    /\ maintenance = {} /\ withdrawn = {}
    /\ work = [queued |-> 0, picked |-> {}, leased |-> {}]
    /\ jobs = [k \in Kinds |-> NoJob]
    /\ rolling = NoItems

Has(k, state) == {s \in Studios : jobs[k].items[s] = state}
Working(k) == Has(k, "draining") \cup Has(k, "working")
Rolling == \E s \in Studios : rolling[s] \in {"queued", "working"}
JobsOpen == (\E k \in Kinds : jobs[k].open) \/ Rolling
(* _automatic_update_blockers, and what a withdrawn site still waits for: a  *)
(* lease, or a job of the Hub.                                               *)
Idle == ~JobsOpen /\ work.leased = {} /\ work.queued = 0
DrainPending == JobsOpen \/ work.leased # {}

-----------------------------------------------------------------------------
(* Work: the scheduler picks a Studio, and leases it when its checks are     *)
(* through.                                                                  *)
Submit ==
    /\ work.queued + Cardinality(work.leased) < MaxWork
    /\ work' = [work EXCEPT !.queued = @ + 1]
    /\ UNCHANGED << maintenance, withdrawn, jobs, rolling >>
Pick(s) ==
    /\ work.queued > Cardinality(work.picked) /\ s \notin maintenance \cup work.leased \cup work.picked
    /\ work' = [work EXCEPT !.picked = @ \cup {s}]
    /\ UNCHANGED << maintenance, withdrawn, jobs, rolling >>
Lease(s) ==
    /\ s \in work.picked
    /\ work' = [queued |-> work.queued - 1, picked |-> work.picked \ {s}, leased |-> work.leased \cup {s}]
    /\ UNCHANGED << maintenance, withdrawn, jobs, rolling >>
LeaseEnds(s) ==
    /\ s \in work.leased
    /\ work' = [work EXCEPT !.leased = @ \ {s}]
    /\ UNCHANGED << maintenance, withdrawn, jobs, rolling >>

-----------------------------------------------------------------------------
(* One job of a kind at a time; a repair waits for every other job.          *)
Opens(k, chosen) ==
    /\ ~jobs[k].open /\ chosen # {}
    /\ jobs' = [jobs EXCEPT ![k] = [open |-> TRUE, items |-> [s \in Studios |-> IF s \in chosen THEN "queued" ELSE "out"]]]
    /\ UNCHANGED << maintenance, withdrawn, work, rolling >>
StartUpdates(chosen) == Opens("update", chosen)
StartInstalls(chosen) == Opens("install", chosen)
StartRepairs(chosen) == Opens("repair", chosen) /\ \A k \in Kinds : ~jobs[k].open

ItemBecomes(k, s, state) == jobs' = [jobs EXCEPT ![k].items[s] = state]
(* One Studio after the other, each withdrawn and then waited for. *)
Drains(k, s) ==
    /\ jobs[k].open /\ jobs[k].items[s] = "queued" /\ Working(k) = {}
    /\ ItemBecomes(k, s, "draining")
    /\ maintenance' = maintenance \cup {s}
    /\ UNCHANGED << withdrawn, work, rolling >>
Works(k, s) ==
    /\ jobs[k].open /\ jobs[k].items[s] = "draining" /\ s \notin work.leased
    /\ ItemBecomes(k, s, "working")
    /\ UNCHANGED << maintenance, withdrawn, work, rolling >>
(* Mutant of GivenBack: only an item that succeeds gives its Studio back. *)
MutantGivenBack(s, result) == maintenance' = IF result = "complete" THEN maintenance \ {s} ELSE maintenance
(* finally: set_maintenance(sid, False) *)
GivenBack(s, result) == maintenance' = maintenance \ {s}
Ended(k, s, result) ==
    /\ jobs[k].open /\ jobs[k].items[s] = "working"
    /\ ItemBecomes(k, s, "over") /\ GivenBack(s, result)
    /\ UNCHANGED << withdrawn, work, rolling >>

UpdateGoesOn(s) == Drains("update", s) \/ Works("update", s)
InstallGoesOn(s) == Drains("install", s) \/ Works("install", s)
RepairGoesOn(s) == Drains("repair", s) \/ Works("repair", s)
(* The verdict of the Studio's updater or installer, or of the Hub of its    *)
(* Mac; silence, a refusal and a wait that is over are failures, and a       *)
(* repair that can be asked for again is pending.                            *)
UpdateEnds(s) == \E result \in {"complete", "failed"} : Ended("update", s, result)
InstallEnds(s) == \E result \in {"complete", "failed"} : Ended("install", s, result)
RepairEnds(s) == \E result \in {"complete", "failed", "pending"} : Ended("repair", s, result)
ItemTimesOut(k, s) ==
    /\ jobs[k].open /\ jobs[k].items[s] = "draining" /\ s \in work.leased
    /\ ItemBecomes(k, s, "over") /\ GivenBack(s, "failed")
    /\ UNCHANGED << withdrawn, work, rolling >>
(* finish_fleet_job, after the versions are scanned *)
JobCloses(k) ==
    /\ jobs[k].open /\ Has(k, "queued") \cup Working(k) = {}
    /\ jobs' = [jobs EXCEPT ![k] = NoJob]
    /\ UNCHANGED << maintenance, withdrawn, work, rolling >>

(* start_idle_updates: the Studios' own updaters do the work, one by one; an *)
(* app that is busy keeps the request and tries again by itself.  Of an item *)
(* that has its result nothing is asked again.                               *)
StartRolling(chosen) ==
    /\ ~Rolling /\ chosen # {}
    /\ rolling' = [s \in Studios |-> IF s \in chosen THEN "queued" ELSE "out"]
    /\ UNCHANGED << maintenance, withdrawn, work, jobs >>
RollingBegins(s) ==
    /\ rolling[s] = "queued" /\ \A other \in Studios : rolling[other] # "working"
    /\ rolling' = [rolling EXCEPT ![s] = "working"]
    /\ UNCHANGED << maintenance, withdrawn, work, jobs >>
RollingEnds(s) ==
    /\ rolling[s] = "working"
    /\ rolling' = [rolling EXCEPT ![s] = "out"]
    /\ UNCHANGED << maintenance, withdrawn, work, jobs >>

-----------------------------------------------------------------------------
(* _SiteDrain: begin() takes the Studios nobody has withdrawn; release()     *)
(* gives those back, whoever withdrew them since.                            *)
DrainBegins ==
    /\ withdrawn' = Studios \ maintenance
    /\ maintenance' = Studios
    /\ UNCHANGED << work, jobs, rolling >>
DrainReleased ==
    /\ withdrawn' = {}
    /\ maintenance' = maintenance \ withdrawn
    /\ UNCHANGED << work, jobs, rolling >>

(* The Hub's process ends.  _load_state closes the jobs it finds open, and   *)
(* resume_pending takes the staggered one up; leased items are queued again. *)
JobsInterrupted == jobs' = [k \in Kinds |-> NoJob]
RollingResumes == rolling' = [s \in Studios |-> IF rolling[s] = "working" THEN "queued" ELSE rolling[s]]
SiteRestarts ==
    /\ maintenance' = {} /\ withdrawn' = {}
    /\ work' = [queued |-> work.queued + Cardinality(work.leased), picked |-> {}, leased |-> {}]
    /\ JobsInterrupted /\ RollingResumes
=============================================================================
