-------------------------- MODULE ReleaseController --------------------------
(* The Controller's half of managed releases (release_reconciliation.py): the *)
(* durable file with the desired release, its activation and its jobs, every  *)
(* change of which is one locked transaction, and the run that executes a     *)
(* job Mac by Mac under a leased, numbered adoption.                          *)
(*                                                                            *)
(* A transaction is an operator from file to file.  An action is what one     *)
(* coroutine does between two awaits.  Clocks are choices: a lease lapses and *)
(* a retry falls due at any time.                                             *)
EXTENDS MacSoftware

VARIABLES
    file,       \* release_reconciliation.json
    pathOwner,  \* _PATH_OWNERS names this process
    runs,       \* _site_tasks: the run of each release, with its locals
    posts,      \* requests on their way to the Agents, with the run that sent each
    wakes,      \* which of the peer and registry recovery tasks are waiting
    fleet       \* the registry: the Macs enabled, and the Studios of each

controllerVars == << file, pathOwner, runs, posts, wakes, fleet >>

JobIds == Releases \X (0 .. MaxSupplement)
Terminal == {"complete", "blocked"}
JobStates == {"queued", "running", "degraded"} \cup Terminal
(* "checking" stands for the states a run still has to settle: checking,      *)
(* updating, restarting, verifying; "waiting" for the four retryable states,  *)
(* and "due" for those once next_retry is past; "outside" is no row at all.   *)
Retryable == {"waiting", "due"}
RowStates == {"outside", "absent", "checking", "current", "blocked", "excluded"} \cup Retryable
(* A lease is held by this process and fresh or lapsed, or was left by an     *)
(* earlier one and is over (expired, or its pid dead) or seems alive.         *)
Leases == {"none", "mine", "lapsed", "dead", "foreign"}
CatalogStates == {"pending", "requesting", "acknowledged"} \cup Retryable
NoActive == << >>
NoJob == [state |-> "none"]
NoRun == [pc |-> "idle"]

Busy(r) == runs[r].pc \notin {"idle", "scheduled"}
Current(f) == f.jobs[f.active]
Live(f, id) == f.jobs[id] # NoJob
Put(f, id, job) == [f EXCEPT !.jobs[id] = job]

-----------------------------------------------------------------------------
(* Jobs *)

(* _machines: every enabled Mac has a Hub, and the Studios registered for it. *)
Inventory(now) == [m \in Macs |-> [c \in Components |->
    IF m \notin now.enabled THEN "outside"
    ELSE IF c = "hub" \/ c \in now.fitted[m] THEN "checking" ELSE "absent"]]

Installed(row) == row \notin {"outside", "absent"}
Member(job, m) == job.rows[m]["hub"] # "outside"
Unsettled(job) == \E m \in Macs, c \in Components : job.rows[m][c] \in Retryable

(* _refresh_job *)
Refreshed(job) ==
    IF Unsettled(job) \/ job.catalog \in Retryable THEN [job EXCEPT !.state = "degraded"]
    ELSE IF job.state \in Terminal THEN job ELSE [job EXCEPT !.state = "running"]

(* Mutant of Converged: a job is done when nothing has to be tried again. *)
MutantConverged(job) == ~Unsettled(job)
(* _job_is_converged *)
Converged(job) == \A m \in Macs, c \in Components :
    job.rows[m][c] \in {"outside", "absent", "current", "excluded"}

(* _machine_summary: "excluded" *)
LeftOut(job, m) ==
    /\ \E c \in Components : job.rows[m][c] = "excluded"
    /\ \A c \in Components : job.rows[m][c] \in {"absent", "current", "excluded"}

NewJob == [state |-> "queued", lease |-> "none", gen |-> 0, failed |-> {}, rows |-> Inventory(fleet),
           child |-> {}, opgen |-> [m \in Macs |-> 0], supplement |-> 0, catalog |-> "pending"]

(* Rows that are put out of reach by a block, or by a disabled Mac. *)
Barred(rows, m, state) == [c \in Components |->
    IF Installed(rows[m][c]) /\ rows[m][c] # "current" THEN state ELSE rows[m][c]]
Blocked(job) == [job EXCEPT !.state = "blocked", !.lease = "none",
                            !.rows = [m \in Macs |-> Barred(job.rows, m, "blocked")]]

-----------------------------------------------------------------------------
(* The transactions *)

(* replace_intent.  Bound: every release has a sequence of its own, as       *)
(* GenStudio numbers them; the code would replace a settled release by       *)
(* another one of the same sequence, too.                                    *)
Replaceable(f, r) ==
    \/ f.desired = 0
    \/ r > f.desired /\ \A id \in JobIds : Live(f, id) => f.jobs[id].state \in Terminal
Replaced(f, r) == [f EXCEPT !.desired = r, !.active = NoActive]

(* Mutant of Withdrawn: the activation outlives the jobs. *)
MutantWithdrawn(f) == [f EXCEPT !.desired = 0, !.jobs = [id \in JobIds |-> NoJob]]
(* withdraw_intent *)
Withdrawn(f) == [desired |-> 0, active |-> NoActive, jobs |-> [id \in JobIds |-> NoJob]]

(* Mutant of Reoffered: a replay finds nothing due and changes nothing. *)
MutantReoffered(job) == job
(* _reoffer_retryable *)
Hurried(rows) == [m \in Macs |-> [c \in Components |->
    IF rows[m][c] = "waiting" THEN "due" ELSE rows[m][c]]]
HurriedCatalog(job) == IF job.catalog = "waiting" THEN "due" ELSE job.catalog
Reoffered(job) ==
    IF job.state # "degraded" THEN job
    ELSE [job EXCEPT !.rows = Hurried(job.rows), !.catalog = HurriedCatalog(job)]

(* Mutant of Activated: a replay starts over. *)
MutantActivated(f, r) == [Put(f, << r, 0 >>, NewJob) EXCEPT !.active = << r, 0 >>]
(* activate *)
Activated(f, r) ==
    LET first == << r, 0 >> IN
    IF ~Live(f, first) THEN [Put(f, first, NewJob) EXCEPT !.active = first]
    ELSE LET id == IF f.active # NoActive /\ f.active[1] = r THEN f.active ELSE first
         IN  Put(f, id, Reoffered(f.jobs[id]))

(* reconcile_registry: what the fleet has and the job does not. *)
Growth(job, now) == {p \in Macs \X Components :
    Inventory(now)[p[1]][p[2]] = "checking" /\ job.rows[p[1]][p[2]] \in {"outside", "absent", "excluded"}}
Growable(f, now) ==
    /\ f.desired # 0 /\ f.active # NoActive /\ f.active[1] = f.desired
    /\ Current(f).state # "blocked" /\ Current(f).lease = "none"
    /\ Growth(Current(f), now) # {} /\ Current(f).supplement < MaxSupplement
Supplemented(job, now) ==
    LET grown == {p[1] : p \in Growth(job, now)}
        g == job.supplement + 1
    IN  [job EXCEPT
            !.rows = [m \in Macs |-> IF m \in grown /\ ~Member(job, m) THEN Inventory(now)[m]
                                     ELSE [c \in Components |->
                                        IF << m, c >> \in Growth(job, now) THEN "checking" ELSE job.rows[m][c]]],
            !.child = @ \ grown,
            !.opgen = [m \in Macs |-> IF m \in grown THEN g ELSE @[m]],
            !.supplement = g,
            !.catalog = "pending"]
Reconciled(f, now) ==
    IF ~Growable(f, now) THEN f
    ELSE IF Current(f).state = "complete"
    THEN LET next == << f.active[1], f.active[2] + 1 >>
             job == [Supplemented(Current(f), now) EXCEPT !.state = "queued", !.gen = 0]
         IN  [Put(f, next, Refreshed(job)) EXCEPT !.active = next]
    ELSE Put(f, f.active, Refreshed(Supplemented(Current(f), now)))

(* A job whose rows and catalog have come due is put back to work. *)
Open(f) == f.desired # 0 /\ f.active # NoActive /\ f.active[1] = f.desired /\ Current(f).state \notin Terminal
Taken(job) == Refreshed([job EXCEPT
    !.rows = [m \in Macs |-> [c \in Components |-> IF @[m][c] = "due" THEN "checking" ELSE @[m][c]]],
    !.catalog = IF @ = "due" THEN "pending" ELSE @])
Due(job) == job.catalog = "due" \/ \E m \in Macs, c \in Components : job.rows[m][c] = "due"

(* resume_pending *)
Adoptable(f, owned) ==
    /\ Open(f)
    /\ \/ Current(f).lease = "none" /\ ~owned
       \/ Current(f).lease \in {"lapsed", "dead"}
(* Bound: numbering starts over when no run holds a number to compare.       *)
NextGeneration(f) == IF Busy(f.active[1]) THEN Current(f).gen + 1 ELSE 1
Adopted(f) == Put(f, f.active, [Taken(Current(f)) EXCEPT !.gen = NextGeneration(f), !.lease = "mine"])

(* resume_due *)
DueNow(f) == Open(f) /\ Due(Current(f))
ResumedDue(f) == IF DueNow(f) /\ Current(f).lease = "none" THEN Put(f, f.active, Taken(Current(f))) ELSE f

(* note_peer_recovered *)
Noted(f, m) ==
    IF ~Open(f) THEN f
    ELSE Put(f, f.active, [Current(f) EXCEPT !.rows[m] =
            [c \in Components |-> IF @[c] = "waiting" THEN "due" ELSE @[c]]])
Recovers(f, m) == Open(f) /\ \E c \in Components : Current(f).rows[m][c] \in Retryable

(* record_component and _record_result, for one component of one Mac. *)
Record(f, id, m, c, result) ==
    LET job == f.jobs[id]
        bad == IF result = "clean" THEN job.failed \cup {m} ELSE job.failed
        row == CASE result = "current" -> "current"
                 [] result = "restarting" -> "checking"
                 [] OTHER -> "waiting"
        recorded == [job EXCEPT !.rows[m][c] = row, !.failed = bad]
    IN  IF job.state \in Terminal \/ result = "none" THEN f
        ELSE IF result = "wrong" THEN Put(f, id, Blocked(job))
        ELSE IF result = "clean" /\ Cardinality(bad) >= 2 THEN Put(f, id, Blocked(recorded))
        ELSE Put(f, id, Refreshed(recorded))
Recorded(f, id, m, results) ==
    LET Of(c) == IF c \in DOMAIN results THEN results[c] ELSE "none"
        hub == Record(f, id, m, "hub", Of("hub"))
        image == Record(hub, id, m, "image", Of("image"))
    IN  Record(image, id, m, "voice", Of("voice"))

(* _mark_machine_pending *)
Parked(f, id, m) == Put(f, id, Refreshed([f.jobs[id] EXCEPT !.rows[m] = Barred(f.jobs[id].rows, m, "waiting")]))

(* _exclude_machine_if_disabled *)
Excluded(f, id, m) ==
    IF m \in fleet.enabled \/ f.jobs[id].state \in Terminal THEN f
    ELSE Put(f, id, Refreshed([f.jobs[id] EXCEPT !.rows[m] = Barred(f.jobs[id].rows, m, "excluded")]))

-----------------------------------------------------------------------------
(* The run of a release *)

ControllerInit ==
    /\ file = [desired |-> 0, active |-> NoActive, jobs |-> [id \in JobIds |-> NoJob]]
    /\ pathOwner = FALSE
    /\ runs = [r \in Releases |-> NoRun]
    /\ posts = {} /\ wakes = {}

(* _require_site_fence *)
Fence(f, run) ==
    /\ Live(f, run.id)
    /\ f.jobs[run.id].lease = "mine" /\ f.jobs[run.id].gen = run.gen

(* schedule: a run that is not over is joined. *)
Scheduled(r) == IF runs[r].pc = "idle" THEN [runs EXCEPT ![r] = [pc |-> "scheduled"]] ELSE runs

(* What _run_release does last: it gives the adoption of an open job back    *)
(* and forgets the path owner, unless the job is gone, which raises.         *)
Returned(f, run) ==
    IF /\ Live(f, run.id) /\ f.jobs[run.id].state \notin Terminal /\ f.active = run.id
       /\ f.jobs[run.id].lease \in {"mine", "lapsed"} /\ f.jobs[run.id].gen = run.gen
    THEN Put(f, run.id, [f.jobs[run.id] EXCEPT !.lease = "none"]) ELSE f
(* release_adoption *)
OwnedAfter(f, run) ==
    IF Live(f, run.id) /\ f.jobs[run.id].state \notin Terminal THEN FALSE ELSE pathOwner
Ends(r, f) ==
    /\ file' = Returned(f, runs[r])
    /\ pathOwner' = OwnedAfter(f, runs[r])
    /\ runs' = [runs EXCEPT ![r] = NoRun]

(* A run that recorded results goes on with the next Mac, or is over when    *)
(* they blocked the release: the block ends the adoption.                    *)
NextMac(r, f) ==
    /\ file' = f
    /\ pathOwner' = (pathOwner /\ file'.jobs[runs[r].id].state \notin Terminal)
    /\ runs' = [runs EXCEPT ![r] = [pc |-> "turn", id |-> @.id, gen |-> @.gen, left |-> @.left \ {@.at}, at |-> Local]]

(* _run_release: reconciles, adopts, and numbers its writes. *)
RunStarts(r) ==
    LET f == Reconciled(file, fleet)
        mine == Current(f).lease = "mine"
    IN  /\ runs[r].pc = "scheduled"
        /\ IF file.desired # r \/ f.active = NoActive \/ ~Open(f) \/ ~(mine \/ Adoptable(f, pathOwner))
           THEN /\ file' = IF file.desired # r THEN file ELSE f
                /\ runs' = [runs EXCEPT ![r] = NoRun] /\ UNCHANGED pathOwner
           ELSE LET g == IF mine THEN f ELSE Adopted(f) IN
                /\ file' = g /\ pathOwner' = (pathOwner \/ ~mine)
                /\ runs' = [runs EXCEPT ![r] = [pc |-> "begin", id |-> f.active, gen |-> Current(g).gen,
                                                left |-> {}, at |-> Local]]
        /\ UNCHANGED << posts, wakes, fleet, softwareVars >>

(* _execute leaves the disabled Macs out and lists the others. *)
WithoutDisabled(job) == Refreshed([job EXCEPT !.rows =
    [m \in Macs |-> IF m \in fleet.enabled THEN @[m] ELSE Barred(@, m, "excluded")]])
RunBegins(r) ==
    /\ runs[r].pc = "begin"
    /\ IF ~Fence(file, runs[r]) THEN Ends(r, file)
       ELSE LET job == WithoutDisabled(file.jobs[runs[r].id]) IN
            /\ file' = Put(file, runs[r].id, job)
            /\ runs' = [runs EXCEPT ![r].pc = "turn", ![r].left = {m \in Macs : Member(job, m) /\ ~LeftOut(job, m)}]
            /\ UNCHANGED pathOwner
    /\ UNCHANGED << posts, wakes, fleet, softwareVars >>

Turn(r) == runs[r].pc = "turn" /\ Fence(file, runs[r])
To(r, m) == Turn(r) /\ m \in runs[r].left /\ (m = Local => runs[r].left = {Local})
At(r, m) == [runs[r] EXCEPT !.at = m]
JobOf(r) == file.jobs[runs[r].id]
Operation(r, m) == OperationId(m, runs[r].id[1], JobOf(r).opgen[m])
Pending(r, m) == {c \in Fittings : JobOf(r).rows[m][c] = "checking"}

(* A Mac is passed over: disabled since the job began, or its cached peer    *)
(* record offline or refused, or nothing left to settle on it.               *)
PassOver(r, m, why) ==
    /\ To(r, m)
    /\ LET id == runs[r].id
           f == CASE why = "disabled" -> Excluded(file, id, m)
                  [] why = "offline" -> Parked(file, id, m)
                  [] why = "settled" -> file
       IN  /\ CASE why = "disabled" -> m \notin fleet.enabled
                [] why = "offline" -> m # Local /\ m \in fleet.enabled
                [] why = "settled" -> /\ m # Local /\ m \in fleet.enabled
                                      /\ \A c \in Components : JobOf(r).rows[m][c] # "checking"
           /\ file' = f
           /\ runs' = [runs EXCEPT ![r].left = @ \ {m}]
    /\ UNCHANGED << pathOwner, posts, wakes, fleet, softwareVars >>

(* _request_remote_bundle sends the operation to the Agent's Hub ... *)
RunPosts(r, m) ==
    /\ To(r, m) /\ m # Local /\ m \in fleet.enabled
    /\ \E c \in Components : JobOf(r).rows[m][c] = "checking"
    /\ posts' = posts \cup {[op |-> Operation(r, m), run |-> r]}
    /\ runs' = [runs EXCEPT ![r] = [pc |-> "posted", id |-> @.id, gen |-> @.gen, left |-> @.left, at |-> m,
                                    op |-> Operation(r, m), seen |-> m \in JobOf(r).child, reply |-> "none"]]
    /\ UNCHANGED << file, pathOwner, wakes, fleet, softwareVars >>

(* ... sends it again after a transport failure ... *)
RunReposts(r) ==
    /\ runs[r].pc = "posted" /\ runs[r].reply = "none" /\ Fence(file, runs[r])
    /\ posts' = posts \cup {[op |-> runs[r].op, run |-> r]}
    /\ runs' = [runs EXCEPT ![r].seen = TRUE]
    /\ UNCHANGED << file, pathOwner, wakes, fleet, softwareVars >>

(* ... keeps the child it is given, which a replay must have adopted ... *)
Kept(r) == Put(file, runs[r].id, [JobOf(r) EXCEPT !.child = @ \cup {runs[r].at}])
RunAdmitted(r) ==
    /\ runs[r].pc = "posted" /\ runs[r].reply # "none"
    /\ IF ~Fence(file, runs[r]) THEN Ends(r, file)
       ELSE IF runs[r].reply = "refused" \/ (runs[r].seen /\ runs[r].reply = "admitted")
       THEN NextMac(r, Parked(file, runs[r].id, runs[r].at))
       ELSE /\ file' = Kept(r) /\ runs' = [runs EXCEPT ![r].pc = "polling"] /\ UNCHANGED pathOwner
    /\ UNCHANGED << posts, wakes, fleet, softwareVars >>

(* ... and gives the Mac up for this pass at the deadline. *)
RunGivesUp(r) ==
    /\ runs[r].pc \in {"posted", "polling"} /\ Fence(file, runs[r])
    /\ NextMac(r, Parked(file, runs[r].id, runs[r].at))
    /\ UNCHANGED << posts, wakes, fleet, softwareVars >>

(* The child's rows are recorded as far as they block nothing: the results   *)
(* are those of a child whose installed components agree with the job's.     *)
RunRecords(r, results) ==
    /\ runs[r].pc = "polling"
    /\ IF ~Fence(file, runs[r]) THEN Ends(r, file)
       ELSE NextMac(r, IF \A c \in Components : (results[c] = "absent") = (JobOf(r).rows[runs[r].at][c] = "absent")
                       THEN Recorded(file, runs[r].id, runs[r].at,
                                     [c \in {d \in Components : results[d] # "absent"} |-> results[c]])
                       ELSE Parked(file, runs[r].id, runs[r].at))
    /\ UNCHANGED << posts, wakes, fleet, softwareVars >>

(* _run_local_machine settles the Controller's own Studios ... *)
RunFits(r) ==
    /\ To(r, Local) /\ Local \in fleet.enabled /\ Pending(r, Local) # {}
    /\ runs' = [runs EXCEPT ![r].pc = "fitting", ![r].at = Local]
    /\ UNCHANGED << file, pathOwner, posts, wakes, fleet, softwareVars >>

(* ... and then its Hub, which a restart alone brings to the release. *)
HubRow(r, f, answer) ==
    LET id == runs[r].id IN
    IF f.jobs[id].state \in Terminal \/ f.jobs[id].rows[Local]["hub"] # "checking" THEN f
    ELSE IF Local \notin fleet.enabled THEN Excluded(f, id, Local)
    ELSE Record(f, id, Local, "hub", answer)
(* Mutant of HubResult: an accepted update counts as done. *)
MutantHubResult(r, answer) == IF answer = "restarting" THEN "current" ELSE answer
HubResult(r, answer) == IF loaded[Local] = runs[r].id[1] THEN "current" ELSE answer
SettleHub(r, f, answer) ==
    LET asked == /\ f.jobs[runs[r].id].state \notin Terminal /\ f.jobs[runs[r].id].rows[Local]["hub"] = "checking"
                 /\ Local \in fleet.enabled /\ loaded[Local] # runs[r].id[1]
    IN  /\ answer \in HubAnswers(Local, Operation(r, Local))
        /\ NextMac(r, HubRow(r, f, HubResult(r, answer)))
        /\ IF asked THEN HubAsked(Local, Operation(r, Local)) ELSE UNCHANGED managed
RunSettlesHub(r, answer) ==
    /\ To(r, Local) /\ Local \in fleet.enabled /\ Pending(r, Local) = {}
    /\ SettleHub(r, file, answer)
    /\ UNCHANGED << posts, wakes, fleet, loaded, fits, trial, undone, verdict >>
RunFitted(r, outcome, answer) ==
    /\ runs[r].pc = "fitting" /\ Live(file, runs[r].id) /\ outcome \in [Pending(r, Local) -> Outcomes]
    /\ FitsEnd(Local, runs[r].id[1], outcome)
    /\ IF ~Fence(file, runs[r]) THEN Ends(r, file) /\ UNCHANGED managed
       ELSE SettleHub(r, Recorded(file, runs[r].id, Local, outcome), answer)
    /\ UNCHANGED << posts, wakes, fleet, loaded, trial, undone, verdict >>

(* After the last Mac a converged job has the catalog reconciled, once, and  *)
(* is then complete.                                                         *)
RunOver(r) == runs[r].pc = "turn" /\ runs[r].left = {} /\ Fence(file, runs[r])
RunRequests(r) ==
    /\ RunOver(r)
    /\ IF ~Converged(JobOf(r)) \/ JobOf(r).catalog \in Retryable THEN Ends(r, file)
       ELSE IF JobOf(r).catalog = "acknowledged"
       THEN runs' = [runs EXCEPT ![r].pc = "closing"] /\ UNCHANGED << file, pathOwner >>
       ELSE /\ file' = Put(file, runs[r].id, [JobOf(r) EXCEPT !.catalog = "requesting"])
            /\ runs' = [runs EXCEPT ![r].pc = "catalog"] /\ UNCHANGED pathOwner
    /\ UNCHANGED << posts, wakes, fleet, softwareVars >>
CatalogAnswers(r, ok) ==
    /\ runs[r].pc = "catalog"
    /\ IF ~Fence(file, runs[r]) THEN Ends(r, file)
       ELSE IF ok
       THEN /\ file' = Put(file, runs[r].id, Refreshed([JobOf(r) EXCEPT !.catalog = "acknowledged"]))
            /\ runs' = [runs EXCEPT ![r].pc = "closing"] /\ UNCHANGED pathOwner
       ELSE Ends(r, Put(file, runs[r].id, Refreshed([JobOf(r) EXCEPT !.catalog = "waiting"])))
    /\ UNCHANGED << posts, wakes, fleet, softwareVars >>
RunCompletes(r) ==
    /\ runs[r].pc = "closing"
    /\ IF ~Fence(file, runs[r]) \/ ~Converged(JobOf(r)) THEN Ends(r, file)
       ELSE /\ file' = Put(file, runs[r].id, [JobOf(r) EXCEPT !.state = "complete", !.lease = "none"])
            /\ pathOwner' = FALSE /\ runs' = [runs EXCEPT ![r] = NoRun]
    /\ UNCHANGED << posts, wakes, fleet, softwareVars >>

(* A run stops at the fence, or when its heartbeat finds the adoption lost. *)
RunLost(r) ==
    /\ Busy(r) /\ ~Fence(file, runs[r])
    /\ Ends(r, file)
    /\ UNCHANGED << posts, wakes, fleet, softwareVars >>
-----------------------------------------------------------------------------
(* GenStudio *)

Publish(r) ==
    /\ Replaceable(file, r)
    /\ file' = Replaced(file, r)
    /\ UNCHANGED << pathOwner, runs, posts, wakes, fleet, softwareVars >>

(* An activation, refused while no Mac is enabled, or its replay, which      *)
(* re-arms what waits; then a run.                                           *)
Activate(r) ==
    /\ file.desired = r /\ (Live(file, << r, 0 >>) \/ fleet.enabled # {})
    /\ file' = Activated(file, r)
    /\ runs' = Scheduled(r)
    /\ UNCHANGED << pathOwner, posts, wakes, fleet, softwareVars >>

Withdraw ==
    /\ file.desired # 0
    /\ file' = Withdrawn(file)
    /\ UNCHANGED << pathOwner, runs, posts, wakes, fleet, softwareVars >>

-----------------------------------------------------------------------------
(* What starts a run besides *)

(* Adoption followed by a run, in one step. *)
Adopts(f) == file' = Adopted(f) /\ pathOwner' = TRUE /\ runs' = Scheduled(f.active[1])

(* _due_loop: only growth and rows that have come due start a run. *)
DueScan ==
    LET f == Reconciled(file, fleet)
        g == ResumedDue(f)
    IN  /\ f # file \/ DueNow(f)
        /\ IF Adoptable(g, pathOwner) THEN Adopts(g)
           ELSE file' = g /\ UNCHANGED << pathOwner, runs >>
        /\ UNCHANGED << posts, wakes, fleet, softwareVars >>

(* wake_peer: a Mac is heard again; a task waits for the run to end ... *)
PeerBack(m) ==
    LET f == Reconciled(file, fleet) IN
    /\ m # Local /\ (f # file \/ Recovers(f, m))
    /\ file' = Noted(f, m) /\ wakes' = wakes \cup {"peer"}
    /\ UNCHANGED << pathOwner, runs, posts, fleet, softwareVars >>

RunIdle == file.active # NoActive => ~Busy(file.active[1])
(* ... and starts the next one. *)
PeerWakes ==
    LET g == ResumedDue(file) IN
    /\ "peer" \in wakes /\ RunIdle
    /\ IF file.active # NoActive /\ Adoptable(g, pathOwner) THEN Adopts(g)
       ELSE file' = g /\ UNCHANGED << pathOwner, runs >>
    /\ wakes' = wakes \ {"peer"}
    /\ UNCHANGED << posts, fleet, softwareVars >>

(* The registry changes: wake_registry adds what it can at once, or leaves   *)
(* a task behind that waits for the adoption to end.                         *)
RegistryWoken ==
    \/ /\ Growable(file, fleet')
       /\ file' = Reconciled(file, fleet') /\ runs' = Scheduled(file.active[1]) /\ UNCHANGED wakes
    \/ /\ ~Growable(file, fleet')
       /\ wakes' = IF file.active # NoActive /\ Open(file) /\ Current(file).lease # "none"
                   THEN wakes \cup {"fleet"} ELSE wakes
       /\ UNCHANGED << file, runs >>

(* _resume_reconciled_registry once no run is active: an adoption left over  *)
(* is taken and given back, growth is added and run.                         *)
FleetWakes ==
    /\ "fleet" \in wakes /\ RunIdle
    /\ IF file.active # NoActive /\ Current(file).lease # "none" /\ Open(file)
       THEN /\ Adoptable(file, pathOwner)
            /\ file' = Put(file, file.active, [Current(Adopted(file)) EXCEPT !.lease = "none"])
            /\ pathOwner' = FALSE /\ UNCHANGED << runs, wakes >>
       ELSE /\ wakes' = wakes \ {"fleet"}
            /\ IF Growable(file, fleet) /\ Adoptable(Reconciled(file, fleet), pathOwner) THEN Adopts(Reconciled(file, fleet))
               ELSE file' = Reconciled(file, fleet) /\ UNCHANGED << pathOwner, runs >>
    /\ UNCHANGED << posts, fleet, softwareVars >>

-----------------------------------------------------------------------------
(* Time: a retry falls due, a lease runs out while the Mac sleeps or its     *)
(* owner is gone.                                                            *)
RowDue(m, c) ==
    /\ Open(file) /\ Current(file).rows[m][c] = "waiting"
    /\ file' = Put(file, file.active, [Current(file) EXCEPT !.rows[m][c] = "due"])
    /\ UNCHANGED << pathOwner, runs, posts, wakes, fleet, softwareVars >>
CatalogDue ==
    /\ Open(file) /\ Current(file).catalog = "waiting"
    /\ file' = Put(file, file.active, [Current(file) EXCEPT !.catalog = "due"])
    /\ UNCHANGED << pathOwner, runs, posts, wakes, fleet, softwareVars >>
LeaseEnds(from, to) ==
    /\ file.active # NoActive /\ Current(file).lease = from
    /\ file' = Put(file, file.active, [Current(file) EXCEPT !.lease = to])
    /\ UNCHANGED << pathOwner, runs, posts, wakes, fleet, softwareVars >>

(* The Hub process of the Controller ends and starts again.  Stopped in      *)
(* order it gives the adoption of its run back; killed, it leaves the lease, *)
(* whose process looks dead or, its pid in use again, alive.  start() then   *)
(* takes up the active job.                                                  *)
LeftLease(lease, graceful, alike) ==
    CASE lease = "mine" -> IF graceful THEN "none" ELSE IF alike THEN "foreign" ELSE "dead"
      [] lease = "lapsed" -> "dead"
      [] OTHER -> lease
Leavings(f, graceful, alike) ==
    IF f.active = NoActive THEN f
    ELSE Put(f, f.active, [Current(f) EXCEPT !.lease = LeftLease(@, graceful /\ Busy(f.active[1]), alike)])
ControllerStarts(graceful, alike) ==
    LET f == Reconciled(Leavings(file, graceful, alike), fleet)
        up == Adoptable(f, FALSE)
    IN  /\ file' = IF up THEN Adopted(f) ELSE f
        /\ pathOwner' = up
        /\ runs' = [r \in Releases |-> IF up /\ r = f.active[1] THEN [pc |-> "scheduled"] ELSE NoRun]
        /\ wakes' = {}
        /\ UNCHANGED << posts, fleet >>
=============================================================================
