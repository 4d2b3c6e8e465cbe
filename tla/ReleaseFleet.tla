----------------------------- MODULE ReleaseFleet -----------------------------
(* A managed release across a site: the Controller's runs, the Agents'        *)
(* children, the Hubs' updaters that restart both, the fleet's changes, and   *)
(* GenStudio, which publishes, activates, replays and withdraws.              *)
EXTENDS ManagedAgent

CONSTANTS
    FirstFleets,    \* the registries a behaviour may begin with
    MaxTrouble      \* bound: losses, failures, restarts, lapses and fleet changes of a behaviour

ASSUME FleetAssumption ==
    /\ FirstFleets \subseteq [enabled : SUBSET Macs, fitted : [Macs -> SUBSET Fittings]]
    /\ MaxTrouble \in Nat

VARIABLE trouble

vars == << controllerVars, agentVars, softwareVars, trouble >>

Init == SoftwareInit /\ ControllerInit /\ fleet \in FirstFleets /\ AgentInit /\ trouble = 0

Quiet == UNCHANGED trouble
Trouble == trouble < MaxTrouble /\ trouble' = trouble + 1
Apart == UNCHANGED agentVars

-----------------------------------------------------------------------------
(* The Hub process of a Mac ends: what it left, and what it starts with.     *)
HubStarts(m, graceful, alike) ==
    IF m = Local THEN ControllerStarts(graceful, alike) /\ UNCHANGED agentVars
    ELSE AgentStarts(m, graceful, alike)

(* The updater's helper starts the Hub on the release, which resumes its     *)
(* work before the release is verified; then the update is over, or the Hub  *)
(* is started once more, on the code it had; or it was never stopped.        *)
Update(m) == HelperStarts(m) /\ HubStarts(m, TRUE, FALSE) /\ (IF trial[m] = NoTrial THEN Quiet ELSE Trouble)
UpdateVerified(m) == HelperVerifies(m) /\ Quiet /\ UNCHANGED << controllerVars, agentVars >>
UpdateRollsBack(m, how) == HelperRollsBack(m, how) /\ HubStarts(m, TRUE, FALSE) /\ Trouble
UpdateFails(m, how) == HelperFails(m, how) /\ Trouble /\ UNCHANGED << controllerVars, agentVars >>

(* The process ends by itself. *)
Crash(m, alike) == HubStarts(m, FALSE, alike) /\ Trouble /\ UNCHANGED softwareVars

-----------------------------------------------------------------------------
(* The run of a release.  An answer so late that it is asked for again, or   *)
(* not waited for, is a trouble, unless there is nothing to wait for.        *)
OnItsWay(r) == runs[r].reply # "none" \/ \E post \in posts : post.op = runs[r].op
Unanswered(r) == runs[r].pc = "polling" /\ tasks[runs[r].at].pc = "none"
    /\ children[runs[r].op].state \notin Terminal \cup {"degraded"}
Run(r) ==
    \/ RunStarts(r) /\ Apart /\ Quiet
    \/ RunBegins(r) /\ Apart /\ Quiet
    \/ \E m \in Macs :
        \/ PassOver(r, m, "disabled") /\ Apart /\ Quiet
        \/ PassOver(r, m, "settled") /\ Apart /\ Quiet
        \/ PassOver(r, m, "offline") /\ Apart /\ Trouble
        \/ RunPosts(r, m) /\ Apart /\ Quiet
    \/ RunReposts(r) /\ Apart /\ (IF OnItsWay(r) THEN Trouble ELSE Quiet)
    \/ RunAdmitted(r) /\ Apart /\ Quiet
    \/ RunGivesUp(r) /\ Apart /\ (IF Unanswered(r) THEN Quiet ELSE Trouble)
    \/ RunPolls(r) /\ Quiet
    \/ RunFits(r) /\ Apart /\ Quiet
    \/ \E answer \in {"restarting", "failed", "clean"} :
        \/ RunSettlesHub(r, answer) /\ Apart /\ Quiet
        \/ \E outcome \in FitOutcomes :
            /\ RunFitted(r, outcome, answer) /\ Apart
            /\ IF \A c \in DOMAIN outcome : outcome[c] = "current" THEN Quiet ELSE Trouble
    \/ RunRequests(r) /\ Apart /\ Quiet
    \/ CatalogAnswers(r, TRUE) /\ Apart /\ Quiet
    \/ CatalogAnswers(r, FALSE) /\ Apart /\ Trouble
    \/ RunCompletes(r) /\ Apart /\ Quiet
    \/ RunLost(r) /\ Apart /\ Quiet

(* The network and the Agents *)
Receive(post) == AgentReceives(post, TRUE) /\ Quiet
AnswerLost(post) == AgentReceives(post, FALSE) /\ Trouble
PostLost(post) ==
    /\ post \in posts /\ posts' = posts \ {post} /\ Trouble
    /\ UNCHANGED << file, pathOwner, runs, wakes, fleet, agentVars, softwareVars >>
Child(m) ==
    \/ ChildSkipped(m) /\ Quiet
    \/ \E answer \in {"restarting", "failed", "clean"} : ChildClaims(m, answer) /\ Quiet
    \/ \E outcome \in FitOutcomes :
        /\ ChildFits(m, outcome)
        /\ IF \A c \in DOMAIN outcome : outcome[c] = "current" THEN Quiet ELSE Trouble
    \/ ChildLost(m) /\ Quiet
Lapse(m) == ChildLapses(m) /\ Trouble

(* What starts runs besides *)
Scan == DueScan /\ Apart /\ Quiet
Peer(m) == PeerBack(m) /\ Apart /\ Trouble
PeersBack == PeerWakes /\ Apart /\ Quiet
FleetBack == FleetWakes /\ Apart /\ Quiet

(* The registry: a Mac is switched off, which tells nobody, or on, or a      *)
(* Studio is installed on one.                                               *)
Registry == RegistryWoken /\ UNCHANGED << pathOwner, posts, agentVars, softwareVars >>
SwitchOff(m) ==
    /\ m \in fleet.enabled
    /\ fleet' = [fleet EXCEPT !.enabled = @ \ {m}]
    /\ Trouble /\ UNCHANGED << file, pathOwner, runs, posts, wakes, agentVars, softwareVars >>
SwitchOn(m) ==
    /\ m \notin fleet.enabled
    /\ fleet' = [fleet EXCEPT !.enabled = @ \cup {m}]
    /\ Registry /\ Quiet
Fit(m, c) ==
    /\ c \notin fleet.fitted[m]
    /\ fleet' = [fleet EXCEPT !.fitted[m] = @ \cup {c}]
    /\ Registry /\ Trouble

(* Time.  A lease that a run refreshes lapses only when the Mac sleeps. *)
Unattended == \A r \in Releases : runs[r].pc = "idle"
LeaseOver ==
    \/ LeaseEnds("foreign", "dead") /\ Apart /\ Quiet
    \/ LeaseEnds("mine", "lapsed") /\ Unattended /\ Apart /\ Quiet
    \/ \E op \in Ops : ChildLeaseEnds(op) /\ Quiet
Time ==
    \/ \E m \in Macs, c \in Components : RowDue(m, c) /\ Apart /\ Quiet
    \/ CatalogDue /\ Apart /\ Quiet
    \/ LeaseOver
    \/ LeaseEnds("mine", "lapsed") /\ ~Unattended /\ Apart /\ Trouble

GenStudio(r) ==
    \/ Publish(r) /\ Apart /\ Quiet
    \/ Activate(r) /\ Apart /\ Quiet
Withdrawal == Withdraw /\ Apart /\ Trouble

Next ==
    \/ \E m \in Macs :
        \/ Update(m) \/ UpdateVerified(m)
        \/ \E how \in {"failed", "clean"} : UpdateFails(m, how) \/ UpdateRollsBack(m, how)
        \/ \E alike \in BOOLEAN : Crash(m, alike)
    \/ \E r \in Releases : Run(r) \/ GenStudio(r)
    \/ \E post \in posts : Receive(post) \/ AnswerLost(post) \/ PostLost(post)
    \/ \E m \in Agents : Child(m) \/ Lapse(m) \/ Peer(m)
    \/ \E m \in Macs : SwitchOff(m) \/ SwitchOn(m) \/ \E c \in Fittings : Fit(m, c)
    \/ Scan \/ PeersBack \/ FleetBack \/ Time \/ Withdrawal

Spec == Init /\ [][Next]_vars

(* The Controller and the Agents do what they can, the updaters end, leases  *)
(* nobody refreshes run out, and GenStudio replays its activation.  Nothing  *)
(* is assumed of the troubles, nor that a retry ever comes due by itself.    *)
FairSpec ==
    /\ Spec
    /\ WF_vars(\E r \in Releases : Activate(r) /\ Apart /\ Quiet)
    /\ \A r \in Releases : WF_vars(Run(r))
    /\ \A m \in Macs : WF_softwareVars(HelperStarts(m) \/ HelperVerifies(m))
    /\ \A m \in Agents : WF_vars(Child(m)) /\ WF_vars(\E post \in posts : MacOf(post.op) = m /\ Receive(post))
    /\ WF_vars(LeaseOver)
-----------------------------------------------------------------------------
(* Properties *)

RunSet == {NoRun, [pc |-> "scheduled"]}
    \cup [pc : {"begin", "turn", "fitting", "catalog", "closing"}, id : JobIds, gen : Nat, left : SUBSET Macs, at : Macs]
    \cup [pc : {"posted", "polling"}, id : JobIds, gen : Nat, left : SUBSET Macs, at : Agents,
          op : Ops, seen : BOOLEAN, reply : {"none", "admitted", "adopted", "refused"}]
JobSet == [state : JobStates, lease : Leases, gen : Nat, failed : SUBSET Macs,
           rows : [Macs -> [Components -> RowStates]], child : SUBSET Macs,
           opgen : [Macs -> 0 .. MaxSupplement], supplement : 0 .. MaxSupplement, catalog : CatalogStates]
ChildSet == [state : ChildStates, lease : Leases, rows : [Components -> ChildRows]]
TaskSet == {NoTask} \cup [pc : {"claim", "fitting"}, op : Ops]

(* _validate_state *)
JobIsValid(f, id) ==
    LET job == f.jobs[id]
        trying == Unsettled(job) \/ job.catalog \in Retryable
    IN  /\ job \in JobSet /\ \E m \in Macs : Member(job, m)
        /\ id[2] <= job.supplement /\ \A m \in Macs : job.opgen[m] <= job.supplement
        /\ \A m \in job.failed : Member(job, m)
        /\ trying => job.state \in {"degraded", "blocked"}
        /\ job.state = "degraded" => trying
        /\ job.state = "complete" => Converged(job) /\ job.catalog = "acknowledged"
        /\ job.state \in Terminal => job.lease = "none"
        /\ job.lease # "none" => f.active = id
        /\ id[2] > 0 => Live(f, << id[1], id[2] - 1 >>) /\ f.jobs[<< id[1], id[2] - 1 >>].state = "complete"
FileIsValid(f) ==
    /\ f.desired \in Releases \cup {0} /\ f.active \in JobIds \cup {NoActive}
    /\ f.active # NoActive => f.active[1] = f.desired /\ Live(f, f.active)
    /\ \A id \in JobIds : Live(f, id) => JobIsValid(f, id)
(* _validate_agent_state *)
ChildIsValid(child) ==
    LET have == {child.rows[c] : c \in Components} IN
    /\ child \in ChildSet
    /\ child.state \in Terminal => child.lease = "none"
    /\ child.state = "complete" => have \subseteq {"absent", "current"}
    /\ child.state = "blocked" => "wrong" \in have
    /\ child.state = "degraded" => have \cap {"waiting", "clean"} # {}

(* Every file a transaction, a run or a restart writes is one its reader     *)
(* accepts: a file refused stops the Controller's or the Agent's releases    *)
(* for good.  The rest of the state is of its type.                          *)
FilesReadable ==
    /\ FileIsValid(file) /\ \A op \in Ops : Admitted(op) => ChildIsValid(children[op])
    /\ pathOwner \in BOOLEAN /\ \A r \in Releases : runs[r] \in RunSet
    /\ posts \subseteq [op : Ops, run : Releases] /\ wakes \subseteq {"peer", "fleet"}
    /\ fleet \in [enabled : SUBSET Macs, fitted : [Macs -> SUBSET Fittings]]
    /\ \A m \in Agents : tasks[m] \in TaskSet
    /\ loaded \in [Macs -> Releases \cup {0}] /\ fits \in [Macs -> [Fittings -> Releases \cup {0}]]
    /\ trial \in [Macs -> Releases \cup {0, NoTrial}] /\ undone \in [Macs -> Releases \cup {0}]
    /\ managed \in [Macs -> Ops \cup {NoOp}] /\ verdict \in [Ops -> Verdicts]
    /\ trouble \in 0 .. MaxTrouble

(* What is reported as current runs the release: on the Controller's rows,   *)
(* whether the Mac told it or an earlier supplement did, and on the Agent's, *)
(* through every restart, replay, lost answer and failed update.  But for    *)
(* one case: a Hub that the update had started, that reported itself, and    *)
(* whose updater then took that very release back.                           *)
ConvergedTruly ==
    /\ \A id \in JobIds, m \in Macs, c \in Components :
        Live(file, id) /\ file.jobs[id].rows[m][c] = "current"
            => Running(m, c) >= id[1] \/ TakenBack(m, c, id[1])
    /\ \A op \in Ops, c \in Components :
        Admitted(op) /\ children[op].rows[c] = "current"
            => Running(MacOf(op), c) >= ReleaseOf(op) \/ TakenBack(MacOf(op), c, ReleaseOf(op))

(* The outcome of a job is final: only a withdrawal takes it away.           *)
OutcomeIsFinal == [][\A id \in JobIds : Live(file, id) /\ file.jobs[id].state \in Terminal
                        => file'.jobs[id] \in {file.jobs[id], NoJob}]_vars

(* The release the fleet reports on is the abstract intent. *)
Places == Macs \X Components
Phase == IF file.desired = 0 THEN "idle" ELSE IF file.active = NoActive THEN "published"
         ELSE IF Current(file).state \in Terminal THEN Current(file).state ELSE "active"
Rows(p) == Current(file).rows[p[1]][p[2]]
Reporting == Phase \notin {"idle", "published"}
Scope == {p \in Places : Reporting /\ Rows(p) \notin {"outside", "absent", "excluded"}}
Reached == {p \in Places : Reporting /\ Rows(p) = "current"}
SiteReal == [p \in Places |-> Ran(p[1], p[2])]
Intent == INSTANCE ReleaseIntent WITH
    goal <- file.desired, phase <- Phase, scope <- Scope, reached <- Reached, real <- SiteReal
(* What GenStudio is told of a release is what an intent may do: complete    *)
(* only when its whole scope has run it (a Hub rolled back since included),  *)
(* reopened only for a fleet that grew, and given up only by a block or a    *)
(* withdrawal.                                                               *)
ImplementsIntent == Intent!IntentSpec

(* A release under way is settled, withdrawn, or held up for a reason known  *)
(* to the operator: an update that failed, which its updater never runs      *)
(* again, an Agent with an earlier operation still open, a withdrawal that   *)
(* left the adoption of its run behind, or a Mac ahead of the release.       *)
UpdateFailed == \E op \in Ops : verdict[op] \in {"failed", "clean"}
Occupied == \E op \in Ops : OpenChild(op) /\ op # OperationId(MacOf(op), file.active[1], Current(file).opgen[MacOf(op)])
Wedged == pathOwner /\ Current(file).lease = "none" /\ \A r \in Releases : ~Busy(r)
Ahead == \E m \in Macs, c \in Components : Running(m, c) > file.active[1]
ReleaseSettles == Open(file) ~> (Open(file) => UpdateFailed \/ Occupied \/ Wedged \/ Ahead)
=============================================================================
