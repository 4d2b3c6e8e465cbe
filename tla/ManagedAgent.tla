----------------------------- MODULE ManagedAgent -----------------------------
(* The Agent's half of managed releases (release_reconciliation.py): the      *)
(* child operations its Hub admitted, in a durable file of its own, and the   *)
(* one task that executes the open one: the Hub's own update first, which     *)
(* ends the process that asked for it, then the Studios'.                     *)
EXTENDS ReleaseController

VARIABLES
    children,   \* the Agents' files: the child of each operation
    tasks       \* _agent_tasks of each Agent's Hub

agentVars == << children, tasks >>

Agents == Macs \ {Local}
NoChild == [state |-> "none"]
NoTask == [pc |-> "none"]
ChildStates == {"queued", "running", "degraded"} \cup Terminal
ChildRows == {"absent", "checking", "current", "waiting", "clean", "wrong"}

AgentInit ==
    /\ children = [op \in Ops |-> NoChild]
    /\ tasks = [m \in Agents |-> NoTask]

Admitted(op) == children[op] # NoChild
OpenChild(op) == Admitted(op) /\ children[op].state \notin Terminal

NewChild(m) == [state |-> "queued", lease |-> "none",
    rows |-> [c \in Components |-> IF c = "hub" \/ c \in fleet.fitted[m] THEN "checking" ELSE "absent"]]
(* admit_managed_update: a known operation is adopted, a new one refused     *)
(* while another is open.                                                    *)
Admission(op) ==
    IF Admitted(op) THEN "adopted"
    ELSE IF \E other \in Ops : MacOf(other) = MacOf(op) /\ OpenChild(other) THEN "refused"
    ELSE "admitted"
Admits(op) ==
    children' = IF Admission(op) = "admitted" THEN [children EXCEPT ![op] = NewChild(MacOf(op))] ELSE children

(* _ensure_agent_task *)
Ensures(op) ==
    tasks' = IF Admission(op) = "refused" \/ tasks[MacOf(op)].pc # "none" THEN tasks
             ELSE [tasks EXCEPT ![MacOf(op)] = [pc |-> "claim", op |-> op]]

(* The request arrives; its answer reaches the run that still waits for it,  *)
(* or is lost.                                                               *)
Answered(post) ==
    LET run == runs[post.run] IN
    IF run.pc = "posted" /\ run.op = post.op /\ run.reply = "none"
    THEN [runs EXCEPT ![post.run].reply = Admission(post.op)] ELSE runs
AgentReceives(post, heard) ==
    /\ post \in posts
    /\ Admits(post.op) /\ Ensures(post.op)
    /\ posts' = posts \ {post}
    /\ runs' = IF heard THEN Answered(post) ELSE runs
    /\ UNCHANGED << file, pathOwner, wakes, fleet, softwareVars >>

(* _agent_record_result judges the child by all its rows. *)
Judged(child) ==
    LET have == {child.rows[c] : c \in Components} IN
    IF "wrong" \in have THEN [child EXCEPT !.state = "blocked", !.lease = "none"]
    ELSE IF have \subseteq {"absent", "current"} THEN [child EXCEPT !.state = "complete", !.lease = "none"]
    ELSE [child EXCEPT !.state = IF have \cap {"waiting", "clean"} # {} THEN "degraded" ELSE "running"]

(* A task that ends gives the lease of an open child back. *)
GivenBack(child) == [child EXCEPT !.lease = "none"]

(* _claim_agent_execution and the Hub's row: a Hub that runs the release     *)
(* goes on to the Studios; any other is left to its updater, and the task    *)
(* ends.  One step: the coroutine that asks the updater, main.py's           *)
(* _run_managed_hub_update, never suspends, so its await lets nobody in.     *)
Claimable(child) == child.lease \in {"none", "lapsed", "dead"}
Claimed(child) == [child EXCEPT !.state = "running", !.lease = "mine"]
ChildRow(answer) == CASE answer = "restarting" -> "checking" [] answer = "failed" -> "waiting" [] OTHER -> answer
PendingFits(child) == {c \in Fittings : child.rows[c] \notin {"absent", "current"}}
Ended(m) == tasks' = [tasks EXCEPT ![m] = NoTask]

ChildSkipped(m) ==
    /\ tasks[m].pc = "claim"
    /\ ~OpenChild(tasks[m].op) \/ ~Claimable(children[tasks[m].op])
    /\ Ended(m)
    /\ UNCHANGED << children, controllerVars, softwareVars >>

ChildClaims(m, answer) ==
    LET op == tasks[m].op
        known == children[op].rows["hub"] = "current"
        current == known \/ loaded[m] = ReleaseOf(op)
        child == [Claimed(children[op]) EXCEPT !.rows["hub"] = IF current THEN "current" ELSE ChildRow(answer)]
        settled == IF known THEN child ELSE Judged(child)
    IN  /\ tasks[m].pc = "claim" /\ OpenChild(op) /\ Claimable(children[op])
        /\ answer \in HubAnswers(m, op)
        /\ IF current THEN UNCHANGED managed ELSE HubAsked(m, op)
        /\ IF current /\ PendingFits(child) # {}
           THEN /\ children' = [children EXCEPT ![op] = settled]
                /\ tasks' = [tasks EXCEPT ![m] = [pc |-> "fitting", op |-> op]]
           ELSE /\ children' = [children EXCEPT ![op] = GivenBack(settled)]
                /\ Ended(m)
        /\ UNCHANGED << controllerVars, loaded, fits, trial, undone, verdict >>

(* _require_agent_fence: of a child that only its task claims, the           *)
(* generation says no more than the lease.                                   *)
ChildFence(m) == children[tasks[m].op].lease = "mine"

(* The Studios end: every pending row is recorded, one without a result is   *)
(* to be tried again.                                                        *)
ChildFits(m, outcome) ==
    LET op == tasks[m].op
        child == children[op]
        rows == [c \in Components |-> IF c \in DOMAIN outcome THEN ChildRow(outcome[c]) ELSE child.rows[c]]
    IN  /\ tasks[m].pc = "fitting" /\ outcome \in [PendingFits(child) -> Outcomes]
        /\ FitsEnd(m, ReleaseOf(op), outcome)
        /\ children' = IF ChildFence(m) THEN [children EXCEPT ![op] = GivenBack(Judged([child EXCEPT !.rows = rows]))]
                       ELSE [children EXCEPT ![op] = GivenBack(child)]
        /\ Ended(m)
        /\ UNCHANGED << controllerVars, loaded, trial, undone, managed, verdict >>

(* The heartbeat finds the lease over: the execution is cancelled, though    *)
(* not what the Studios were asked.                                          *)
ChildLost(m) ==
    /\ tasks[m].pc = "fitting" /\ ~ChildFence(m)
    /\ children' = [children EXCEPT ![tasks[m].op] = GivenBack(@)]
    /\ Ended(m)
    /\ UNCHANGED << controllerVars, softwareVars >>
ChildLapses(m) ==
    /\ tasks[m].pc = "fitting" /\ ChildFence(m)
    /\ children' = [children EXCEPT ![tasks[m].op].lease = "lapsed"]
    /\ UNCHANGED << tasks, controllerVars, softwareVars >>
ChildLeaseEnds(op) ==
    /\ OpenChild(op) /\ children[op].lease = "foreign"
    /\ children' = [children EXCEPT ![op].lease = "dead"]
    /\ UNCHANGED << tasks, controllerVars, softwareVars >>

(* The run observes a child that is over, or degraded. *)
Observed(child) == [c \in Components |->
    CASE child.rows[c] = "checking" -> "restarting" [] child.rows[c] = "waiting" -> "failed" [] OTHER -> child.rows[c]]
RunPolls(r) ==
    /\ runs[r].pc = "polling" /\ Live(file, runs[r].id)
    /\ LET child == children[runs[r].op] IN
       /\ child # NoChild /\ child.state \in Terminal \cup {"degraded"}
       /\ RunRecords(r, Observed(child))
    /\ UNCHANGED agentVars

(* The Agent's Hub process ends, with its task, and starts again: start()    *)
(* takes up the open child.                                                  *)
AgentStarts(m, graceful, alike) ==
    LET open == {op \in Ops : MacOf(op) = m /\ OpenChild(op)} IN
    /\ children' = [op \in Ops |-> IF op \notin open THEN children[op]
                     ELSE [children[op] EXCEPT !.lease = LeftLease(@, graceful, alike)]]
    /\ IF open = {} THEN tasks' = [tasks EXCEPT ![m] = NoTask]
       ELSE \E op \in open : tasks' = [tasks EXCEPT ![m] = [pc |-> "claim", op |-> op]]
    /\ UNCHANGED controllerVars
=============================================================================
