----------------------------- MODULE SharedVoices -----------------------------
(* One reference voice of the Hub and its copies on the Voice Studios of the *)
(* fleet (shared_voices.py): the canonical directory with the rows of        *)
(* sync.json, the tombstone of a deleted voice, the tasks that send or       *)
(* remove copies one pass at a time, and the reconciler that retries.        *)
EXTENDS Naturals

CONSTANTS
    Studios,        \* the Voice Studios, one to a Mac
    MaxEdits,       \* bound: how often the voice is renamed or corrected
    MaxTrouble      \* bound: lost and refused requests, outages, removals and restarts of the Hub

ASSUME VoicesAssumption == MaxEdits \in Nat /\ MaxTrouble \in Nat

VARIABLES
    master,     \* the canonical voice: its edition, 0 if there is none
    rows,       \* sync.json: what is known of each copy
    tomb,       \* the tombstone: whether there is one, and its rows
    tasks,      \* _tasks, _resync_requested, _delete_tasks and the reconciler's round
    pass,       \* who holds _sync_lock, and the Studios it waits for
    requests,   \* what is under way to the Studios
    studios,    \* the Studios: registered, up, and the edition of their copy
    astray,     \* history: where the Hub's rows may be wrong for good, and why
    trouble

vars == << master, rows, tomb, tasks, pass, requests, studios, astray, trouble >>

NoPass == [kind |-> "none"]
Free == pass = NoPass
NoRound == [stage |-> "none", of |-> {}]
Nobody == [s \in Studios |-> "none"]
(* _targets *)
Targets == {s \in Studios : studios[s].registered}
IsUp(s) == studios[s].up

Init ==
    /\ master = 0 /\ rows = Nobody
    /\ tomb = [on |-> FALSE, rows |-> Nobody]
    /\ tasks = [sync |-> "none", again |-> FALSE, delete |-> "none", round |-> NoRound]
    /\ pass = NoPass /\ requests = {}
    /\ studios \in [Studios -> [registered : BOOLEAN, up : {TRUE}, copy : {0}]]
    /\ astray = [late |-> {}, away |-> {}, cut |-> FALSE] /\ trouble = 0

Trouble == trouble < MaxTrouble /\ trouble' = trouble + 1
Quiet == UNCHANGED << astray, trouble >>

-----------------------------------------------------------------------------
(* What the pages of the Hub ask for *)

(* Mutant of Requested: a pass that is under way is enough. *)
MutantRequested == IF tasks.sync = "none" THEN [tasks EXCEPT !.sync = "waiting"] ELSE tasks
(* start_sync: a pass that is under way has read an older edition, so        *)
(* another one is to follow it.                                              *)
Requested == IF tasks.sync = "none" THEN [tasks EXCEPT !.sync = "waiting"] ELSE [tasks EXCEPT !.again = TRUE]
StartSync == tasks' = IF tasks.delete # "none" \/ tomb.on THEN tasks ELSE Requested

Create ==
    /\ master = 0 /\ ~tomb.on
    /\ master' = 1
    /\ StartSync
    /\ UNCHANGED << rows, tomb, pass, requests, studios >> /\ Quiet
Edit ==
    /\ master \in 1 .. MaxEdits
    /\ master' = master + 1
    /\ StartSync
    /\ UNCHANGED << rows, tomb, pass, requests, studios >> /\ Quiet
AskSync ==
    /\ master # 0 /\ StartSync
    /\ UNCHANGED << master, rows, tomb, pass, requests, studios >> /\ Quiet

(* The requests of a pass that is given up go on without it. *)
GivenUp(set) == {[r EXCEPT !.heard = FALSE] : r \in set}
(* prepare_delete: the tombstone, with the rows so far, takes the place of   *)
(* the directory, and the task that sends the voice is cancelled.            *)
Buried == IF tomb.on THEN tomb
          ELSE [on |-> TRUE, rows |-> [s \in Studios |-> IF rows[s] = "none" THEN "none" ELSE "pending"]]
Cancelled == ~tomb.on /\ pass.kind = "sync" /\ pass.owner = "task"
PrepareDelete ==
    /\ tomb' = Buried /\ master' = 0 /\ rows' = Nobody
    /\ IF Cancelled THEN pass' = NoPass /\ requests' = GivenUp(requests) ELSE UNCHANGED << pass, requests >>
(* ... and start_delete *)
Delete ==
    /\ master # 0 \/ tomb.on
    /\ PrepareDelete
    /\ tasks' = [tasks EXCEPT !.delete = IF @ = "none" THEN "waiting" ELSE @,
                              !.sync = IF tomb.on THEN @ ELSE "none", !.again = @ /\ tomb.on]
    /\ UNCHANGED studios /\ Quiet
AskDelete ==
    /\ (master # 0 \/ tomb.on) /\ tasks.delete = "none"
    /\ tasks' = [tasks EXCEPT !.delete = "waiting"]
    /\ UNCHANGED << master, rows, tomb, pass, requests, studios >> /\ Quiet

-----------------------------------------------------------------------------
(* A pass: sync_voice and delete_voice, which hold _sync_lock *)

(* Mutant of Sent: at a Studio that is offline there is nothing to do. *)
MutantSent(kind, of) == [s \in Studios |->
    IF s \notin of THEN (IF kind = "sync" THEN rows[s] ELSE Buried.rows[s])
    ELSE IF IsUp(s) THEN kind ELSE IF kind = "sync" THEN "synced" ELSE "deleted"]
(* The rows of a pass that starts: a Studio that is offline is left for a    *)
(* later one.                                                                *)
Sent(kind, of) == [s \in Studios |->
    IF s \notin of THEN (IF kind = "sync" THEN rows[s] ELSE Buried.rows[s])
    ELSE IF IsUp(s) THEN kind ELSE "pending"]
Begins(kind, owner, of) ==
    /\ pass' = [kind |-> kind, owner |-> owner, of |-> {s \in of : IsUp(s)}]
    /\ requests' = requests
                   \cup {[studio |-> s, edition |-> IF kind = "sync" THEN master ELSE 0, heard |-> TRUE, old |-> FALSE]
                            : s \in {t \in of : IsUp(t)}}

SyncStarts(owner, of) ==
    /\ Free /\ master # 0
    /\ Begins("sync", owner, of) /\ rows' = Sent("sync", of)
    /\ UNCHANGED << master, tomb, studios >> /\ Quiet
(* A deletion that has no tombstone yet makes one. *)
DeleteStarts(owner, of) ==
    /\ Free
    /\ Begins("delete", owner, of)
    /\ tomb' = [on |-> TRUE, rows |-> Sent("delete", of)]
    /\ IF tomb.on THEN UNCHANGED << master, rows >> ELSE master' = 0 /\ rows' = Nobody
    /\ UNCHANGED studios /\ Quiet

(* The voice is there: whatever removes it cancels the task first. *)
TaskSyncs == tasks.sync = "waiting" /\ SyncStarts("task", Targets) /\ tasks' = [tasks EXCEPT !.sync = "running"]
TaskDeletes ==
    /\ tasks.delete = "waiting" /\ DeleteStarts("task", Targets)
    /\ tasks' = IF tomb.on THEN [tasks EXCEPT !.delete = "running"]
                ELSE [tasks EXCEPT !.delete = "running", !.sync = "none", !.again = FALSE]

(* A Studio serves a request, and those given up before are now old. *)
Gone(r) == {[q EXCEPT !.old = @ \/ (q.studio = r.studio /\ ~q.heard)] : q \in requests \ {r}}
Serves(r) == studios' = [studios EXCEPT ![r.studio].copy = r.edition]
Answer(s, status) ==
    IF pass.kind = "sync" THEN rows' = [rows EXCEPT ![s] = status] /\ UNCHANGED tomb
    ELSE tomb' = [tomb EXCEPT !.rows[s] = status] /\ UNCHANGED rows
Waits(s) == s \in pass.of /\ (pass.kind = "sync" => master # 0)
Heard(s) == {r \in requests : r.studio = s /\ r.heard}
Verdict == IF pass.kind = "sync" THEN "synced" ELSE "deleted"
Answered(s) ==
    /\ ~Free /\ Waits(s)
    /\ \E r \in Heard(s) : Serves(r) /\ requests' = Gone(r)
    /\ Answer(s, Verdict)
    /\ pass' = [pass EXCEPT !.of = @ \ {s}]
    /\ UNCHANGED << master, tasks >> /\ Quiet
(* The connection drops, or the answer does not come in time: the request    *)
(* may still be served.                                                      *)
Unanswered(s) ==
    /\ ~Free /\ Waits(s) /\ Trouble
    /\ Answer(s, "pending")
    /\ requests' = {IF r \in Heard(s) THEN [r EXCEPT !.heard = FALSE] ELSE r : r \in requests}
    /\ pass' = [pass EXCEPT !.of = @ \ {s}]
    /\ UNCHANGED << master, tasks, studios, astray >>
(* An error of the Studio, or one that is too old. *)
RefusedBy(s) ==
    /\ ~Free /\ Waits(s) /\ Trouble
    /\ Answer(s, "failed")
    /\ requests' = requests \ Heard(s)
    /\ pass' = [pass EXCEPT !.of = @ \ {s}]
    /\ UNCHANGED << master, tasks, studios, astray >>
(* The voice was deleted under a pass of the reconciler, which nobody        *)
(* cancels: saving the first answer fails.                                   *)
Aborts(s) ==
    /\ pass.kind = "sync" /\ master = 0 /\ s \in pass.of
    /\ \E r \in Heard(s) : Serves(r) /\ requests' = GivenUp(Gone(r))
    /\ pass' = NoPass /\ tasks' = [tasks EXCEPT !.round = NoRound]
    /\ UNCHANGED << master, rows, tomb >> /\ Quiet

(* Mutant of Retry: what was under way when the Hub ended is left. *)
MutantRetry(known, doing, due) == {s \in Targets : known[s] \in {"none", "pending"} \/ (due /\ known[s] = "failed")}
(* reconcile_once: first the voices, then the deletions *)
Retry(known, doing, due) == {s \in Targets : known[s] \in {"none", "pending", doing} \/ (due /\ known[s] = "failed")}
DeletionRound(due) ==
    LET of == Retry(tomb.rows, "delete", due)
    IN  IF tomb.on /\ tasks.delete = "none" /\ of # {} THEN [stage |-> "delete", of |-> of] ELSE NoRound
Round(due) ==
    LET of == Retry(rows, "sync", due)
    IN  IF master # 0 /\ tasks.sync = "none" /\ of # {} THEN [stage |-> "sync", of |-> of] ELSE DeletionRound(due)
Reconcile(due) ==
    /\ tasks.round = NoRound /\ Round(due) # NoRound
    /\ tasks' = [tasks EXCEPT !.round = Round(due)]
    /\ UNCHANGED << master, rows, tomb, pass, requests, studios >> /\ Quiet
RoundSyncs ==
    /\ tasks.round.stage = "sync" /\ SyncStarts("round", tasks.round.of \cap Targets)
    /\ UNCHANGED tasks
RoundFindsNothing ==
    /\ tasks.round.stage = "sync" /\ Free /\ master = 0
    /\ tasks' = [tasks EXCEPT !.round = NoRound]
    /\ UNCHANGED << master, rows, tomb, pass, requests, studios >> /\ Quiet
RoundDeletes ==
    /\ tasks.round.stage = "delete" /\ DeleteStarts("round", tasks.round.of \cap Targets)
    /\ UNCHANGED tasks

(* The end of a pass.  A task that sent the voice is followed by another if  *)
(* one was asked for meanwhile.                                              *)
Follows == tasks.again /\ master # 0 /\ ~tomb.on /\ tasks.delete = "none"
AfterTask == IF pass.kind = "delete" THEN [tasks EXCEPT !.delete = "none"]
             ELSE [tasks EXCEPT !.sync = IF Follows THEN "waiting" ELSE "none", !.again = FALSE]
AfterRound(due) == [tasks EXCEPT !.round = IF pass.kind = "sync" THEN DeletionRound(due) ELSE NoRound]
PassEnds(due) ==
    /\ ~Free /\ pass.of = {}
    /\ pass' = NoPass
    /\ tasks' = IF pass.owner = "task" THEN AfterTask ELSE AfterRound(due)
    /\ UNCHANGED << master, rows, tomb, requests, studios >> /\ Quiet

-----------------------------------------------------------------------------
(* The Studios, the registry and the Hub's process *)

(* A request nobody waits for is served after all, or never. *)
ServedLate(r) ==
    /\ r \in requests /\ ~r.heard /\ IsUp(r.studio)
    /\ Serves(r) /\ requests' = Gone(r)
    /\ astray' = IF r.old THEN [astray EXCEPT !.late = @ \cup {r.studio}] ELSE astray
    /\ UNCHANGED << master, rows, tomb, tasks, pass, trouble >>
NeverServed(r) ==
    /\ r \in requests /\ ~r.heard
    /\ requests' = requests \ {r}
    /\ UNCHANGED << master, rows, tomb, tasks, pass, studios >> /\ Quiet
GoesDown(s) ==
    /\ IsUp(s) /\ Trouble
    /\ studios' = [studios EXCEPT ![s].up = FALSE]
    /\ UNCHANGED << master, rows, tomb, tasks, pass, requests, astray >>
ComesUp(s) ==
    /\ ~IsUp(s)
    /\ studios' = [studios EXCEPT ![s].up = TRUE]
    /\ UNCHANGED << master, rows, tomb, tasks, pass, requests >> /\ Quiet
Joins(s) ==
    /\ s \notin Targets
    /\ studios' = [studios EXCEPT ![s].registered = TRUE]
    /\ UNCHANGED << master, rows, tomb, tasks, pass, requests >> /\ Quiet
(* A Studio that leaves keeps its copy, and its row. *)
Leaves(s) ==
    /\ s \in Targets /\ Trouble
    /\ studios' = [studios EXCEPT ![s].registered = FALSE]
    /\ astray' = [astray EXCEPT !.away = @ \cup {s}]
    /\ UNCHANGED << master, rows, tomb, tasks, pass, requests >>

Forgets(cut) ==
    /\ tasks' = [sync |-> "none", again |-> FALSE, delete |-> "none", round |-> NoRound]
    /\ pass' = NoPass /\ requests' = GivenUp(requests)
    /\ astray' = [astray EXCEPT !.cut = @ \/ cut]
    /\ UNCHANGED << master, rows, studios >> /\ Trouble
(* What was only asked for is forgotten; what had begun is in the rows. *)
HubRestarts ==
    /\ Forgets(tasks.sync = "waiting" \/ tasks.again \/ (tasks.delete = "waiting" /\ ~tomb.on))
    /\ UNCHANGED tomb
(* ... between the tombstone and the directory of prepare_delete *)
DeleteCut == master # 0 /\ ~tomb.on /\ tomb' = Buried /\ Forgets(TRUE)

Asked == Create \/ Edit \/ AskSync \/ Delete \/ AskDelete
Pass == TaskSyncs \/ TaskDeletes \/ RoundSyncs \/ RoundFindsNothing \/ RoundDeletes
Next ==
    \/ Asked \/ Pass
    \/ \E due \in BOOLEAN : Reconcile(due) \/ PassEnds(due)
    \/ \E s \in Studios : Answered(s) \/ Unanswered(s) \/ RefusedBy(s) \/ Aborts(s)
    \/ \E s \in Studios : GoesDown(s) \/ ComesUp(s) \/ Joins(s) \/ Leaves(s)
    \/ \E r \in requests : ServedLate(r) \/ NeverServed(r)
    \/ HubRestarts \/ DeleteCut

Spec == Init /\ [][Next]_vars

(* The Hub's tasks go on, the lock is handed on in the order it was asked    *)
(* for, the reconciler comes round and what failed comes due, and a Studio   *)
(* that is down comes back.  Nothing is assumed of lost requests, and nobody *)
(* has to ask for anything.                                                  *)
FairSpec ==
    /\ Spec
    /\ SF_vars(TaskSyncs) /\ SF_vars(TaskDeletes)
    /\ SF_vars(RoundSyncs \/ RoundFindsNothing \/ RoundDeletes)
    /\ WF_vars(Reconcile(TRUE)) /\ WF_vars(PassEnds(TRUE) \/ PassEnds(FALSE))
    /\ \A s \in Studios : WF_vars(Answered(s) \/ Aborts(s)) /\ WF_vars(ComesUp(s))

-----------------------------------------------------------------------------
(* Properties *)

(* A Studio whose copy is shown as removed has none, and gets none again:    *)
(* no pass that was under way, no retry and no restart brings it back.  Not  *)
(* so of a Hub that ends between the tombstone and the directory, nor of a   *)
(* Studio that serves a request after a newer one.                           *)
DeletedIsGone == \A s \in Studios : tomb.on /\ tomb.rows[s] = "deleted" =>
    studios[s].copy = 0 \/ s \in astray.late \/ astray.cut

(* An edit reaches every Studio of the registry, through outages, lost       *)
(* requests and passes that sent the edition before it, unless the Hub ends  *)
(* before it has begun to send it, or the Studio was away.                   *)
Behind(s) == master # 0 /\ ~tomb.on /\ s \in Targets /\ studios[s].copy # master
Excused(s) == s \in astray.late \cup astray.away \/ astray.cut
EditsArrive == \A s \in Studios : Behind(s) ~> ~Behind(s) \/ Excused(s)

(* A deleted voice is removed from every Studio of the registry. *)
Holds(s) == tomb.on /\ s \in Targets /\ studios[s].copy # 0
DeletionEnds == \A s \in Studios : Holds(s) ~> ~Holds(s) \/ s \in astray.late \/ astray.cut
=============================================================================
