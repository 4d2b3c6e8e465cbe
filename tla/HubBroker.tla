------------------------------ MODULE HubBroker ------------------------------
(***************************************************************************)
(* The generation broker of Studio Hub (app/backend/broker.py) with the    *)
(* batch rows of the ledger (ledger.py) and the Voice recovery of main.py. *)
(*                                                                         *)
(* The Hub is one asyncio process.  A coroutine runs alone between two     *)
(* awaits, so an action here is the code of one coroutine from one await   *)
(* to the next: the scheduler (`pass'), one task per running item          *)
(* (`task'), a cancellation (`cancelling'), a Voice recovery (`recovery'). *)
(* Memory (`batch', `item') and the SQLite rows (`row', `rowItem') are     *)
(* separate: a restart keeps the rows only.  Clocks are abstracted: a lease *)
(* expires, a retry delay or a recovery window ends, at any moment.        *)
(***************************************************************************)
EXTENDS Naturals, FiniteSets

CONSTANTS
    Batches, Items, Studios, Machines,
    BatchOf,        \* the batch an item belongs to
    MachineOf,      \* the physical Mac a Studio runs on
    Serves,         \* the Studios of a batch's modality and routing
    Voice,          \* the batches whose modality is "voice"
    Leased,         \* the batches GenStudio submitted with a lease
    MaxTries, MaxInfra,   \* MAX_TRIES, MAX_INFRA_TRIES
    MaxRestarts,    \* bound of the model: crashes of the Hub process
    Reports,        \* may a worker's answer carry a started_at it had not shown?
    Ends,           \* how a worker's job may end
    External,       \* the machines other queues also lease
    Serviced,       \* the Studios maintenance operations drain
    NoStudio, NoItem, NoBatch

ASSUME ShapeAssumption ==
    /\ BatchOf \in [Items -> Batches]
    /\ MachineOf \in [Studios -> Machines]
    /\ Serves \in [Batches -> SUBSET Studios]
    /\ Voice \subseteq Batches /\ Leased \subseteq Batches
    /\ Reports \subseteq BOOLEAN /\ Ends \subseteq {"done", "error", "other"}
    /\ External \subseteq Machines /\ Serviced \subseteq Studios
    /\ NoStudio \notin Studios /\ NoItem \notin Items /\ NoBatch \notin Batches

ASSUME BoundAssumption ==
    MaxTries \in Nat /\ MaxInfra \in Nat /\ MaxRestarts \in Nat

VARIABLES
    batch,      \* the batch objects: listed in `batches'?, cancelled?, done_notified?
    item,       \* the item dictionaries
    row,        \* the batch rows of hub.db ...
    rowItem,    \* ... and the items inside their payload
    lease,      \* GenStudio's renewable lease
    busy,       \* _busy: Studios running a batch item
    ext,        \* _external_machine_leases: machines a Chat, transcription, ... job holds
    maint,      \* _maintenance: Studios withdrawn from scheduling
    pass,       \* the scheduler's locals across its awaits
    task,       \* _run_item, one per running item
    job,        \* the worker's job of an item (external)
    cancelling, \* cancel_batch between its save and its _maybe_finish
    recovery,   \* a Voice recovery reading the original worker job
    restarts

vars == << batch, item, row, rowItem, lease, busy, ext, maint,
           pass, task, job, cancelling, recovery, restarts >>
taskFrame == << lease, ext, maint, pass, job, cancelling, recovery, restarts >>

-----------------------------------------------------------------------------
(* Types.                                                                   *)

TerminalStates == {"done", "error", "cancelled"}
ItemStates == TerminalStates \cup {"queued", "running", "uncertain"}
ItemRecord == [ state: ItemStates,
                studio: Studios \cup {NoStudio},
                known: BOOLEAN,     \* studio_job_id is set
                tries: Nat, infra: Nat,
                started: BOOLEAN,   \* execution_started_at is set
                owned: BOOLEAN,     \* a "recovery" record: the item is recovery's
                notified: BOOLEAN ] \* _item_notified
NewItem == [ state |-> "queued", studio |-> NoStudio, known |-> FALSE,
             tries |-> 0, infra |-> 0, started |-> FALSE,
             owned |-> FALSE, notified |-> FALSE ]

BatchRecord == [ at: {"new", "listed", "gone"},   \* listed: a key of `batches'
                 cancelled: BOOLEAN, notified: BOOLEAN ]
RowRecord == [ kept: BOOLEAN, cancelled: BOOLEAN, notified: BOOLEAN ]
NoRow == [ kept |-> FALSE, cancelled |-> FALSE, notified |-> FALSE ]

PassRecord == [ batch: Batches \cup {NoBatch}, queued: SUBSET Items,
                eligible: SUBSET Studios, studio: Studios \cup {NoStudio},
                item: Items \cup {NoItem} ]
NoPass == [ batch |-> NoBatch, queued |-> {}, eligible |-> {},
            studio |-> NoStudio, item |-> NoItem ]

(* A batch is taken to have an item webhook: without one the `hook' wait is *)
(* over at once.  Where _run_item waits: scheduled; a reference loading; the POST in       *)
(* flight; the poll sleep; the status GET in flight; the Voice artifact     *)
(* metadata; a stop signal; the recovery loop's GET, sleep or stop signal;  *)
(* the capacity hand-off; the item webhook.                                 *)
BusyPCs == { "start", "prep", "post", "poll", "get", "adopt", "stop",
             "recGet", "recSleep", "recStop", "capacity" }
Errors == {"none", "transport", "retry", "fatal", "capacity", "terminal", "timeout"}
TaskRecord == [ pc: BusyPCs \cup {"none", "hook"},
                studio: Studios \cup {NoStudio},
                sent: BOOLEAN,      \* the worker accepted the POST
                err: Errors ]
NoTask == [ pc |-> "none", studio |-> NoStudio, sent |-> FALSE, err |-> "none" ]

RecoveryRecord == [ step: {"no", "read", "adopt", "settle"},
                    studio: Studios \cup {NoStudio} ]
NoRecovery == [ step |-> "no", studio |-> NoStudio ]

(* "other": the worker shows the job in a state the Hub has no name for, and *)
(* without an error.                                                        *)
JobStates == {"none", "running", "done", "error", "other", "gone"}

TypeOK ==
    /\ batch \in [Batches -> BatchRecord]
    /\ item \in [Items -> ItemRecord]
    /\ row \in [Batches -> RowRecord]
    /\ rowItem \in [Items -> ItemRecord]
    /\ lease \in [Batches -> {"none", "live", "expired"}]
    /\ busy \subseteq Studios /\ maint \subseteq Studios
    /\ ext \subseteq Machines
    /\ pass \in PassRecord
    /\ task \in [Items -> TaskRecord]
    /\ job \in [Items -> [Studios -> JobStates]]
    /\ cancelling \subseteq Batches
    /\ recovery \in [Items -> RecoveryRecord]
    /\ restarts \in Nat

ItemsOf(b) == {i \in Items : BatchOf[i] = b}
IsVoice(i) == BatchOf[i] \in Voice
Terminal(b, it) == \A i \in ItemsOf(b) : it[i].state \in TerminalStates
Live(i) == task[i].pc \in BusyPCs
BusyMachines == ext \cup {MachineOf[s] : s \in busy}
Pred(n) == IF n = 0 THEN 0 ELSE n - 1

-----------------------------------------------------------------------------
(* ledger.save_batch and the helpers every handler calls.                   *)

SaveRow(b, bt) ==
    row' = [row EXCEPT ![b] = [kept |-> TRUE, cancelled |-> bt[b].cancelled,
                               notified |-> bt[b].notified]]
SaveItems(b, it) ==
    rowItem' = [i \in Items |-> IF BatchOf[i] = b THEN it[i] ELSE rowItem[i]]
Save(b, bt, it) == SaveRow(b, bt) /\ SaveItems(b, it)
Unsaved == UNCHANGED << row, rowItem >>

(* _expire_genstudio_batch acts only while some item is unfinished. *)
Expires(b) ==
    /\ lease[b] = "expired"
    /\ \E i \in ItemsOf(b) : item[i].state \in {"queued", "running"}
ExpiredBatch(b) == [batch EXCEPT ![b].cancelled = TRUE]
(* Mutant of ExpiredItems: finished items are cancelled with the others. *)
ExpiredItemsAll(b, it) ==
    [i \in Items |-> IF BatchOf[i] = b THEN [it[i] EXCEPT !.state = "cancelled"] ELSE it[i]]
ExpiredItems(b, it) ==
    [i \in Items |->
        IF BatchOf[i] = b /\ it[i].state \in {"queued", "running"}
        THEN [it[i] EXCEPT !.state = "cancelled"] ELSE it[i]]

(* _maybe_finish: save, and tell the client once when nothing is left.      *)
Finished(b, bt, it) ==
    IF Terminal(b, it) THEN [bt EXCEPT ![b].notified = TRUE] ELSE bt
MaybeFinish(b, bt, it) ==
    /\ batch' = Finished(b, bt, it)
    /\ item' = it
    /\ Save(b, Finished(b, bt, it), it)

(* A first report of started_at (items `it' against `item') is written      *)
(* through at once, before the handler changes anything else.               *)
Seen(i, reported) == [item EXCEPT ![i].started = @ \/ reported]
WriteThrough(i, it) ==
    IF it[i].started /\ ~item[i].started
    THEN Save(BatchOf[i], batch, [item EXCEPT ![i].started = TRUE])
    ELSE Unsaved

(* Mutant of Release: an early return for cancelled batches. *)
ReleaseUnlessCancelled(i) ==
    busy' = IF batch[BatchOf[i]].cancelled THEN busy ELSE busy \ {task[i].studio}
Release(i) == busy' = busy \ {task[i].studio}

(* The `finally' of _run_item: free the Studio, then the item webhook (an   *)
(* await) if the item just became terminal, then _maybe_finish.             *)
Leave(i, bt, it) ==
    /\ Release(i)
    /\ \/ /\ it[i].state \in TerminalStates /\ ~it[i].notified
          /\ task' = [task EXCEPT ![i] = [NoTask EXCEPT !.pc = "hook"]]
          /\ item' = [it EXCEPT ![i].notified = TRUE]
          /\ batch' = bt
          /\ WriteThrough(i, it)
       \/ /\ it[i].state \notin TerminalStates \/ it[i].notified
          /\ task' = [task EXCEPT ![i] = NoTask]
          /\ MaybeFinish(BatchOf[i], bt, it)
LeaveAs(i, it, s) == Leave(i, batch, [it EXCEPT ![i].state = s])

(* Go to the next await; ExpireAndWait first fences a batch whose lease ran *)
(* out.                                                                     *)
Wait(i, pc, it) ==
    /\ task' = [task EXCEPT ![i].pc = pc]
    /\ item' = it
    /\ WriteThrough(i, it)
    /\ UNCHANGED << batch, busy >>
ExpireAndWait(i, pc, it) ==
    /\ task' = [task EXCEPT ![i].pc = pc]
    /\ WriteThrough(i, it)
    /\ IF Expires(BatchOf[i])
       THEN /\ batch' = ExpiredBatch(BatchOf[i])
            /\ item' = ExpiredItems(BatchOf[i], it)
       ELSE batch' = batch /\ item' = it
    /\ UNCHANGED busy
Revoked(b) == Expires(b) \/ batch[b].cancelled

-----------------------------------------------------------------------------
Init ==
    /\ batch = [b \in Batches |-> [at |-> "new", cancelled |-> FALSE, notified |-> FALSE]]
    /\ item = [i \in Items |-> NewItem]
    /\ row = [b \in Batches |-> NoRow]
    /\ rowItem = [i \in Items |-> NewItem]
    /\ lease = [b \in Batches |-> "none"]
    /\ busy = {} /\ ext = {} /\ maint = {}
    /\ pass = NoPass
    /\ task = [i \in Items |-> NoTask]
    /\ job = [i \in Items |-> [s \in Studios |-> "none"]]
    /\ cancelling = {}
    /\ recovery = [i \in Items |-> NoRecovery]
    /\ restarts = 0

(* submit_batch: list the batch, all its items queued, and save it.         *)
SubmitBatch(b) ==
    /\ batch[b].at = "new"
    /\ batch' = [batch EXCEPT ![b].at = "listed"]
    /\ lease' = [lease EXCEPT ![b] = IF b \in Leased THEN "live" ELSE "none"]
    /\ Save(b, batch', item)
    /\ UNCHANGED << item, busy, ext, maint, pass, task, job,
                    cancelling, recovery, restarts >>

(* GenStudio stops renewing: the deadline passes. *)
LeaseExpires(b) ==
    /\ lease[b] = "live"
    /\ lease' = [lease EXCEPT ![b] = "expired"]
    /\ UNCHANGED << batch, item, row, rowItem, busy, ext, maint,
                    pass, task, job, cancelling, recovery, restarts >>

-----------------------------------------------------------------------------
(* The scheduler, _dispatch_loop.                                           *)

EligibleStudios(b) ==
    {s \in Serves[b] : s \notin busy /\ s \notin maint
                       /\ MachineOf[s] \notin BusyMachines}
QueuedItems(b) == {i \in ItemsOf(b) : item[i].state = "queued"}

(* Pick a Studio and an item, and await the Studio's catalog and memory.    *)
Offer(b, queued, eligible) ==
    \E s \in eligible, i \in queued :
        pass' = [batch |-> b, queued |-> queued, eligible |-> eligible \ {s},
                 studio |-> s, item |-> i]
OfferNext(b, queued, eligible) ==
    Offer(b, queued, eligible) \/ pass' = NoPass

(* A queued batch whose lease expired is fenced and saved. *)
DispatchExpire(b) ==
    /\ pass = NoPass
    /\ batch[b].at = "listed" /\ QueuedItems(b) # {} /\ Expires(b)
    /\ batch' = ExpiredBatch(b)
    /\ item' = ExpiredItems(b, item)
    /\ Save(b, batch', item')
    /\ UNCHANGED << lease, busy, ext, maint, pass, task, job,
                    cancelling, recovery, restarts >>

(* The items whose retry delay is over are some of the queued ones. *)
DispatchLook(b) ==
    /\ pass = NoPass
    /\ batch[b].at = "listed" /\ ~Expires(b) /\ ~batch[b].cancelled
    /\ \E due \in SUBSET QueuedItems(b) : Offer(b, due, EligibleStudios(b))
    /\ UNCHANGED << batch, item, row, rowItem, lease, busy, ext, maint,
                    task, job, cancelling, recovery, restarts >>

(* After the awaits only the machine and the peer are checked again.        *)
(* Mutant of MachineFree: the Studio alone is checked again. *)
StudioFree(s) == s \notin busy
MachineFree(s) == MachineOf[s] \notin BusyMachines
(* Mutant of Rest: the assigned item stays in the snapshot. *)
RestUnpopped(queued, i) == queued
Rest(queued, i) == queued \ {i}

DispatchAssign ==
    /\ pass # NoPass
    /\ MachineFree(pass.studio)
    /\ item' = [item EXCEPT ![pass.item].state = "running",
                            ![pass.item].studio = pass.studio,
                            ![pass.item].known = FALSE,
                            ![pass.item].tries = @ + 1]
    /\ busy' = busy \cup {pass.studio}
    /\ task' = [task EXCEPT ![pass.item] = [NoTask EXCEPT !.pc = "start",
                                                          !.studio = pass.studio]]
    /\ OfferNext(pass.batch, Rest(pass.queued, pass.item), pass.eligible)
    /\ UNCHANGED << batch, row, rowItem, lease, ext, maint, job,
                    cancelling, recovery, restarts >>

(* Not in the catalog, memory pressure, or the machine was taken meanwhile. *)
DispatchPass ==
    /\ pass # NoPass
    /\ OfferNext(pass.batch, pass.queued, pass.eligible)
    /\ UNCHANGED << batch, item, row, rowItem, lease, busy, ext, maint,
                    task, job, cancelling, recovery, restarts >>

-----------------------------------------------------------------------------
(* _run_item: the request.                                                  *)

(* requeue_if_peer_changed, an unusable reference, or the POST.             *)
SendRequest(i) ==
    \/ Leave(i, batch, [item EXCEPT ![i].state = "queued", ![i].studio = NoStudio,
                                    ![i].known = FALSE, ![i].tries = Pred(@)])
    \/ LeaveAs(i, item, "error")
    \/ Wait(i, "post", item)

(* Mutant of TaskStart: neither ownership nor the lease is looked at. *)
TaskStartBlind(i) == task[i].pc = "start" /\ SendRequest(i) /\ UNCHANGED taskFrame
TaskStart(i) ==
    /\ task[i].pc = "start"
    /\ \/ item[i].owned /\ Leave(i, batch, item)
       \/ /\ ~item[i].owned /\ Expires(BatchOf[i])
          /\ Leave(i, ExpiredBatch(BatchOf[i]), ExpiredItems(BatchOf[i], item))
       \/ /\ ~item[i].owned /\ ~Expires(BatchOf[i])
          /\ \/ SendRequest(i)
             \/ ~IsVoice(i) /\ Wait(i, "prep", item)
    /\ UNCHANGED taskFrame

TaskPrepared(i) ==
    /\ task[i].pc = "prep"
    /\ SendRequest(i)
    /\ UNCHANGED taskFrame

(* The worker's answer carries its job id; a revoked batch is stopped.      *)
TaskAccepted(i) ==
    /\ task[i].pc = "post" /\ task[i].sent
    /\ \E reported \in Reports :
          ExpireAndWait(i, IF Revoked(BatchOf[i]) THEN "stop" ELSE "poll",
                        [Seen(i, reported) EXCEPT ![i].known = TRUE])
    /\ UNCHANGED taskFrame

-----------------------------------------------------------------------------
(* _run_item: what an exception becomes once the original job is reconciled *)
(* or cannot be.  "transport" and "timeout" read as a broken connection,    *)
(* "retry" and "terminal" as a failed try, "capacity" as memory pressure.   *)

Connection(err) == err \in {"transport", "timeout"}
WorkerErrors == {"terminal", "capacity", "timeout"}   \* worker_terminal

Classify(i, it, err) ==
    LET open == ~batch[BatchOf[i]].cancelled
        stranded == IsVoice(i) /\ it[i].known /\ Connection(err)
        again == [it EXCEPT ![i].state = "queued"]
        infra == it[i].infra + 1
    IN
    \/ /\ stranded       \* _mark_voice_uncertain
       /\ Leave(i, batch, [it EXCEPT ![i].state = "uncertain", ![i].owned = TRUE])
    \/ /\ ~stranded /\ open /\ err = "capacity"
       /\ Wait(i, "capacity", it)
    \/ /\ ~stranded /\ open /\ Connection(err)
       /\ \/ infra < MaxInfra /\ Leave(i, batch, [again EXCEPT ![i].infra = infra])
          \/ Leave(i, batch, [it EXCEPT ![i].state = "error", ![i].infra = infra])
    \/ /\ ~stranded /\ open /\ err \in {"retry", "terminal"} /\ it[i].tries < MaxTries
       /\ Leave(i, batch, again)
    \/ /\ ~stranded
       /\ \/ ~open \/ err = "fatal"
          \/ err \in {"retry", "terminal"} /\ it[i].tries >= MaxTries
       /\ LeaveAs(i, it, "error")
ClassifyUnlessOwned(i, it, err) ==
    IF item[i].owned THEN Leave(i, batch, it) ELSE Classify(i, it, err)

(* The top of _recover_worker_job's loop. *)
Reconcile(i, err) ==
    /\ task' = [task EXCEPT ![i].pc = IF Expires(BatchOf[i]) THEN "recStop" ELSE "recGet",
                            ![i].err = err]
    /\ IF Expires(BatchOf[i])
       THEN /\ batch' = ExpiredBatch(BatchOf[i])
            /\ item' = ExpiredItems(BatchOf[i], item)
       ELSE UNCHANGED << batch, item >>
    /\ UNCHANGED busy /\ Unsaved

Except(i, it, err) ==
    \/ item[i].owned /\ Leave(i, batch, it)
    \/ /\ ~item[i].owned /\ batch[BatchOf[i]].cancelled
       /\ LeaveAs(i, it, "cancelled")
    \/ /\ ~item[i].owned /\ ~batch[BatchOf[i]].cancelled
       /\ IF item[i].known /\ err \notin WorkerErrors
          THEN Reconcile(i, err) ELSE Classify(i, it, err)

(* The POST or its answer is lost or garbled, or the worker refuses it.  A  *)
(* reference the worker cannot prepare is an error at once.                 *)
TaskRefused(i) ==
    /\ task[i].pc = "post"
    /\ \/ \E err \in {"transport", "retry"} : Except(i, item, err)
       \/ ~task[i].sent /\ \E err \in {"fatal", "capacity"} : Except(i, item, err)
       \/ ~task[i].sent /\ IsVoice(i) /\ LeaveAs(i, item, "error")
    /\ UNCHANGED taskFrame

-----------------------------------------------------------------------------
(* _run_item: polling, and _record_worker_success.                          *)

TaskPoll(i) ==
    /\ task[i].pc = "poll"
    /\ IF item[i].owned THEN Leave(i, batch, item)
       ELSE ExpireAndWait(i, IF Revoked(BatchOf[i]) THEN "stop" ELSE "get", item)
    /\ UNCHANGED taskFrame

(* A finished job is adopted unless the lease just ran out.  Voice awaits   *)
(* the artifact metadata before it publishes "done".                        *)
Succeed(i, it) ==
    IF Expires(BatchOf[i]) THEN ExpireAndWait(i, "stop", it)
    ELSE IF IsVoice(i) THEN Wait(i, "adopt", it)
    ELSE LeaveAs(i, it, "done")

(* The job still runs, or finished, in an answer recovery does not own.  The *)
(* poll takes every state it has no name for as finished; the recovery loop *)
(* only "done".                                                             *)
(* Mutant of Answer: a running job counts as finished. *)
AnswerEager(i, sleep) ==
    ~item[i].owned /\ job[i][task[i].studio] \in {"running", "done"} /\ Succeed(i, item)
Answer(i, sleep) ==
    LET status == job[i][task[i].studio] IN
    /\ ~item[i].owned
    /\ \E reported \in Reports :
          \/ status = "running" /\ Wait(i, sleep, Seen(i, reported))
          \/ /\ status = "done" \/ (status = "other" /\ sleep = "poll")
             /\ Succeed(i, Seen(i, reported))
WorkerFailed(i) == ~item[i].owned /\ job[i][task[i].studio] = "error"

TaskStatus(i) ==
    /\ task[i].pc = "get"
    /\ \/ \E err \in {"transport", "retry"} : Except(i, item, err)
       \/ job[i][task[i].studio] = "gone" /\ Except(i, item, "fatal")
       \/ job[i][task[i].studio] # "gone" /\ item[i].owned /\ Leave(i, batch, item)
       \/ Answer(i, "poll")
       \/ /\ WorkerFailed(i)
          /\ \E err \in WorkerErrors, reported \in Reports : Except(i, Seen(i, reported), err)
    /\ UNCHANGED taskFrame

TaskAdopt(i) ==
    /\ task[i].pc = "adopt"
    /\ IF item[i].owned THEN Leave(i, batch, item) ELSE LeaveAs(i, item, "done")
    /\ UNCHANGED taskFrame

(* Mutant of TaskStopped: the item keeps its state. *)
TaskStoppedSilently(i) == task[i].pc = "stop" /\ Leave(i, batch, item) /\ UNCHANGED taskFrame
TaskStopped(i) ==
    /\ task[i].pc = "stop"
    /\ LeaveAs(i, item, "cancelled")
    /\ UNCHANGED taskFrame

(* One answer inside _recover_worker_job: no connection, an HTTP error, or  *)
(* the status; a worker error is classified afresh.                         *)
RecoverStatus(i) ==
    /\ task[i].pc = "recGet"
    /\ \/ Wait(i, "recSleep", item)
       \/ ClassifyUnlessOwned(i, item, task[i].err)
       \/ Answer(i, "recSleep")
       \/ /\ WorkerFailed(i)
          /\ \E err \in WorkerErrors, reported \in Reports : Classify(i, Seen(i, reported), err)
    /\ UNCHANGED taskFrame

(* The recovery window ended, or an expired lease's stop signal went out.   *)
RecoverGiveUp(i) ==
    /\ task[i].pc \in {"recSleep", "recStop"}
    /\ ClassifyUnlessOwned(i, item, task[i].err)
    /\ UNCHANGED taskFrame

RecoverAgain(i) ==
    /\ task[i].pc = "recSleep"
    /\ Reconcile(i, task[i].err)
    /\ UNCHANGED taskFrame

(* release_idle_siblings returned: the item waits for capacity.             *)
TaskCapacity(i) ==
    /\ task[i].pc = "capacity"
    /\ Leave(i, batch, [item EXCEPT ![i].state = "queued", ![i].tries = Pred(@)])
    /\ UNCHANGED taskFrame

(* The item webhook returned. *)
TaskNotified(i) ==
    /\ task[i].pc = "hook"
    /\ task' = [task EXCEPT ![i] = NoTask]
    /\ MaybeFinish(BatchOf[i], batch, item)
    /\ UNCHANGED << busy, taskFrame >>

-----------------------------------------------------------------------------
(* The Studio worker (external): a job per item and Studio.  A Voice worker *)
(* recognises the client_request_id of a job it still has.                  *)

WorkerAccepts(i) ==
    /\ task[i].pc = "post" /\ ~task[i].sent
    /\ task' = [task EXCEPT ![i].sent = TRUE]
    /\ job' = [job EXCEPT ![i][task[i].studio] =
                 IF IsVoice(i) /\ @ \in {"running", "done", "other"} THEN @ ELSE "running"]
    /\ UNCHANGED << batch, item, row, rowItem, lease, busy, ext, maint,
                    pass, cancelling, recovery, restarts >>

(* Nobody sees a job change once its item moved on: only the Studio of the  *)
(* item's last attempt, or of its recovery, is watched.                     *)
Watched(i, s) ==
    \/ item[i].studio = s /\ (Live(i) \/ item[i].state = "uncertain")
    \/ recovery[i].studio = s

WorkerEnds(i, s) ==
    /\ job[i][s] = "running" /\ Watched(i, s)
    /\ \E end \in Ends : job' = [job EXCEPT ![i][s] = end]
    /\ UNCHANGED << batch, item, row, rowItem, lease, busy, ext, maint,
                    pass, task, cancelling, recovery, restarts >>

WorkerForgets(i, s) ==
    /\ job[i][s] \in {"running", "done", "error", "other"} /\ Watched(i, s)
    /\ job' = [job EXCEPT ![i][s] = "gone"]
    /\ UNCHANGED << batch, item, row, rowItem, lease, busy, ext, maint,
                    pass, task, cancelling, recovery, restarts >>

-----------------------------------------------------------------------------
(* Operator requests.                                                       *)

(* cancel_batch up to its worker signals ... *)
CancelBatch(b) ==
    /\ batch[b].at = "listed" /\ b \notin cancelling
    /\ batch' = [batch EXCEPT ![b].cancelled = TRUE]
    /\ item' = [i \in Items |-> IF i \in QueuedItems(b)
                                THEN [item[i] EXCEPT !.state = "cancelled"] ELSE item[i]]
    /\ Save(b, batch', item')
    /\ cancelling' = cancelling \cup {b}
    /\ UNCHANGED << lease, busy, ext, maint, pass, task, job,
                    recovery, restarts >>

(* ... and from there: the webhooks of its cancelled items, taken together, *)
(* and _maybe_finish.                                                       *)
CancelReturns(b) ==
    /\ b \in cancelling
    /\ MaybeFinish(b, batch,
          [i \in Items |-> IF BatchOf[i] = b /\ item[i].state = "cancelled"
                           THEN [item[i] EXCEPT !.notified = TRUE] ELSE item[i]])
    /\ cancelling' = cancelling \ {b}
    /\ UNCHANGED << lease, busy, ext, maint, pass, task, job,
                    recovery, restarts >>

(* clear_finished_batches: history in memory or in the ledger, if terminal. *)
ClearFinished(b) ==
    /\ batch[b].at = "listed" \/ row[b].kept
    /\ Terminal(b, item)
    /\ batch' = [batch EXCEPT ![b].at = "gone"]
    /\ row' = [row EXCEPT ![b] = NoRow]
    /\ rowItem' = [i \in Items |-> IF BatchOf[i] = b THEN NewItem ELSE rowItem[i]]
    /\ UNCHANGED << item, lease, busy, ext, maint, pass, task, job,
                    cancelling, recovery, restarts >>

(* set_maintenance: fleet updates, site drains and Voice recovery itself    *)
(* withdraw a Studio and give it back.                                      *)
Drain(s) ==
    /\ s \in Serviced /\ s \notin maint
    /\ maint' = maint \cup {s}
    /\ UNCHANGED << batch, item, row, rowItem, lease, busy, ext,
                    pass, task, job, cancelling, recovery, restarts >>
Resume(s) ==
    /\ s \in maint
    /\ maint' = maint \ {s}
    /\ UNCHANGED << batch, item, row, rowItem, lease, busy, ext,
                    pass, task, job, cancelling, recovery, restarts >>

(* acquire_external_machine, release_external_machine.  The former also     *)
(* refuses while a render waits, which only makes it rarer.                 *)
AcquireExternal(m) ==
    /\ m \in External /\ m \notin BusyMachines
    /\ ext' = ext \cup {m}
    /\ UNCHANGED << batch, item, row, rowItem, lease, busy, maint,
                    pass, task, job, cancelling, recovery, restarts >>
ReleaseExternal(m) ==
    /\ m \in ext
    /\ ext' = ext \ {m}
    /\ UNCHANGED << batch, item, row, rowItem, lease, busy, maint,
                    pass, task, job, cancelling, recovery, restarts >>

-----------------------------------------------------------------------------
(* Voice recovery (main.py), by the operator or the automatic loop.         *)

Owned(i, s) == [item EXCEPT ![i].state = s, ![i].owned = TRUE]
Relisted(b) == [batch EXCEPT ![b].at = "listed"]    \* _save_voice_recovery
Recovers(i, step) ==
    recovery' = [recovery EXCEPT ![i] = IF step = "no" THEN NoRecovery
                                        ELSE [step |-> step, studio |-> item[i].studio]]
recoveryFrame == << lease, busy, ext, maint, pass, task, job, cancelling, restarts >>

(* The operator claims an active or uncertain item: its poller steps aside. *)
(* Without a worker job id there is nothing to read.                        *)
RecoveryClaims(i) ==
    /\ IsVoice(i) /\ batch[BatchOf[i]].at = "listed" /\ recovery[i].step = "no"
    /\ item[i].state \in {"running", "uncertain"}
    /\ item' = Owned(i, "uncertain")
    /\ Save(BatchOf[i], batch, item') \/ (item' = item /\ item[i].known /\ Unsaved)
    /\ Recovers(i, IF item[i].known THEN "read" ELSE "no")
    /\ UNCHANGED batch /\ UNCHANGED recoveryFrame

(* The automatic loop looks at uncertain items with a known worker job.     *)
RecoveryScans(i) ==
    /\ batch[BatchOf[i]].at = "listed" /\ recovery[i].step = "no"
    /\ item[i].state = "uncertain" /\ item[i].known
    /\ Recovers(i, "read")
    /\ UNCHANGED << batch, item >> /\ Unsaved /\ UNCHANGED recoveryFrame

(* _reconcile_voice_recovery_job: an answer that is not final is recorded,  *)
(* and perhaps asked for again; a failure is taken over; a result is        *)
(* adopted for the very job id the item holds, unless the lease ran out.    *)
RecoveryReads(i) ==
    LET b == BatchOf[i]
        status == job[i][recovery[i].studio]
        stop == [recovery EXCEPT ![i] = NoRecovery]
    IN
    /\ recovery[i].step = "read"
    /\ \/ /\ recovery' \in {recovery, stop}
          /\ UNCHANGED << batch, item >>
          /\ Unsaved \/ Save(b, batch, item)
       \/ /\ status = "done" /\ ~Expires(b) /\ item[i].known
          /\ recovery' = [recovery EXCEPT ![i].step = "adopt"]
          /\ UNCHANGED << batch, item >> /\ Unsaved
       \/ /\ status = "done" /\ Expires(b)
          /\ recovery' = [recovery EXCEPT ![i].step = "settle"]
          /\ batch' = ExpiredBatch(b) /\ item' = ExpiredItems(b, item) /\ Unsaved
       \/ /\ status = "error"
          /\ recovery' = stop
          /\ \E s \in {"error", "cancelled"} : MaybeFinish(b, Relisted(b), Owned(i, s))
    /\ UNCHANGED recoveryFrame

(* The artifact metadata arrived, or the expired job was told to stop.      *)
RecoveryAdopts(i) ==
    /\ recovery[i].step \in {"adopt", "settle"}
    /\ Recovers(i, "no")
    /\ MaybeFinish(BatchOf[i], Relisted(BatchOf[i]),
          IF recovery[i].step = "adopt" THEN Owned(i, "done") ELSE Owned(i, item[i].state))
    /\ UNCHANGED recoveryFrame

-----------------------------------------------------------------------------
(* A crash, and the start that follows it: memory is lost, restore_batches  *)
(* reads the unfinished rows.                                               *)

(* Mutant of Unfinished: only queued items are looked for. *)
UnfinishedQueued(b) == row[b].kept /\ \E i \in ItemsOf(b) : rowItem[i].state = "queued"
Unfinished(b) == row[b].kept /\ ~Terminal(b, rowItem)
RestoredFenced(b) ==
    /\ lease[b] = "expired"
    /\ \E i \in ItemsOf(b) : rowItem[i].state \in {"queued", "running"}
(* Mutant of RestoredItem: an unfinished batch starts again. *)
RestoredItemAnew(i) == IF Unfinished(BatchOf[i]) THEN NewItem ELSE rowItem[i]
RestoredItem(i) ==
    LET it == rowItem[i] IN
    IF ~Unfinished(BatchOf[i]) THEN it
    ELSE IF RestoredFenced(BatchOf[i])
         THEN ExpiredItems(BatchOf[i], rowItem)[i]
    ELSE IF it.state # "running" THEN it
    ELSE IF IsVoice(i) THEN [it EXCEPT !.state = "uncertain", !.owned = TRUE]
    ELSE [it EXCEPT !.state = "queued", !.studio = NoStudio, !.known = FALSE]
RestoredBatch(b) ==
    [ at |-> IF batch[b].at = "new" THEN "new" ELSE IF Unfinished(b) THEN "listed" ELSE "gone",
      cancelled |-> row[b].cancelled \/ (Unfinished(b) /\ RestoredFenced(b)),
      notified |-> row[b].notified ]

Restart ==
    /\ restarts < MaxRestarts
    /\ restarts' = restarts + 1
    /\ item' = [i \in Items |-> RestoredItem(i)]
    /\ batch' = [b \in Batches |-> RestoredBatch(b)]
    /\ rowItem' = item'
    /\ row' = [b \in Batches |-> [row[b] EXCEPT !.cancelled = batch'[b].cancelled]]
    /\ busy' = {} /\ ext' = {} /\ maint' = {}
    /\ pass' = NoPass
    /\ task' = [i \in Items |-> NoTask]
    /\ cancelling' = {}
    /\ recovery' = [i \in Items |-> NoRecovery]
    /\ UNCHANGED << lease, job >>

-----------------------------------------------------------------------------
TaskStep(i) ==
    \/ TaskStart(i) \/ TaskPrepared(i) \/ TaskAccepted(i) \/ TaskRefused(i)
    \/ TaskPoll(i) \/ TaskStatus(i) \/ TaskAdopt(i) \/ TaskStopped(i)
    \/ RecoverStatus(i) \/ RecoverGiveUp(i) \/ RecoverAgain(i)
    \/ TaskCapacity(i) \/ TaskNotified(i)
Schedule ==
    \/ \E b \in Batches : DispatchExpire(b) \/ DispatchLook(b)
    \/ DispatchAssign \/ DispatchPass
Worker ==
    \E i \in Items : \/ WorkerAccepts(i)
                     \/ \E s \in Studios : WorkerEnds(i, s) \/ WorkerForgets(i, s)
Operator ==
    \/ \E b \in Batches : SubmitBatch(b) \/ LeaseExpires(b) \/ CancelBatch(b)
                          \/ CancelReturns(b) \/ ClearFinished(b)
    \/ \E s \in Studios : Drain(s) \/ Resume(s)
    \/ \E m \in Machines : AcquireExternal(m) \/ ReleaseExternal(m)
Recovery ==
    \E i \in Items : RecoveryClaims(i) \/ RecoveryScans(i) \/ RecoveryReads(i)
                     \/ RecoveryAdopts(i)

Next == \/ Schedule \/ \E i \in Items : TaskStep(i)
        \/ Worker \/ Operator \/ Recovery \/ Restart

Spec == Init /\ [][Next]_vars

-----------------------------------------------------------------------------
(* Fairness: the event loop runs every coroutine that can continue, a job   *)
(* of a worker ends, and the recovery window is a deadline: a task that     *)
(* keeps asking about a lost job does not ask for ever.                     *)
Fairness ==
    \A i \in Items : /\ WF_vars(TaskStep(i))
                     /\ SF_vars(RecoverGiveUp(i))
                     /\ \A s \in Studios : WF_vars(WorkerEnds(i, s))
FairSpec == Spec /\ Fairness

-----------------------------------------------------------------------------
(* Two models never load at once on one physical Mac, whichever queue they  *)
(* come from: broker items and the Chat, transcription and maintenance work *)
(* that leases the machine (_busy_machines, acquire_external_machine).      *)
MachineExclusive ==
    /\ \A s, t \in busy : MachineOf[s] = MachineOf[t] => s = t
    /\ \A s \in busy : MachineOf[s] \notin ext

(* A Studio is leased exactly while one task runs an item on it: no error   *)
(* path of _run_item leaks or doubles the lease.                            *)
BusyMatchesTasks ==
    /\ busy = {task[i].studio : i \in {k \in Items : Live(k)}}
    /\ \A i, k \in Items : Live(i) /\ Live(k) /\ task[i].studio = task[k].studio => i = k

(* The scheduler never holds, across its awaits, an item some task still    *)
(* runs: dispatching it would run one item twice.                           *)
OneAttemptAtATime == pass # NoPass => ~Live(pass.item)

(* The two facts this rests on: the scheduler's snapshot, and every queued   *)
(* item, belong to no task.                                                  *)
SnapshotIsIdle ==
    /\ \A i \in pass.queued : ~Live(i)
    /\ pass # NoPass => pass.item \in pass.queued /\ pass.studio \in Studios
QueuedIsIdle == \A i \in Items : item[i].state = "queued" => ~Live(i)

(* An item shown as running has a task that will settle it.  A Voice item   *)
(* may have been taken from its task by recovery.                           *)
RunningHasTask ==
    \A i \in Items : ~IsVoice(i) /\ item[i].state = "running" => Live(i)

(* A finished item is never requeued, failed or cancelled by a late answer, *)
(* a cancellation or an expired lease.  A crash takes back what no row has  *)
(* (DurableResult), and for a Voice item a poller that awaits its stop      *)
(* signal may cancel what recovery has settled.                             *)
DoneIsFinal ==
    [][restarts' = restarts =>
         \A i \in Items : ~IsVoice(i) /\ item[i].state = "done"
            => item'[i].state = "done"]_vars

(* An item becomes done only for a job its worker finished, by every path   *)
(* that may adopt one: the poll, the recovery loop after a lost answer, the *)
(* Voice recovery.  The poll, and no other path, takes a state it has no    *)
(* name for as finished: what such a job did, the Hub does not know.        *)
AdoptsFinishedJob ==
    [][\A i \in Items : item[i].state # "done" /\ item'[i].state = "done"
          => \/ job[i][item[i].studio] \in {"done", "gone"}
             \/ job[i][item[i].studio] = "other" /\ task[i].pc \in {"get", "adopt"}]_vars

(* A result the ledger holds is not lost while its batch row is kept, even  *)
(* by a crash.  Of Voice the same is said as above.                         *)
DurableResult ==
    [][\A i \in Items : ~IsVoice(i) /\ rowItem[i].state = "done" /\ row'[BatchOf[i]].kept
          => rowItem'[i].state = "done"]_vars

(* Accepted work survives a crash at any moment: while a batch has          *)
(* something left to do, restore_batches would find it again.  Not so of a  *)
(* Voice item that recovery settles while its task waits for capacity: it   *)
(* is dispatched again although its row is finished.                        *)
WorkSurvivesRestart ==
    \A b \in Batches \ Voice :
        batch[b].at = "listed" /\ ~batch[b].cancelled /\ ~Terminal(b, item)
          => Unfinished(b)

(* An item recovery owns is never sent to a worker again. *)
OwnedNeverResent ==
    [][\A i \in Items : item[i].owned /\ task'[i].pc = "post" => task[i].pc = "post"]_vars

(* Every Studio lease is given back, whatever the worker, the connection,   *)
(* the client or the operator does.                                         *)
LeaseReturned == \A s \in Studios : s \in busy ~> s \notin busy

-----------------------------------------------------------------------------
(* README.md on this code, which a run refutes.                             *)

(* README.md:482 "accepted Voice items become durable `uncertain` records   *)
(* and must be reconciled": a Voice item whose worker job id the Hub holds  *)
(* is not queued again while that job runs or after it finished.            *)
VoiceNeverReplayed ==
    [][\A i \in Items :
         IsVoice(i) /\ item[i].known /\ item[i].state = "running"
           /\ item'[i].state = "queued"
           => job[i][item[i].studio] \in {"error", "gone"}]_vars
=============================================================================
