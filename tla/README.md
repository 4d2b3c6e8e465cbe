# A verification project for Studio Hub

Studio Hub (`src/`) is the site-local scheduler between GenStudio, which issues
work, and the Studio workers of a small fleet of Macs, which do it. It is one
asyncio process (FastAPI, `src/app/backend/*.py`) that runs as a controller or
as an agent on each Mac, with SQLite (`hub.db`) and a few JSON files as its only
authoritative store.

This directory holds TLA+ models of its core, the TLC runs that check them and
the proofs TLAPS checks. Part 1 is the inventory, part 2 what is modelled and
how it corresponds to the code, part 3 the runs, part 4 the proofs, part 5 what
the models show the code not to do, part 6 what is not modelled, part 7 the
plan. File names without a path are in `src/app/backend/`.

## 1. Inventory

| component | state | operations | hard behaviour | what makes it correct |
|---|---|---|---|---|
| Generation broker (`broker.py`) | `batches`, `_busy`, `_maintenance`, `_external_machine_leases`, breakers, reservations | submit, dispatch, run item, reconcile a worker job, cancel, clear, restore | coroutines interleave at every await; answers get lost; leases expire mid-flight; crash | one heavy job per Mac; one task per item; every Studio given back; results final and durable |
| Ledger (`ledger.py`) | `batches`, `batch_requests`, `assets` tables | save, load, delete, repair | write-through from many callers; a stale save | unfinished work is found after a restart |
| Execution identity (`execution_identity.py`) | three fence tables | `prepare`, `bind_local_batch`, `renew_lease` | retries and reassignments out of order; deadline races; separate commits | newest token wins; no revival; one batch per assignment |
| Voice recovery (`main.py`, `automatic_recovery.py`) | in-flight set, `recovery` record in the item | operator claim, automatic scan, exact-id read, service restart | races the poller and the restart for one item | accepted Voice work is never sent twice |
| Transcription and Chat queues (`transcription_jobs.py`, `chat_jobs.py`) | own batches, lane turn token, machine lease | submit, dispatch, run, cancel, retry, restore | share Macs with the broker; task cancellation | one lane per Mac; one ask per pack; results kept |
| Enrollment repair (`enrollment_repair*.py`) | repair rows, the Agents' journals and settings files | batch, dispatch, redeem, apply, status, park, adopt | both sides restart; requests are lost; an owner edits the same file | an identity is written only under a live claim; the outcome shown is what happened |
| Managed releases (`release_reconciliation.py`) | the Controller's and the Agents' durable files, runs, leases | publish, activate, admit, poll, supplement, withdraw | crashes between transactions, the Hub's own update in the middle of a run | rows called current run the release; outcomes final; files readable |
| Hub updater and site maintenance (`auto_update.py`, `fleet_ops.py`, `fleet_auto_updates.py`, `main.py`'s `_SiteDrain`) | `status.json`, schedule, checkout, maintenance set, jobs | trigger, scheduled helper, rollback, drain, rolling update | the helper kills the process that started it; kills between stop, merge, restart | verdicts true; an interrupted operation is picked up; Studios come back |
| Shared voices (`shared_voices.py`) | voice directories, `sync.json`, tombstones, tasks | create, edit, sync, delete, reconcile | passes, edits and deletions overlap; Macs come and go | the last edit arrives; what is reported deleted is gone |
| Fleet credentials (`peers.py`, `enrollment.py`, `auth.py`) | fleet token, peer cache and quarantine, joins | refresh, invalidate, save and verify, join, forget | answers to an old token; partial saves | work only on answers to the present token; quarantine holds and ends |
| Registry and monitor | health, generations | poll | stale reads | a free choice where the models meet it |
| Memory admission, hardware profiles, workload policy | settings | pure decisions | stale telemetry | conservative decisions |
| Storage, broadcast, control plane, alerts, activity, capabilities, qualification | files, evidence | transfer, retention, reports | best-effort delivery | never influence dispatch |
| SSD kit and tools (`src/ssd_bootstrap`, `src/tools`) | files on a Mac | migrate, install, repair | interrupted moves | journal and rollback |

How they interact: GenStudio (or a local client) submits a batch; `prepare`
fences it; the broker saves it and schedules its items on Studios the registry,
the monitor and the peer cache call ready; an item task posts to the worker and
polls it; the ledger is written through; webhooks tell the client. Chat,
transcription and maintenance take part through the machine leases and the
maintenance set. A Voice item whose job cannot be reconciled becomes `uncertain`
and belongs to Voice recovery. Releases drive each Mac's Hub updater; enrollment
repair rewrites the settings of an Agent, fenced by the Controller's claims, and
the fleet token decides which Macs may be sent anything. `PROJECT.json` lists
the components with their status, and the hazards with the line at which each
bites.

## 2. What is modelled

### HubBroker

One action is the code of one coroutine between two awaits, since the event loop
runs nothing else meanwhile.

| state | code |
|---|---|
| `batch`, `item` | the batch and item dictionaries in memory |
| `row`, `rowItem` | the same in `hub.db`; only these survive `Restart` |
| `lease` | GenStudio's lease of the batch: none, live, expired |
| `busy`, `ext`, `maint` | `_busy`, `_external_machine_leases`, `_maintenance` |
| `pass` | the scheduler's locals across its awaits: the snapshot of queued items, the Studios still to try, the pair being looked at |
| `task` | where `_run_item` waits, for each item |
| `cancelling`, `recovery` | `cancel_batch` and Voice recovery at their awaits |
| `job` | the worker's job for an item and Studio (external) |

| actions | code |
|---|---|
| `SubmitBatch`, `LeaseExpires` | `_submit_batch_locked`; the deadline |
| `DispatchExpire`, `DispatchLook`, `DispatchAssign`, `DispatchPass` | `_dispatch_loop`, split at the catalog and memory awaits |
| `TaskStart` ... `TaskStopped` | `_run_item` and `_record_worker_success` |
| `RecoverStatus`, `RecoverGiveUp`, `RecoverAgain` | `_recover_worker_job` |
| `TaskCapacity`, `TaskNotified` | the capacity hand-off; the end of the `finally` block |
| `CancelBatch`, `CancelReturns`, `ClearFinished` | `cancel_batch`, `clear_finished_batches` |
| `Drain`, `Resume`, `AcquireExternal`, `ReleaseExternal` | `set_maintenance`; the machine leases of the other queues |
| `RecoveryClaims`, `RecoveryScans`, `RecoveryReads`, `RecoveryAdopts` | Voice recovery in `main.py` |
| `WorkerAccepts`, `WorkerEnds`, `WorkerForgets` | the Studio worker, external: how the Hub uses it |
| `Restart` | process death, then `restore_batches` |

Abstractions:

- Clocks are choices: a retry delay may be over or not, a lease may expire at any
  moment, a recovery window may end at any loop turn. A renewal is a lease that
  has not expired yet; renewals themselves are in GenStudioFence.
- Answers are classes: transport failure, retryable error, fatal error, capacity,
  terminal worker failure, worker timeout. `Connection` says which of them
  `_is_transport_failure` recognises.
- The catalog read and the memory gate are one await, as are the catalog read
  and the reference load of a task. Batches are looked at one at a time.
- An item webhook is assumed configured (without it the await is over at once).
  `cancel_batch` awaits the webhooks of its cancelled items one after the other;
  the model takes them together. `acquire_external_machine` also refuses while a
  render waits, which only makes it rarer.
- A worker's job ends done, in error, or ("other") in a state the Hub has no name
  for and without an error, which the poll takes for success and no other reader
  does (section 5). Only Voice instances have the last; an image behaves as with
  done, but for the recovery loop, which classifies it.
- Voice recovery's in-flight guard is per item, not also per service. Its own
  withdrawal of the Studio is `Drain`/`Resume`, which may happen at any time. The
  sequence of reads of `_recover_voice_item` is `RecoveryReads` repeated; the
  restart of the worker service is `WorkerForgets`.
- The circuit breaker (which `MachineLeases` has, for the lanes), model protection
  and memory reservations are not in HubBroker: they only remove Studios from the
  eligible ones, and the choice in `DispatchPass` covers each removal.

### GenStudioFence, AssignmentAuthority

GenStudioFence is `execution_identity.py` and the batch side of it in the broker.
`prepare` and `renew_lease` are each one SQLite transaction (`BEGIN IMMEDIATE`)
and one action; the submission's lookup or save, and the binding, are separate
commits with a crash allowed between any two. `now` is the clock, token 0 an
absent row, lease 0 a NULL. A refusal rolls back and is no step.

The submission lock serialises submissions (`submission` holds at most one); the
lock is the broker's, and the other two queues have their own, so submissions to
two queues for one job at once are outside the model. A batch is `active`,
`ended` or `cleared`; the request index (`batch_requests`) remembers it for ever.

AssignmentAuthority is what a site promises GenStudio, with none of the tables:
a job has at most one holder, replaced only under a greater token, and an attempt
goes from unknown to live to dead and never back. `ImplementsAuthority` maps the
fence rows to `holder` and the attempt rows with the clock to `status`.

### MachineLeases, TranscriptionLane, ChatLane, AuxLanes

| state | code |
|---|---|
| `lease`, `turn`, `drained`, `circuit` | `_external_machine_leases`, `_external_lane_turn`, `_maintenance`, `_machine_protection` |
| `media` | what the broker's items do on a Mac: nothing, a render waits, busy |
| `job`, `talk` | the batches of either queue, with whether memory and ledger know them |
| `runs`, `asks` | where `_run_item` and `_run_pack` wait, by Studio |
| `handle`, `packHandle`, `leased`, `engaged` | `_item_tasks`, `_pack_tasks`, the two `busy_studios` |
| `walk`, `round` | the locals of the two `dispatch_once` across their awaits |

The lanes are composed with the broker's renders, maintenance withdrawals and
restarts (`AuxLanes`). A task cancelled before its first step never enters its
body, so neither its handlers nor its `finally` clause run. Every code segment
between two awaits ends by saving the batch it changed, so a batch has one value
and two flags. Webhooks, progress files, prompts and the parsing of answers are
left out; an answer is a set of scenes.

### RepairStore, RepairExecutor, EnrollmentRepair, RepairFence

`RepairStore` is `enrollment_repair_store.py`: each definition named after a
method is one SQLite transaction on the rows. `RepairExecutor` is the Agent: its
journal, its settings file, and the one handler that redeems the ticket, stages
and replaces the file. `EnrollmentRepair` adds the coordinator's two loops
(`dispatcher`, `probe`), the requests under way (`wire`, `callback`), deadlines
(`late`), the site's identity and the registry (`site`, `binding`), and restarts
of both sides. A batch is recomputed from its rows and is no state. The
Controller's address is fixed. `tokened` is whether the Controller has a fleet
token; without one the scheduler of a queued request loops and no coroutine of
the Controller runs (`spinning`). Of a new token that the Agents do not take,
only the refusals are modelled. `RepairFence` is what the whole promises, without
rows, tickets, journals or messages.

### MacSoftware, ReleaseController, ManagedAgent, ReleaseFleet, ReleaseIntent

`ReleaseController` is the Controller's half of `release_reconciliation.py`. A
transaction is an operator from file to file; `runs` holds the locals of the
runs, `posts` the requests under way, `pathOwner` the entry of `_PATH_OWNERS`.
`ManagedAgent` is the Agent's half, `MacSoftware` the updaters as far as a
release sees them: the helper starts the Hub on the release (`HelperStarts`), which
resumes its managed work at once; then the release is verified (`HelperVerifies`), or
taken back and the Hub started on what it had (`HelperRollsBack`), or the helper fails
and leaves the Hub as it is (`HelperFails`). `trial` is what an update not over yet
goes back to, `undone` a history variable: the newest release a Hub was taken back
from. `ReleaseFleet` is the site: GenStudio, losses, crashes, updates
that fail, Studios that are installed and Macs that are switched off, which
tells nobody, or on, which has the registry reconciled. An activation is refused
while no Mac is enabled. Releases are numbers in the order
of their sequence, and a checkout never moves to an ancestor. `ReleaseIntent` is
what GenStudio is told: a goal, a phase, what is in scope, what is reached.
Bounds and joined steps: every release has a sequence of its own (`replace_intent`
would take another release of an equal sequence too, release_reconciliation.py:1285);
a child's claim, its question to the Hub's updater and the record of the answer are
one step, since the awaited `_run_managed_hub_update` (main.py:495-522) contains no
await that suspends it.

### HubUpdater, SiteMaintenance, FleetMaintenance

`HubUpdater` is `auto_update.py`: `status.json`, the mode, the schedule, the
checkout (its HEAD and the commit of its files), the Hub's process and the
helpers, of which one at a time holds `update.lock` and changes the checkout
while the Hub is stopped; a helper may be killed at every step.
`SiteMaintenance` is the withdrawal of Studios by the site drain, the rolling
updates, installations and repairs. `FleetMaintenance` composes them with people
who ask, and with the Controller's row of the Hub update (`_update_hub_one`).

Abstractions: the copy `managed_state` equals the record on disk; "verified" and
"restarting" share a path for a Hub that was stopped; the published history is
fixed; `launchctl bootout` does not end the calling helper and launchd runs one
scheduled helper at a time; a tick that is not due is no step; writing the
request and arming the schedule are one step of `trigger_update` (a crash
between is repaired when the Hub starts); bootstrap failures and the delay of
`restart_service.sh` are left out.

### SharedVoices

One voice: the canonical directory (`master`, its edition), the rows of
`sync.json`, the tombstone, the tasks and `_resync_requested`, the holder of
`_sync_lock` (`pass`), the requests under way, the Studios. `update()` writes two
files in one step; the answers "unsupported" and "failed" are one; conflict
answers are left out. `astray` is a history variable with the Studios that served
a request after a newer one, that were away, or a Hub that ended between two
writes.

### FleetCredentials

The Controller's token, the peer cache with the Studio whose refusal quarantined
a Mac, a refresh at each of its awaits (`flight`), the scheduler's preparations of
memory, which end in `invalidate()` (`admissions`, one of a Mac at a time),
`sync_fleet_token` at each of its awaits (`saving`, one
per new token, so that two may overlap), and the Macs: their token, the copy
each of their Studios read at its start, and joins under way. A cache entry that is
replaced, and `_auth_generation`, make a flight `Late`: its answer is not stored.
`touched` and `refused` are history variables. The owner's password,
alerts, per-Studio token overrides and the environment's token are left out.

## 3. Runs

Every `MC` module extends its component and names the model values. `release`,
`voices` and `credentials` are checked for deadlock; the other systems do stop, when
the work is finished and cleared, the tokens used up or the bounded troubles
spent, and their `.cfg` says `CHECK_DEADLOCK FALSE`.

| run | instance | checks | states |
|---|---|---|---|
| `broker_image` | 1 leased image batch, 2 items, 2 Macs, 1 connection retry | `BusyMatchesTasks`, `OneAttemptAtATime`, `RunningHasTask`, `DoneIsFinal` | 991 k |
| `broker_restart` | 2 image items, 1 Studio, 1 crash, fairness | `WorkSurvivesRestart`, `DurableResult`, `LeaseReturned` | 426 k |
| `broker_voice` | 1 leased Voice item, 2 Studios of 1 Mac, 2 tries, 1 crash, drains, an external lane | `MachineExclusive`, `OwnedNeverResent`, `AdoptsFinishedJob` | 2.6 M |
| `fence` | 1 job, 2 attempts, 2 keys, 2 payloads, 2 batches, 2 tokens, 1 clock step, 1 renewal under way | `OneBatchPerAssignment`, `EvidenceBehindFence`, `ImplementsAuthority` | 633 k |
| `lanes` | 2 Macs, a Voice and 2 Chat Studios, 1 batch and 1 chapter or pack each, a render, 2 disturbances | `LeaseBacksTask`, `OneAskPerPack`, `ScenesKept` | 1.5 M |
| `repair` | 2 Macs, 2 requests, 1 trouble, fairness | `WriteFenced`, `OutcomeTruthful`, `OneRepairPerMac`, `EditsKept`, `FenceKept`, `RepairsProceed` | 290 k |
| `release` | the Controller with an Image Studio, 1 Agent, 1 release, 1 supplement, 1 trouble, fairness | `FilesReadable`, `ConvergedTruly`, `OutcomeIsFinal`, `ImplementsIntent`, `ReleaseSettles` | 208 k |
| `maintenance` | 1 managed operation, 2 commits, 1 Studio, 2 requests, 2 troubles, fairness | `VerdictsTrue`, `RecoveryArmed`, `OperationEnds`, `StudiosRejoin` | 522 k |
| `voices` | 1 voice, 2 Studios, 1 edit, 1 trouble, fairness | `DeletedIsGone`, `EditsArrive`, `DeletionEnds` | 118 k |
| `credentials` | 1 Mac with 2 Studios, tokens 0 and 1, 1 trouble, fairness | `AuthorityCurrent`, `QuarantineHolds`, `VerifiedHolds`, `ReadyAgain` | 1.6 M |

What they show:

- `BusyMatchesTasks`: on every path out of `_run_item`, with cancellation and
  lease expiry in between, the leased Studios are those of running tasks.
- `OneAttemptAtATime`: the item in the scheduler's hands is nobody's, although
  its snapshot is old by then.
- `RunningHasTask`: an image item shown as running will be settled. It does not
  hold for Voice, where recovery takes the item (section 5); the property leaves
  Voice items out.
- `DoneIsFinal`: a late answer, a cancellation and an expiring lease leave a
  result alone. With a crash this is no longer true of the memory, since a result
  not yet saved is generated again; what a crash may not take is in
  `DurableResult`.
- `WorkSurvivesRestart`: while a batch has something to do, the stored row says
  so (of batches without Voice, section 5). `LeaseReturned`: every busy Studio becomes free.
- `MachineExclusive`: no order of the scheduler's awaits and the other queues'
  leases puts two jobs on one Mac. `OwnedNeverResent`: once recovery owns a Voice
  item no poller, retry or restart posts it. `AdoptsFinishedJob`: `done` comes
  only from a job its worker finished, whatever answers are lost; the poll alone
  also takes a job in a state it does not know.
- `fence`: one batch per assignment, evidence behind the fence; the refinement
  says that a holder is replaced only under a greater token and that no attempt
  comes back from the dead. Section 4 proves these and more.
- `lanes`: every task between its check and its end owns its Mac, against
  renders, the other lane, cancellation at every await, lapsed leases and
  restarts; no pack is asked twice at once; a scene once obtained is kept.
- `repair`: an Agent replaces its settings only while the Controller's claim is
  out (`WriteFenced`), says of it what happened (`OutcomeTruthful`), and never
  over an edit of its owner (`EditsKept`); a Mac has one open repair; the site's
  identity stands still under a claim (`FenceKept`, the refinement of
  `RepairFence`); a request that waits for its turn has it, and what an Agent
  journaled is settled, unless the fleet token is missing (`RepairsProceed`).
- `release`: each file written is one its reader accepts, since a refused file
  stops releases for good; what is called current runs the release, except a Hub
  the update had started and then taken back (section 5); outcomes are final; the
  whole implements `ReleaseIntent`; a release under way settles, or is
  held up by one of four named things (`ReleaseSettles`).
- `maintenance`: "succeeded" is said only of a Hub that runs the commit, "failed"
  only where the files are back or known not to be; an open operation has a
  helper or an armed schedule; it ends; withdrawn Studios return.
- `voices`: what is shown as removed is gone and stays so; the last edit reaches
  every Studio; a deletion ends. Each excuses the cases section 5 names.
- `credentials`: a Mac is sent work only on an answer to the present token, and
  not between the refusal of a Studio and its next acceptance, but for what lifts
  the quarantine without one (section 5); "verified" stays true until
  somebody else writes the Mac's token; a sound Mac becomes ready again.

**Bounds.** `MaxTries` and `MaxInfra` stand for 3 and 8: what matters is that the
last failure and the one before it are reached. `broker_image` allows two
connection failures and one try, `broker_voice` the reverse.
`MaxRestarts` 1: a second crash starts from a state a first one can also reach,
since a restart keeps only the rows. Two items and two Studios give every race of
two tasks and the scheduler; the proofs have no such bound. In the fence, two
tokens, two attempts, two keys and two payloads give a stale, an equal and a new
assignment in each column, and one clock step a lease alive and lapsed.
Elsewhere the bounded quantity is the number of troubles (crashes, losses,
failures, an owner's edits) of a behaviour. Larger instances were checked while
the modules were written: repair with 2 troubles (1.6 million states, safety); release
with releases 1 and 2 and no supplement (2.1 million, safety) and
with 2 troubles (5.0 million, safety); maintenance with two operations and three commits
(924,597, safety) and with a Hub that Pinokio owns (391,775); voices with 2
troubles (1.9 million, safety); credentials with two overlapping saves of two tokens
and one Studio (25.6 million, safety).

**Symmetry and view.** Items and Studios that are alike are permuted in
`broker_image`, Studios in `broker_voice`, everything but the job in `fence`;
none of these runs checks liveness. `broker_image` hides what rows contain
and the jobs no task waits for (`MemoryOnly`): without a restart no action reads
more of a row than whether it is kept, and without Voice a new attempt starts its
worker's job afresh.

**Fairness.** The event loop resumes every coroutine that can continue, and every
request is answered or times out: weak fairness of the steps of tasks, runs,
passes, refreshes, helpers and children. Beyond that:

- `broker_restart`: a worker's job ends (a worker that hangs for ever keeps its
  Studio in the code, too); the recovery window is a deadline, so a task that
  keeps asking does not ask for ever (strong fairness of `RecoverGiveUp`).
- `repair`: the two loops come round, except while one of them spins, and
  deadlines pass. That somebody puts a lost token back is not assumed.
- `release`: GenStudio activates what it published, stale leases run out, a helper
  starts the Hub and ends (it may always fail instead). That a
  retry comes due is not assumed.
- `maintenance`: launchd runs the schedule, waits on the site end, and each of
  the updater's and the drain's moves goes on.
- `voices`: `_sync_lock` is an asyncio lock and serves its waiters in order
  (strong fairness of taking it); the reconciler wakes; a Mac that is down comes
  back.
- `credentials`: the health poll begins refreshes, snapshots age.

Nothing is assumed of operators, of GenStudio's leases, or of crashes.

## 4. Proofs

Every proof module extends its component and TLAPS. The only assumptions are the
components' `ASSUME`s: the shapes of the constants, which TLC evaluates in every
run.

`HubBrokerProofs`: every safety property of the broker's runs, for any numbers of
batches, items, Studios, Macs, retries and restarts. `TypeOK`, `BusyMatchesTasks`,
`OneAttemptAtATime` and `MachineExclusive` rest on
`IInv == TypeOK /\ BusyMatchesTasks /\ MachineExclusive /\ SnapshotIsIdle /\ QueuedIsIdle`.
The last two are needed because `DispatchAssign` starts a task for an item of an
old snapshot: that this adds a Studio without colliding with a task follows only
if nothing in the snapshot is run by a task, which in turn holds because a task
requeues its item in the very step in which it frees its Studio.

`RunningHasTask`, `WorkSurvivesRestart`, `DoneIsFinal`, `DurableResult`,
`OwnedNeverResent` and `AdoptsFinishedJob` rest on `WorkInv`, which adds for each
item what its task, the snapshot, recovery and the row may be at once: an attempt
that adopts does so from a job that is over (`Attempt`); an item recovery holds is
owned and its task does not post (`Taken`); recovery still reads the job the item
names, or one that failed (`Reading`); an item with a result is out of reach of
the snapshot and of any task that could write it (`Settled`); and, of an item that
is not Voice, that the scheduler's snapshot has it queued or cancelled (`InHand`)
and its row is not ahead of it (`OnRecord`). For one item almost every step is
another actor's, and changes nothing its invariant reads (`Steady`), or its own
task's, which waits (`Goes`) or ends (`Leaves`); the start of a task, the worker's
acceptance, recovery and the restart have lemmas of their own.

`GenStudioFenceProofs`: the type invariant, `OneBatchPerAssignment`,
`EvidenceBehindFence`, `BindingSound` (a binding names its own key's batch), two
action properties (`OnlyHolderExtends`: only the holder's lease grows;
`LeaseNeverRevived`) and the refinement. The inductive invariant adds
`RowsFilled` (an attempt's row names a job and a key, and an absent one has no
lease), `BatchesNamed` (a batch's attempt is the one its key was given to) and
`SubmissionFenced` (the rows describe the assignment of a submission past
`prepare`). They carry the argument
across the commits: at `RegisterNew` no batch has the request's name, and since
every batch of the job and key was made by the attempt in the key row, no batch
has its job and key either. `RowsFilled` also carries the two action properties;
the refinement needs no more than the types.

`AuxLanesProofs`: `LeaseBacksTask`, `OneAskPerPack` and `ScenesKept` for any Macs,
Studios, batches and disturbances. A step of either lane keeps the leases of its
own tasks, and a lease of the other lane has another owner; the lemmas are one per
lane and action. `OneAskPerPack` needs to know why the scheduler, which does not
look again after its awaits, starts no second ask: a pack that is being asked is
shown as running or cancelled (`PackHeld`), so no walk picks it and no retry
queues it, and the pack a walk has picked has no ask (`RoundApart`), since only
the walk starts one. `ScenesKept` is an action property of the same invariant: a
batch that a step rewrites keeps every scene it has.

`EnrollmentRepairProofs`: the types of all modules of the repair, its four safety
properties, and that it implements `RepairFence`. The inductive invariant
`RepairInv` is `RepairTypeOK /\ RowsInOrder /\ HandlersInOrder /\ JournalsInOrder
/\ Unissued /\ EvidenceIsFinal /\ ClaimsInOrder`. `WriteFenced` alone is not
inductive, since a claim is given up when evidence is adopted: what is needed is
that terminal evidence of a request exists only when no handler of its Mac can
still write for it. `StepKinds` reduces the steps to few kinds, and `FenceNext`
maps each to a step of the fence or a stutter; the loss and the return of the
token and the spinning loop touch none of the repair's state (`Untouched`). `OneRepairPerMac` adds nothing but
that a row which takes the slot keeps it in a state the next start recovers; its
proof turns the counting of the property into equality of two rows.
`OutcomeTruthful` rests on `TruthInv`: a concluded request has nothing under way
(`FinalRows`), and for the request a Mac's journal names (`MacTrue`) the evidence
in the Controller's hands is the journal's word, a concluded row agrees with it,
and the journal fits the settings (`Sound`): an attempt that was never applied, or
whose claim was never given, left them alone, and one that is complete wrote its
site. `EditsKept` holds because the file is replaced only while it is the content
the journal recorded.

`FleetCredentialsProofs`: `AuthorityCurrent`, `QuarantineHolds` and
`VerifiedHolds` for any Macs, Studios, tokens, overlapping saves and troubles. The first
two follow from an invariant of the cache and the refresh under way: a flight
that may still be stored carries the present token, and the entry of a Mac that
was refused, and a flight begun since, hold the Studio that refused last
(`EntryQuarantined`, `FlightQuarantined`), also through the `invalidate()` of a
preparation that a refusal overtook (`MemoryLemma`). The third rests on `RowHolds`, that a row which says
verified of a Mac nobody else touched names the token it has.

`SharedVoicesProofs`: `DeletedIsGone` for any Studios, edits and troubles. The
property alone says nothing of what is still under way; `VoicesInv` adds that the
Hub waits only for requests of the pass that holds the lock, one to a Studio
(`Expected`, `OneEach`), that no pass still sends a voice of which a copy was
removed (`BuriedOnce`, `NothingRemoved`), and that wherever one was removed every
request that could bring it back is older than the removal (`StaysGone`).

`ReleaseFleetProofs`: `FilesReadable`, `ConvergedTruly`, `OutcomeIsFinal` and the
refinement `ImplementsIntent`, for any releases, Macs, supplements and troubles.
The inductive invariant `IInv` is `ControllerWell /\ AgentsWell` and the range of
`trouble`. Neither property is inductive: a refused file could come from a job
whose rows, catalog and state agree now and no longer after the next step, and a
true row could come from an answer that is still under way. A Hub may go back,
from a release that it ran and reported; what never goes back is the newest
release a component has run (`Ran`), and the invariant is about that. So a job is well
(`JobWell`) when its fields agree and its current rows have run the release, and a
file (`FileWell`) when its jobs are, stand in the order of their supplements and
hold no lease but the active one's. A run that waits for an Agent waits for its
own operation, and one about to close knows its catalog acknowledged (`RunWell`).
An Agent's task works on a child of its own Mac, and what a child calls current
has run the release (`AgentsGood`). `ConvergedTruly` follows: what has run the
release and does not run it now is a Hub that was taken back from it. The argument has two halves. Each transaction
keeps a file well, judged by the software as a parameter (`RecordWell` to
`ReturnedWell`); and no step takes away that a release has run (`Rises`), not even a
rollback, which records what it takes back (`RollbackRises`), so what was true of a
row stays true while anything else moves (`HigherWell`, `GoodHigher`). Every
action is then one of a few kinds of step. The kinds (`Course`: tended, grown,
opened, published, gone) also carry the other two results: none of them touches a
job that ended, and each is one action of `ReleaseIntent` or a stutter
(`IntentSteps`).

`FleetMaintenanceProofs`: `VerdictsTrue`, `RecoveryArmed` and
`WithdrawalsOwned`, for any operations, commits, helpers, Studios and troubles.
The first two follow from what holds of the one helper that has the lock
(`OneHolder`). The open operation is the one it serves, with the rollback point
it works from (`Serves`): a retry after a crash that already merged would
otherwise take the new commit for the one to go back to, which `Apart` excludes,
the origin of an operation never being the commit it asks for. And what the
helper has taken back so far is back (`Undid`), so that "failed, rolled back" is
said of the files it names and, unless the owner had stopped the Hub, of what
the Mac runs. Anybody else's step leaves this alone (`OthersGood`), since the
schedule, the settings, a check and the drain write neither the checkout nor the
open operation while the lock is held; the helper's own steps are cases of
`HolderGood`. Every lemma of a step shows both properties with the invariant
(`Good`); for `RecoveryArmed` what counts is that the schedule is taken away
only while nothing is open (`ArmedFacts`). `WithdrawalsAreOwned` is about the
one plain set of withdrawn Studios that the drain and the jobs share: each
Studio in it is in the hands of a drain under way or of a job at work on it. It
needs that a drain that is over has been released (`WithdrawalsOwned`) and that
no job is at work while it is closed (`ClosedJobs`); it is the safety half of
`StudiosRejoin`, and no run lists it (TLC checked its invariant `SiteInv` over
1.6 million states with two Studios). The converse, that a Studio at work is
withdrawn, is false in the code (section 5).

TLC checked every inductive invariant first: `WorkInv` over the instances of
`broker_voice` (2.6 million states) and `broker_restart`, `PacksInv` over that of
`lanes` (1.5 million), `RepairInv`, `TruthInv` (1.6 million) and `VoicesInv` with two
troubles, `IInv` of the releases and the two of the credentials over the instances of
their runs (208 k and 1.6 million), and that of maintenance with two operations and three commits (1.9 million).
On the way it refuted `RunningHasTask` and `WorkSurvivesRestart` of Voice items,
which is how the first entry of section 5 was found.

Every safety property of the passing runs is proved. Only model-checked is
liveness (`LeaseReturned`, `RepairsProceed`, `ReleaseSettles`, `OperationEnds`,
`StudiosRejoin`, `EditsArrive`, `DeletionEnds`, `ReadyAgain`), which is outside the
prover's reach.

## 5. What the models show the code not to do

Two `violation` runs check one sentence each of a document or a comment, and
TLC shows how the code departs from it.

- `voice_replay` (README.md:482-483, accepted Voice items become durable `uncertain`
  records): the dispatch is not saved, and the job id only with the first
  `execution_started_at`; after a crash in that window the row says `queued`.
- `replay_conflict` (comment at broker.py:953, ownership transport must not turn a
  replay into a conflict): the fingerprint keeps `lease_expires_at`.

Other behaviours of the code that the models have, which explain why a property
is stated as it is or not at all. Those marked TLC were found as counterexamples.

Broker:

- (TLC) README.md:1101 says late output is not adopted; `_record_worker_success`
  (broker.py:1543) sees no unfinished item once the batch is fenced, and adopts it.
- (TLC) CHANGELOG.md:4379 says queued items are cancelled before they can
  dispatch; `cancel_batch` during the scheduler's await cancels an item that the
  scheduler then dispatches from its snapshot (broker.py:1968).
- (TLC) A Voice item may be claimed by recovery while its task awaits
  `release_idle_siblings`. The branch after it (broker.py:2468) asks for
  `b["cancelled"]` before the await and for nothing after it: the item becomes
  queued though recovery owns it, is dispatched, and is then left running without
  a task; or it is dispatched from a snapshot after recovery settled it, with a
  finished row a restart does not look at. `RunningHasTask` and
  `WorkSurvivesRestart` are therefore about work that is not Voice.
- (TLC) A poller that awaits `_signal_worker_cancel` (broker.py:2400) cancels its
  item afterwards without asking whether Voice recovery owns it by then: an
  adopted result is overwritten, also on disk. `DoneIsFinal` and `DurableResult`
  are therefore checked without Voice items.
- `_run_item` takes every status that is not queued, running, being cancelled,
  cancelled or in error, and carries no error, for success (broker.py:2422-2431),
  an empty job too; `_recover_worker_job` and Voice recovery ask for "done". The
  models' workers show such a state only of a job that is over.
- An item handed back for capacity in a cancelled batch stays queued; a queued
  batch whose lease lapses ends without its webhook.

Lanes:

- (TLC) With two Macs, a pack that is handed back for memory on one Mac without
  costing a try leaves the other Mac's turn token with the Chat lane; a chapter
  there starves. On one shared Mac the lanes take turns.
- A task cancelled before its first step leaks its Mac and Studio until a restart
  (transcription_jobs.py:570, chat_jobs.py:614); a cancellation during
  `release_idle_siblings` leaves its item running; the flag `interrupted` is
  sticky, so `retry_batch` can requeue a running chapter; `restore_batches` raises
  on a batch cleaned while a chapter ran; tries are not bounded across restarts;
  the Chat lane does not ask whether a Mac is quarantined.

Enrollment repair:

- A dispatch lost before its Agent sees it leaves the row pending, and the site's
  identity locked, for ever; `RepairsProceed` is about repairs an Agent journaled.
- (TLC) Without a fleet token `dispatch_next` raises before it claims
  (enrollment_repair.py:1199) and `_scheduler_loop` (1013-1028) tries again with
  no await that suspends it: the request is not dispatched, and the Controller
  answers nobody. This is `SchedulerSpins`; `RepairsProceed` excepts the time
  without a token. (A poll of the peers, while the loop does not spin, creates a
  new random token, which the Agents refuse.)
- The reply of every successful apply is discarded (`mark_dispatched` raises);
  completion comes from the status probe alone. A redeemed row in `needs_review`
  has no way out.

Releases:

- A withdrawal under a run leaves `_PATH_OWNERS` set: later releases are refused
  until the Hub restarts, though main.py:4475 offers the withdrawal as the way
  out. This is `Wedged` in `ReleaseSettles`.
- (TLC) The updater starts the Hub on the release before it has verified it
  (auto_update.py:1088-1113), and the new process's reconciler (main.py:599-610) may
  at once record its own "hub" as current, because the commit it has loaded is the
  release's (release_reconciliation.py:2214-2223, 2895-2905). If the updater then
  rolls back, nothing looks at the row again: the Mac runs the old code, its row
  says current, and the job may end complete, by what the Agent answered before or
  after the rollback. `ConvergedTruly` excepts exactly this (`TakenBack`), and
  `ReleaseIntent` counts what has run; of complete jobs alone TLC refutes the
  strict form too.
- A nonterminal job without a run is picked up only by a replay of its activation
  or a restart; an Agent's open child of another operation answers 409
  (`Occupied`); a failed Hub operation is never run again (`UpdateFailed`); a Mac
  ahead of the release never converges (`Ahead`); `_due_loop` handles no exception.
  A Studio installed before the Controller's job knows of it is invalid evidence.

Updates and maintenance:

- A killed ordinary update is found as "Already up to date"; a retry that its
  preflight refuses leaves the Hub stopped; a failing rollback raises, and a
  checkout left dirty by a killed rollback refuses every later update. A helper
  that starts late opens a settled operation again; `RecoveryArmed` and
  `OperationEnds` are about operations not yet settled.
- The maintenance set is plain: the site drain, a rolling update and a repair
  each give back what another still needs, and a job that starts after the drain
  began loses its Studio when it ends. Saving settings during an update
  writes "idle" and so ends the drain early; `_drain_and_update` overwrites
  "failed". Between the wait for idle and the update a dispatch may start
  (fleet_ops.py:814).
- `_update_hub_one` reads `managed_operation_history`, which `public_status()`
  never returns.

Voices:

- A request that a Studio serves after a newer one leaves a copy the Hub does not
  look for again; a crash between the tombstone and the directory's removal, or
  between `update()` and the pass, forgets the deletion's or the edit's work.
  After a deletion queued jobs may go to any Studio (broker.py:1787).

Credentials:

- A quarantine is lifted with no acceptance by every save of a fleet token, of the
  same one too (peers.py:706), by the Mac's removal and by a restart of the Hub. Of
  two Studios of a Mac that refuse, the second replaces the first
  (peers.py:356-357), and the probe (peers.py:255) asks only the last.
  `QuarantineHolds` is stated so.
- A Mac that claims an enrollment code during a save gets the old token and is in
  no report; a crash between the Macs' writes and the local one leaves them apart;
  of two overlapping saves the one that ends last decides the Controller's token,
  and a Mac may be left with the other. A crash inside `configure_joined_agent`
  leaves the settings of the new site with an old token.

## 6. Not modelled

The sockets of transports, catalogs, reports, memory estimates, qualification and
capabilities: each is a free choice where a model meets it. The registry's files
and the monitor's polling: their answers are nondeterministic. Assets, storage
and broadcast: transfer and retention of files no queue waits for. The control
plane's PostgreSQL copy: nothing reads it back. Startup services: launchd jobs;
the routes that retire and remove services act on legacy families that
`load_registry` no longer tracks. The SSD kit and tools: scripts an operator runs
on a stopped Mac. The web interface. Of the modelled files: dependency
installation, release manifests and capability evidence, first enrollment beyond
the token, owner passwords, webhooks of the lanes, `release_fence_after_verified_stop`
(no route reaches it), and the stalled-job observation of `automatic_recovery.py`.

## 7. Plan

1. Done: the broker, the fence and the lanes with their proofs; the
   enrollment repair and the managed releases with their refinements, proved;
   updater and maintenance, shared voices and credentials, proved.
2. To prove next, of the same modules: the safety half of the other liveness
   properties, as `WithdrawalsAreOwned` is that of `StudiosRejoin`: that whatever
   waits (a scene, a claim, a lease, a delivery) has somebody who will act on it.
3. To model next: batch notification (item and completion webhooks) with lease
   expiry and recovery, the thread of `renew_execution_lease` against clears, the
   stalled-job observation and service restart of local recovery, the journalled
   move of `runtime_state_migration.py`.
