-------------------------- MODULE TranscriptionLane --------------------------
(***************************************************************************)
(* The transcription queue (transcription_jobs.py): batches of chapters, a *)
(* dispatcher that walks them across its awaits, one task per dispatched   *)
(* chapter, and the operator's cancel, retry, cleanup and clear.           *)
(*                                                                         *)
(* Every code segment between two awaits ends by saving the batch it       *)
(* changed, so a stored row always equals the batch object: `stored' says  *)
(* whether the row exists and `known' whether the object is in `batches'.  *)
(* A task is named by the Studio it runs on: busy_studios keeps a Studio   *)
(* from being leased twice.  A task cancelled before its first step never  *)
(* enters its body, so neither its handlers nor its finally clause run.    *)
(***************************************************************************)
EXTENDS MachineLeases

CONSTANTS
    Jobs, Chapters,     \* batches and the indexes of their items
    Voices, HostOf,     \* Voice Studios and the Mac each runs on
    Assigned,           \* the batches GenStudio assigned with a lease
    MaxTries            \* MAX_TRIES

ASSUME TranscriptionAssumption ==
    /\ Chapters \subseteq Nat /\ HostOf \in [Voices -> Machines]
    /\ Assigned \subseteq Jobs /\ MaxTries \in Nat \ {0}

VARIABLES
    job,        \* the batch objects
    runs,       \* _run_item on each Studio
    handle,     \* _item_tasks: the Studio of the task registered for a chapter
    leased,     \* busy_studios
    walk        \* dispatch_once's locals

transcriptionVars == << job, runs, handle, leased, walk >>

Terminal == {"done", "error", "cancelled"}
ChapterStates == {"queued", "running"} \cup Terminal
LeaseStates == {"none", "valid", "lapsed", "late renewal"}
NoJob == [known |-> FALSE, stored |-> FALSE]
NoRun == [pc |-> "none"]
NoWalk == [pc |-> "idle"]

NewChapter == [state |-> "queued", tries |-> 0, interrupted |-> FALSE, avoid |-> {}]
Exists(b) == job[b].known \/ job[b].stored
Ended(b) == \A i \in Chapters : job[b].items[i].state \in Terminal
Lapsed(b) == job[b].lease \in {"lapsed", "late renewal"}
Owner(b, i) == << "transcription", b, i >>

(* Tasks and the dispatcher keep the object of a batch alive. *)
Held(b) == (\E s \in Voices : runs[s].pc # "none" /\ runs[s].b = b)
           \/ (walk.pc # "idle" /\ walk.b = b)

(* _expire_genstudio_batch, for a lapsed lease. *)
Expired(j) ==
    [j EXCEPT !.cancelled = TRUE,
              !.items = [i \in Chapters |-> IF @[i].state \in {"queued", "running"}
                                            THEN [@[i] EXCEPT !.state = "cancelled"] ELSE @[i]]]

TranscriptionInit ==
    /\ job = [b \in Jobs |-> NoJob]
    /\ runs = [s \in Voices |-> NoRun]
    /\ handle = [b \in Jobs |-> [i \in Chapters |-> Nobody]]
    /\ leased = {} /\ walk = NoWalk

(* create_batch, after the uploads are spooled. *)
CreateBatch(b) ==
    /\ job[b] = NoJob
    /\ job' = [job EXCEPT ![b] =
           [known |-> TRUE, stored |-> TRUE, cancelled |-> FALSE, cleaned |-> FALSE,
            files |-> TRUE, lease |-> IF b \in Assigned THEN "valid" ELSE "none",
            items |-> [i \in Chapters |-> NewChapter]]]
    /\ UNCHANGED << runs, handle, leased, walk, machineVars >>

(* The deadline of GenStudio's lease passes; a renewal the fence accepted   *)
(* before it may still be on its way to the queue.                          *)
LeaseLapses(b) ==
    /\ Exists(b) /\ job[b].lease = "valid"
    /\ \E l \in {"lapsed", "late renewal"} : job' = [job EXCEPT ![b].lease = l]
    /\ UNCHANGED << runs, handle, leased, walk, machineVars >>

(* renew_execution_lease, whose save lists and stores the batch again. *)
RenewLease(b) ==
    /\ Exists(b) /\ job[b].lease = "late renewal"
    /\ job' = [job EXCEPT ![b].lease = "valid", ![b].known = TRUE, ![b].stored = TRUE]
    /\ UNCHANGED << runs, handle, leased, walk, machineVars >>

-----------------------------------------------------------------------------
(* _eligible_studios *)
Eligible(b, i, s) ==
    /\ s \notin leased /\ s \notin drained
    /\ ~MachineBusy(HostOf[s]) /\ ~Quarantined(HostOf[s])
    /\ HostOf[s] \notin job[b].items[i].avoid

Live(b) == job[b].known /\ ~job[b].cancelled
Queued(b) == {i \in Chapters : job[b].items[i].state = "queued"}

(* has_dispatchable_work, with memory evidence that is missing: the code    *)
(* then counts the Mac as usable.                                           *)
TranscriptionWork(m) ==
    \E b \in Jobs : /\ Live(b) /\ ~Lapsed(b)
                    /\ \E i \in Queued(b), s \in Voices : HostOf[s] = m /\ Eligible(b, i, s)

(* dispatch_once reaches a batch whose lease ran out. *)
DispatchExpire(b) ==
    /\ walk.pc = "idle" /\ Live(b) /\ Lapsed(b)
    /\ job' = [job EXCEPT ![b] = [Expired(job[b]) EXCEPT !.stored = TRUE]]
    /\ UNCHANGED << runs, handle, leased, walk, machineVars >>

(* It picks the first queued chapter of a batch ... *)
DispatchPick(b) ==
    /\ walk.pc = "idle" /\ Live(b) /\ ~Lapsed(b)
    /\ \E i \in Queued(b) : /\ \A k \in Queued(b) : i <= k
                            /\ walk' = [pc |-> "list", b |-> b, i |-> i]
    /\ UNCHANGED << job, runs, handle, leased, machineVars >>

(* ... lists the Studios eligible for it, an await later ... *)
DispatchList ==
    /\ walk.pc = "list"
    /\ walk' = [pc |-> "look", b |-> walk.b, i |-> walk.i,
                 left |-> {s \in Voices : Eligible(walk.b, walk.i, s)}]
    /\ UNCHANGED << job, runs, handle, leased, machineVars >>

(* ... takes them one by one ... *)
DispatchLook(s) ==
    /\ walk.pc = "look" /\ s \in walk.left
    /\ walk' = [pc |-> "ask", b |-> walk.b, i |-> walk.i, left |-> walk.left \ {s}, s |-> s]
    /\ UNCHANGED << job, runs, handle, leased, machineVars >>

DispatchExhausted ==
    /\ walk.pc = "look" /\ walk.left = {} /\ walk' = NoWalk
    /\ UNCHANGED << job, runs, handle, leased, machineVars >>

Skip == walk' = [pc |-> "look", b |-> walk.b, i |-> walk.i, left |-> walk.left]

(* ... asks whether the Chat lane could use the Mac and whose turn it is ... *)
DispatchAsk(chatWaits) ==
    /\ walk.pc = "ask"
    /\ IF MayDispatch(HostOf[walk.s], "transcription", HostOf[walk.s] \in chatWaits)
       THEN walk' = [walk EXCEPT !.pc = "admit"] ELSE Skip
    /\ UNCHANGED << job, runs, handle, leased, machineVars >>

(* ... and, after the memory check, starts the chapter: neither the chapter *)
(* nor the batch is looked at again.                                        *)
DispatchStart ==
    /\ walk.pc = "admit" /\ Acquirable(HostOf[walk.s])
    /\ LET b == walk.b  i == walk.i  s == walk.s IN
       /\ Acquire(HostOf[s], Owner(b, i))
       /\ PassTurn(HostOf[s], "transcription")
       /\ job' = [job EXCEPT ![b].items[i].state = "running",
                             ![b].items[i].tries = @ + 1, ![b].stored = TRUE]
       /\ runs' = [runs EXCEPT ![s] = [pc |-> "created", b |-> b, i |-> i, cancel |-> FALSE]]
       /\ handle' = [handle EXCEPT ![b][i] = s]
       /\ leased' = leased \cup {s}
    /\ walk' = NoWalk
    /\ UNCHANGED << media, drained, circuit >>

(* The memory check refuses; the other lane gets the turn. *)
DispatchBlocked ==
    /\ walk.pc = "admit"
    /\ PassTurn(HostOf[walk.s], "transcription") /\ Skip
    /\ UNCHANGED << job, runs, handle, leased, lease, media, drained, circuit >>

(* The Mac was taken meanwhile, or the worker's authentication changes. *)
DispatchLost ==
    /\ walk.pc = "admit" /\ Skip
    /\ UNCHANGED << job, runs, handle, leased, machineVars >>

-----------------------------------------------------------------------------
(* The finally clause of _run_item around the batch object it leaves. *)
Leave(s, j) ==
    LET b == runs[s].b  i == runs[s].i IN
    /\ job' = [job EXCEPT ![b] = [j EXCEPT !.stored = TRUE]]
    /\ leased' = leased \ {s}
    /\ Release(HostOf[s], Owner(b, i))
    /\ handle' = [handle EXCEPT ![b][i] = Nobody]
    /\ runs' = [runs EXCEPT ![s] = NoRun]
    /\ UNCHANGED << walk, turn, media, drained >>

TheJob(s) == job[runs[s].b]
With(s, item) == [TheJob(s) EXCEPT !.items[runs[s].i] = item]
TheItem(s) == TheJob(s).items[runs[s].i]
Refund(n) == IF n > 0 THEN n - 1 ELSE 0

(* except Exception: another try, or the chapter's error. *)
Failed(s, item, transient) ==
    With(s, [item EXCEPT !.state =
        IF transient /\ item.tries < MaxTries /\ ~TheJob(s).cancelled THEN "queued" ELSE "error"])

(* A transport failure also opens the circuit and avoids the Mac a while. *)
TransportFailure(s) ==
    /\ Leave(s, Failed(s, [TheItem(s) EXCEPT !.avoid = @ \cup {HostOf[s]}], TRUE))
    /\ MarkFailure(HostOf[s])

(* Up to the request to the worker: the lease ran out, the upload's path    *)
(* was dropped by a cleanup, the upload itself is gone, the worker's        *)
(* authentication changed, or the request goes out.                         *)
RunStart(s) ==
    /\ runs[s].pc = "created" /\ ~runs[s].cancel
    /\ \/ /\ Lapsed(runs[s].b)
          /\ Leave(s, Expired(TheJob(s))) /\ UNCHANGED circuit
       \/ /\ ~Lapsed(runs[s].b) /\ TheJob(s).cleaned
          /\ Leave(s, Failed(s, TheItem(s), FALSE)) /\ UNCHANGED circuit
       \/ /\ ~Lapsed(runs[s].b) /\ ~TheJob(s).cleaned /\ ~TheJob(s).files
          /\ TransportFailure(s)
       \/ /\ ~Lapsed(runs[s].b) /\ TheJob(s).files
          /\ Leave(s, With(s, [TheItem(s) EXCEPT !.state = "queued", !.tries = Refund(@)]))
          /\ UNCHANGED circuit
       \/ /\ ~Lapsed(runs[s].b) /\ TheJob(s).files
          /\ runs' = [runs EXCEPT ![s].pc = "post"]
          /\ UNCHANGED << job, handle, leased, walk, machineVars >>

(* A subtitle arrives, is written and verified; unless the lease ran out. *)
RunDone(s) ==
    /\ runs[s].pc = "post" /\ ~runs[s].cancel
    /\ IF Lapsed(runs[s].b)
       THEN Leave(s, Expired(TheJob(s))) /\ UNCHANGED circuit
       ELSE /\ Leave(s, With(s, [TheItem(s) EXCEPT !.state = "done"]))
            /\ MarkSuccess(HostOf[s])

(* The request fails: no connection or a transient status, an error that is *)
(* final, or too little memory, which asks the Mac's idle Studios first.    *)
RunFails(s) ==
    /\ runs[s].pc = "post" /\ ~runs[s].cancel
    /\ \/ TransportFailure(s)
       \/ Leave(s, Failed(s, TheItem(s), FALSE)) /\ UNCHANGED circuit
       \/ /\ runs' = [runs EXCEPT ![s].pc = "handoff"]
          /\ UNCHANGED << job, handle, leased, walk, machineVars >>

RunHandoff(s) ==
    /\ runs[s].pc = "handoff" /\ ~runs[s].cancel
    /\ \E transient \in BOOLEAN :
           Leave(s, Failed(s, [TheItem(s) EXCEPT !.tries = Refund(@)], transient))
    /\ UNCHANGED circuit

(* CancelledError: in the body it is handled, in the handler of a memory    *)
(* failure only the finally clause runs, before the first step nothing.     *)
RunCancelled(s) ==
    /\ runs[s].pc # "none" /\ runs[s].cancel
    /\ CASE runs[s].pc = "post" ->
              Leave(s, With(s, [TheItem(s) EXCEPT !.state = "cancelled"])) /\ UNCHANGED circuit
         [] runs[s].pc = "handoff" -> Leave(s, TheJob(s)) /\ UNCHANGED circuit
         [] OTHER -> /\ runs' = [runs EXCEPT ![s] = NoRun]
                     /\ UNCHANGED << job, handle, leased, walk, machineVars >>

(* FAILED_WORKER_AVOID_S passes. *)
AvoidanceEnds(b, i) ==
    /\ Exists(b) /\ job[b].items[i].avoid # {}
    /\ job' = [job EXCEPT ![b].items[i].avoid = {}]
    /\ UNCHANGED << runs, handle, leased, walk, machineVars >>

-----------------------------------------------------------------------------
(* cancel_batch.  A batch read back from its row is a second object: the    *)
(* model asks that no task still holds the first.                           *)
CancelBatch(b) ==
    /\ Exists(b) /\ (job[b].known \/ ~Held(b))
    /\ job' = [job EXCEPT ![b].cancelled = TRUE, ![b].known = TRUE, ![b].stored = TRUE,
                 ![b].items = [i \in Chapters |-> IF @[i].state = "queued"
                                  THEN [@[i] EXCEPT !.state = "cancelled"] ELSE @[i]]]
    /\ runs' = [s \in Voices |->
           IF \E i \in Chapters : handle[b][i] = s /\ job[b].items[i].state = "running"
                                  /\ runs[s].pc # "none"
           THEN [runs[s] EXCEPT !.cancel = TRUE] ELSE runs[s]]
    /\ UNCHANGED << handle, leased, walk, machineVars >>

(* retry_batch *)
Retried(b) == {i \in Chapters : job[b].items[i].state = "error" \/ job[b].items[i].interrupted}
RetryBatch(b) ==
    /\ Exists(b) /\ (job[b].known \/ ~Held(b))
    /\ ~job[b].cleaned /\ Retried(b) # {}
    /\ job' = [job EXCEPT ![b].cancelled = FALSE, ![b].known = TRUE, ![b].stored = TRUE,
                 ![b].items = [i \in Chapters |-> IF i \in Retried(b)
                     THEN [@[i] EXCEPT !.state = "queued", !.tries = 0, !.interrupted = FALSE]
                     ELSE @[i]]]
    /\ UNCHANGED << runs, handle, leased, walk, machineVars >>

(* cleanup: by retention, by the storage budget or by the operator. *)
CleanupBatch(b) ==
    /\ Exists(b) /\ Ended(b) /\ ~job[b].cleaned
    /\ job' = [job EXCEPT ![b].cleaned = TRUE, ![b].files = FALSE,
                       ![b].known = FALSE, ![b].stored = TRUE]
    /\ UNCHANGED << runs, handle, leased, walk, machineVars >>

(* remove_batch and clear_terminal *)
RemoveBatch(b) ==
    /\ Exists(b) /\ Ended(b)
    /\ job' = [job EXCEPT ![b].known = FALSE, ![b].stored = FALSE, ![b].files = FALSE]
    /\ handle' = [handle EXCEPT ![b] = [i \in Chapters |-> Nobody]]
    /\ UNCHANGED << runs, leased, walk, machineVars >>

(* stop: every task is cancelled and, unless its batch was, its chapter is  *)
(* saved as interrupted.                                                    *)
Stopped(b) ==
    [job[b] EXCEPT !.stored = @ \/ \E s \in Voices : runs[s].pc \in {"post", "handoff"} /\ runs[s].b = b,
        !.items = [i \in Chapters |->
            IF \E s \in Voices : runs[s].pc = "post" /\ runs[s].b = b /\ runs[s].i = i
            THEN IF job[b].cancelled THEN [@[i] EXCEPT !.state = "cancelled"]
                 ELSE [@[i] EXCEPT !.state = "queued", !.interrupted = TRUE]
            ELSE @[i]]]

(* restore_batches: unfinished rows are listed again and their running      *)
(* chapters queued; without its upload a queued chapter is an error.        *)
RestoredChapter(j, item) ==
    LET it == IF item.state = "running"
              THEN [item EXCEPT !.state = "queued", !.interrupted = TRUE] ELSE item
    IN IF it.state = "queued" /\ ~j.files THEN [it EXCEPT !.state = "error"] ELSE it
Restored(j) ==
    CASE ~j.stored -> NoJob
      [] j.stored /\ \A i \in Chapters : j.items[i].state \in Terminal -> [j EXCEPT !.known = FALSE]
      [] OTHER -> IF j.lease \in {"lapsed", "late renewal"}
                  THEN [Expired(j) EXCEPT !.known = TRUE]
                  ELSE [j EXCEPT !.known = TRUE,
                                 !.items = [i \in Chapters |-> RestoredChapter(j, @[i])]]

(* A chapter whose path a cleanup dropped makes restore_batches raise: the  *)
(* Hub does not start.                                                      *)
Restorable(j) ==
    \/ ~j.stored \/ ~j.cleaned \/ j.lease \in {"lapsed", "late renewal"}
    \/ \A i \in Chapters : j.items[i].state \in Terminal

TranscriptionRestart(graceful) ==
    /\ \A b \in Jobs : job[b] # NoJob => Restorable(job[b])
    /\ job' = [b \in Jobs |-> IF job[b] = NoJob THEN NoJob
                              ELSE Restored(IF graceful THEN Stopped(b) ELSE job[b])]
    /\ runs' = [s \in Voices |-> NoRun]
    /\ handle' = [b \in Jobs |-> [i \in Chapters |-> Nobody]]
    /\ leased' = {} /\ walk' = NoWalk
=============================================================================
