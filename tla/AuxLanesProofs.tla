---------------------------- MODULE AuxLanesProofs ----------------------------
(***************************************************************************)
(* For every number of Macs, Studios, batches and disturbances: a task of  *)
(* either lane owns the lease of its Mac, a pack is asked of one Chat      *)
(* Studio at a time, and the scenes it has are kept.                       *)
(*                                                                         *)
(* LeaseBacksTask is not inductive alone: a task that ends releases the    *)
(* lease only if it is its own, so two tasks of one chapter on one Mac     *)
(* would take the lease from each other.  OneTaskPerMac rules them out,    *)
(* and the locals of the dispatchers must name existing batches.           *)
(***************************************************************************)
EXTENDS AuxLanes, TLAPS

Whole(task) == task = [pc |-> task.pc, b |-> task.b, i |-> task.i, cancel |-> task.cancel]
Continues(old, new) ==
    new.pc = "none" \/ (old.pc # "none" /\ new.b = old.b /\ new.i = old.i /\ Whole(new))
Candidate(w) == w = [pc |-> w.pc, b |-> w.b, i |-> w.i, left |-> w.left, s |-> w.s]

WalkOK ==
    walk.pc # "idle" =>
        /\ walk.b \in Jobs /\ walk.i \in Chapters
        /\ walk.pc \notin {"list", "look"} => walk.s \in Voices /\ Candidate(walk)
RoundOK ==
    round.pc # "idle" =>
        /\ round.b \in Talks /\ round.i \in Packs
        /\ round.pc \notin {"list", "look"} => round.s \in Writers /\ Candidate(round)

TasksOK ==
    /\ runs = [s \in Voices |-> runs[s]] /\ asks = [s \in Writers |-> asks[s]]
    /\ \A s \in Voices : runs[s].pc # "none" =>
           runs[s].b \in Jobs /\ runs[s].i \in Chapters /\ Whole(runs[s])
    /\ \A s \in Writers : asks[s].pc # "none" =>
           asks[s].b \in Talks /\ asks[s].i \in Packs /\ Whole(asks[s])

LeasesOK == lease = [m \in Machines |-> lease[m]] /\ media = [m \in Machines |-> media[m]]

OneTaskPerMac ==
    /\ \A s, r \in Voices : runs[s].pc # "none" /\ runs[r].pc # "none" /\ HostOf[s] = HostOf[r] => s = r
    /\ \A s, r \in Writers : asks[s].pc # "none" /\ asks[r].pc # "none" /\ WriterHost[s] = WriterHost[r] => s = r

LanesInv == WalkOK /\ RoundOK /\ TasksOK /\ LeasesOK /\ OneTaskPerMac /\ LeaseBacksTask

LEMMA NoTask == NoRun.pc = "none" /\ NoAsk.pc = "none" /\ NoWalk.pc = "idle" /\ NoRound.pc = "idle"
  BY DEF NoRun, NoAsk, NoWalk, NoRound

LEMMA DifferentLanes == \A b, i, c, k : Owner(b, i) # PackOwner(c, k)
  BY DEF Owner, PackOwner

LEMMA SameOwner == \A b, i, c, k : /\ Owner(b, i) = Owner(c, k) => b = c /\ i = k
                                   /\ PackOwner(b, i) = PackOwner(c, k) => b = c /\ i = k
  BY DEF Owner, PackOwner

(* A step that touches neither a task nor a lease. *)
LEMMA Untouched ==
  ASSUME LanesInv, UNCHANGED << runs, asks, lease, media, leased, engaged >>, WalkOK', RoundOK'
  PROVE  LanesInv'
  BY DEF LanesInv, TasksOK, LeasesOK, OneTaskPerMac, LeaseBacksTask

LEMMA InitInv == Init => LanesInv
<1> SUFFICES ASSUME Init PROVE LanesInv
  OBVIOUS
<1>1. WalkOK /\ RoundOK
  BY NoTask DEF Init, TranscriptionInit, ChatInit, WalkOK, RoundOK
<1>2. /\ \A s \in Voices : runs[s].pc = "none"
      /\ \A s \in Writers : asks[s].pc = "none"
  BY NoTask DEF Init, TranscriptionInit, ChatInit
<1>3. TasksOK
  BY <1>2 DEF Init, TranscriptionInit, ChatInit, TasksOK
<1>4. LeasesOK /\ OneTaskPerMac /\ LeaseBacksTask
  BY <1>2 DEF Init, MachineInit, LeasesOK, OneTaskPerMac, LeaseBacksTask
<1> QED BY <1>1, <1>3, <1>4 DEF LanesInv

-----------------------------------------------------------------------------
(* A task starts on a Mac nobody leases: no task ran there. *)
LEMMA StartKeeps == LanesInv /\ DispatchStart /\ UNCHANGED << chatVars, disturbances >> => LanesInv'
<1> SUFFICES ASSUME LanesInv, DispatchStart, UNCHANGED chatVars PROVE LanesInv'
  OBVIOUS
<1> DEFINE s == walk.s
           b == walk.b
           i == walk.i
           new == [pc |-> "created", b |-> b, i |-> i, cancel |-> FALSE]
<1>1. s \in Voices /\ b \in Jobs /\ i \in Chapters
  BY DEF LanesInv, WalkOK, DispatchStart
<1>2. lease[HostOf[s]] = Nobody /\ media[HostOf[s]] # "busy"
  BY DEF DispatchStart, Acquirable, MachineBusy
<1>3. Owner(b, i) # Nobody /\ HostOf[s] \in Machines
  BY <1>1, OwnerAssumption, TranscriptionAssumption
<1>4. \A r \in Voices : runs[r].pc # "none" => HostOf[r] # HostOf[s]
  BY <1>2, OwnerAssumption DEF LanesInv, LeaseBacksTask, TasksOK
<1>5. \A r \in Writers : asks[r].pc # "none" => WriterHost[r] # HostOf[s]
  BY <1>2, OwnerAssumption DEF LanesInv, LeaseBacksTask, TasksOK
<1>6. /\ lease' = [lease EXCEPT ![HostOf[s]] = Owner(b, i)]
      /\ runs' = [runs EXCEPT ![s] = new]
      /\ leased' = leased \cup {s}
      /\ walk' = NoWalk /\ media' = media
      /\ asks' = asks /\ engaged' = engaged /\ round' = round
  BY DEF DispatchStart, Acquire, chatVars
<1>7. new.pc = "created" /\ new.b = b /\ new.i = i /\ Whole(new)
  BY DEF Whole
<1> HIDE DEF new
<1>8. /\ \A r \in Voices : runs'[r] = IF r = s THEN new ELSE runs[r]
      /\ \A m \in Machines : lease'[m] = IF m = HostOf[s] THEN Owner(b, i) ELSE lease[m]
  BY <1>1, <1>6 DEF LanesInv, TasksOK, LeasesOK
<1>9. WalkOK' /\ RoundOK'
  BY <1>6, NoTask DEF LanesInv, WalkOK, RoundOK
<1>10. TasksOK' /\ LeasesOK'
  BY <1>1, <1>6, <1>7, <1>8 DEF LanesInv, TasksOK, LeasesOK
<1>11. OneTaskPerMac'
  BY <1>4, <1>6, <1>8 DEF LanesInv, OneTaskPerMac
<1>12. LeaseBacksTask'
  <2>1. \A r \in Voices : runs'[r].pc # "none" =>
            lease'[HostOf[r]] = Owner(runs'[r].b, runs'[r].i) /\ r \in leased'
    BY <1>1, <1>3, <1>4, <1>6, <1>7, <1>8, TranscriptionAssumption DEF LanesInv, LeaseBacksTask
  <2>2. \A r \in Writers : asks'[r].pc # "none" =>
            lease'[WriterHost[r]] = PackOwner(asks'[r].b, asks'[r].i) /\ r \in engaged'
    BY <1>5, <1>6, <1>8, ChatAssumption DEF LanesInv, LeaseBacksTask
  <2>3. \A m \in Machines : media'[m] = "busy" => lease'[m] = Nobody
    BY <1>2, <1>6, <1>8 DEF LanesInv, LeaseBacksTask
  <2> QED BY <2>1, <2>2, <2>3 DEF LeaseBacksTask
<1> QED BY <1>9, <1>10, <1>11, <1>12 DEF LanesInv

LEMMA RoundStartKeeps == LanesInv /\ RoundStart /\ UNCHANGED << transcriptionVars, disturbances >> => LanesInv'
<1> SUFFICES ASSUME LanesInv, RoundStart, UNCHANGED transcriptionVars PROVE LanesInv'
  OBVIOUS
<1> DEFINE s == round.s
           b == round.b
           i == round.i
           new == [pc |-> "created", b |-> b, i |-> i, cancel |-> FALSE]
<1>1. s \in Writers /\ b \in Talks /\ i \in Packs
  BY DEF LanesInv, RoundOK, RoundStart
<1>2. lease[WriterHost[s]] = Nobody /\ media[WriterHost[s]] # "busy"
  BY DEF RoundStart, Acquirable, MachineBusy
<1>3. PackOwner(b, i) # Nobody /\ WriterHost[s] \in Machines
  BY <1>1, OwnerAssumption, ChatAssumption
<1>4. \A r \in Writers : asks[r].pc # "none" => WriterHost[r] # WriterHost[s]
  BY <1>2, OwnerAssumption DEF LanesInv, LeaseBacksTask, TasksOK
<1>5. \A r \in Voices : runs[r].pc # "none" => HostOf[r] # WriterHost[s]
  BY <1>2, OwnerAssumption DEF LanesInv, LeaseBacksTask, TasksOK
<1>6. /\ lease' = [lease EXCEPT ![WriterHost[s]] = PackOwner(b, i)]
      /\ asks' = [asks EXCEPT ![s] = new]
      /\ engaged' = engaged \cup {s}
      /\ round' = NoRound /\ media' = media
      /\ runs' = runs /\ leased' = leased /\ walk' = walk
  BY DEF RoundStart, Acquire, transcriptionVars
<1>7. new.pc = "created" /\ new.b = b /\ new.i = i /\ Whole(new)
  BY DEF Whole
<1> HIDE DEF new
<1>8. /\ \A r \in Writers : asks'[r] = IF r = s THEN new ELSE asks[r]
      /\ \A m \in Machines : lease'[m] = IF m = WriterHost[s] THEN PackOwner(b, i) ELSE lease[m]
  BY <1>1, <1>6 DEF LanesInv, TasksOK, LeasesOK
<1>9. WalkOK' /\ RoundOK'
  BY <1>6, NoTask DEF LanesInv, WalkOK, RoundOK
<1>10. TasksOK' /\ LeasesOK'
  BY <1>1, <1>6, <1>7, <1>8 DEF LanesInv, TasksOK, LeasesOK
<1>11. OneTaskPerMac'
  BY <1>4, <1>6, <1>8 DEF LanesInv, OneTaskPerMac
<1>12. LeaseBacksTask'
  <2>1. \A r \in Writers : asks'[r].pc # "none" =>
            lease'[WriterHost[r]] = PackOwner(asks'[r].b, asks'[r].i) /\ r \in engaged'
    BY <1>1, <1>3, <1>4, <1>6, <1>7, <1>8, ChatAssumption DEF LanesInv, LeaseBacksTask
  <2>2. \A r \in Voices : runs'[r].pc # "none" =>
            lease'[HostOf[r]] = Owner(runs'[r].b, runs'[r].i) /\ r \in leased'
    BY <1>5, <1>6, <1>8, TranscriptionAssumption DEF LanesInv, LeaseBacksTask
  <2>3. \A m \in Machines : media'[m] = "busy" => lease'[m] = Nobody
    BY <1>2, <1>6, <1>8 DEF LanesInv, LeaseBacksTask
  <2> QED BY <2>1, <2>2, <2>3 DEF LeaseBacksTask
<1> QED BY <1>9, <1>10, <1>11, <1>12 DEF LanesInv

-----------------------------------------------------------------------------
(* A task that ends gives its own lease back: no other task of the lane is  *)
(* on the Mac, and a task of the other lane has another owner.              *)
LEMMA LeaveKeeps ==
  ASSUME LanesInv, NEW s \in Voices, runs[s].pc # "none", NEW j, Leave(s, j), UNCHANGED chatVars
  PROVE  LanesInv'
<1> DEFINE o == Owner(runs[s].b, runs[s].i)
<1>1. /\ lease' = [lease EXCEPT ![HostOf[s]] = IF @ = o THEN Nobody ELSE @]
      /\ runs' = [runs EXCEPT ![s] = NoRun]
      /\ leased' = leased \ {s}
      /\ walk' = walk /\ media' = media
      /\ asks' = asks /\ engaged' = engaged /\ round' = round
  BY DEF Leave, Release, chatVars
<1>2. /\ \A r \in Voices : runs'[r] = IF r = s THEN NoRun ELSE runs[r]
      /\ \A m \in Machines : lease'[m] = IF m = HostOf[s] /\ lease[m] = o THEN Nobody ELSE lease[m]
  BY <1>1, TranscriptionAssumption DEF LanesInv, TasksOK, LeasesOK
<1>3. WalkOK' /\ RoundOK'
  BY <1>1 DEF LanesInv, WalkOK, RoundOK
<1>4. TasksOK' /\ LeasesOK'
  BY <1>1, <1>2, NoTask DEF LanesInv, TasksOK, LeasesOK
<1>5. OneTaskPerMac'
  BY <1>1, <1>2, NoTask DEF LanesInv, OneTaskPerMac
<1>6. LeaseBacksTask'
  <2>1. ASSUME NEW r \in Voices, runs'[r].pc # "none"
        PROVE  lease'[HostOf[r]] = Owner(runs'[r].b, runs'[r].i) /\ r \in leased'
    <3>1. r # s /\ runs'[r] = runs[r] /\ HostOf[r] # HostOf[s] /\ HostOf[r] \in Machines
      BY <1>2, <2>1, NoTask, TranscriptionAssumption DEF LanesInv, OneTaskPerMac
    <3> QED BY <1>1, <1>2, <2>1, <3>1 DEF LanesInv, LeaseBacksTask
  <2>2. ASSUME NEW r \in Writers, asks'[r].pc # "none"
        PROVE  lease'[WriterHost[r]] = PackOwner(asks'[r].b, asks'[r].i) /\ r \in engaged'
    <3>1. lease[WriterHost[r]] = PackOwner(asks[r].b, asks[r].i) /\ r \in engaged /\ WriterHost[r] \in Machines
      BY <1>1, <2>2, ChatAssumption DEF LanesInv, LeaseBacksTask
    <3>2. lease[WriterHost[r]] # o
      BY <3>1, DifferentLanes
    <3> QED BY <1>1, <1>2, <3>1, <3>2
  <2>3. \A m \in Machines : media'[m] = "busy" => lease'[m] = Nobody
    BY <1>1, <1>2 DEF LanesInv, LeaseBacksTask
  <2> QED BY <2>1, <2>2, <2>3 DEF LeaseBacksTask
<1> QED BY <1>3, <1>4, <1>5, <1>6 DEF LanesInv

(* A task moves on, is told to stop, or vanishes without a trace. *)
LEMMA TaskChanges ==
  ASSUME LanesInv, runs' = [s \in Voices |-> runs'[s]],
         \A s \in Voices : Continues(runs[s], runs'[s]),
         UNCHANGED << chatVars, lease, media, leased, walk >>
  PROVE  LanesInv'
<1>1. UNCHANGED << asks, engaged, round >>
  BY DEF chatVars
<1>2. WalkOK' /\ RoundOK' /\ TasksOK' /\ LeasesOK'
  BY <1>1 DEF LanesInv, WalkOK, RoundOK, TasksOK, LeasesOK, Continues
<1>3. OneTaskPerMac' /\ LeaseBacksTask'
  BY <1>1 DEF Continues, LanesInv, OneTaskPerMac, LeaseBacksTask
<1> QED BY <1>2, <1>3 DEF LanesInv

LEMMA TaskKeeps ==
  ASSUME LanesInv, NEW s \in Voices, TranscriptionTask(s), UNCHANGED chatVars
  PROVE  LanesInv'
<1>1. runs[s].pc # "none"
  BY DEF TranscriptionTask, RunStart, RunDone, RunFails, RunHandoff, RunCancelled
<1>2. CASE \E j : Leave(s, j)
  BY <1>1, <1>2, LeaveKeeps
<1>3. CASE /\ \E p \in {"post", "handoff"} : runs' = [runs EXCEPT ![s].pc = p]
           /\ UNCHANGED << job, handle, leased, walk, machineVars >>
  <2>1. PICK p \in {"post", "handoff"} : runs' = [runs EXCEPT ![s] = [runs[s] EXCEPT !.pc = p]]
    BY <1>3
  <2>2. runs' = [r \in Voices |-> runs'[r]] /\ \A r \in Voices \ {s} : runs'[r] = runs[r]
    BY <2>1 DEF LanesInv, TasksOK
  <2>3. Whole(runs[s]) /\ \A r \in Voices : runs[r].pc # "none" => Whole(runs[r])
    BY <1>1 DEF LanesInv, TasksOK
  <2>4. runs'[s] = [pc |-> p, b |-> runs[s].b, i |-> runs[s].i, cancel |-> runs[s].cancel]
    BY <2>1, <2>3 DEF LanesInv, TasksOK, Whole
  <2>5. runs'[s].b = runs[s].b /\ runs'[s].i = runs[s].i /\ Whole(runs'[s])
    BY <2>4 DEF Whole
  <2>6. \A r \in Voices : Continues(runs[r], runs'[r])
    BY <1>1, <2>2, <2>3, <2>5 DEF Continues
  <2> QED BY <1>3, <2>2, <2>6, TaskChanges DEF machineVars
<1>4. CASE /\ runs' = [runs EXCEPT ![s] = NoRun]
           /\ UNCHANGED << job, handle, leased, walk, machineVars >>
  <2>1. /\ runs' = [r \in Voices |-> runs'[r]]
        /\ \A r \in Voices : runs'[r] = IF r = s THEN NoRun ELSE runs[r]
    BY <1>4 DEF LanesInv, TasksOK
  <2>2. \A r \in Voices : Continues(runs[r], runs'[r])
    BY <2>1, NoTask DEF LanesInv, TasksOK, Continues
  <2> QED BY <1>4, <2>1, <2>2, TaskChanges DEF machineVars
<1>5. CASE RunStart(s)
  BY <1>2, <1>3, <1>5 DEF RunStart, TransportFailure
<1>6. CASE RunDone(s)
  BY <1>2, <1>6 DEF RunDone
<1>7. CASE RunFails(s)
  BY <1>2, <1>3, <1>7 DEF RunFails, TransportFailure
<1>8. CASE RunHandoff(s)
  BY <1>2, <1>8 DEF RunHandoff
<1>9. CASE RunCancelled(s)
  BY <1>2, <1>4, <1>9 DEF RunCancelled
<1> QED BY <1>5, <1>6, <1>7, <1>8, <1>9 DEF TranscriptionTask

LEMMA WalkKeeps == LanesInv /\ TranscriptionWalk /\ UNCHANGED << chatVars, disturbances >> => LanesInv'
<1> SUFFICES ASSUME LanesInv, TranscriptionWalk, UNCHANGED << chatVars, disturbances >> PROVE LanesInv'
  OBVIOUS
<1>1. UNCHANGED << asks, engaged, round >> /\ RoundOK'
  BY DEF chatVars, LanesInv, RoundOK
<1>2. CASE \E b \in Jobs : DispatchExpire(b)
  BY <1>1, <1>2, Untouched DEF DispatchExpire, machineVars, LanesInv, WalkOK
<1>3. CASE \E b \in Jobs : DispatchPick(b)
  <2>1. PICK b \in Jobs : DispatchPick(b)
    BY <1>3
  <2>2. WalkOK'
    BY <2>1 DEF DispatchPick, WalkOK, Queued
  <2> QED BY <1>1, <2>1, <2>2, Untouched DEF DispatchPick, machineVars
<1>4. CASE \E s \in Voices : DispatchLook(s)
  <2>1. PICK s \in Voices : DispatchLook(s)
    BY <1>4
  <2>2. WalkOK'
    BY <2>1 DEF DispatchLook, LanesInv, WalkOK, Candidate
  <2> QED BY <1>1, <2>1, <2>2, Untouched DEF DispatchLook, machineVars
<1>5. CASE DispatchExhausted \/ DispatchList
  <2>1. WalkOK'
    BY <1>5, NoTask DEF DispatchExhausted, DispatchList, LanesInv, WalkOK
  <2> QED BY <1>1, <1>5, <2>1, Untouched DEF DispatchExhausted, DispatchList, machineVars
<1>6. CASE DispatchAsk({m \in Machines : ChatWork(m)})
  <2>1. walk.pc = "ask" /\ walk.b \in Jobs /\ walk.i \in Chapters /\ walk.s \in Voices
        /\ Candidate(walk)
    BY <1>6 DEF DispatchAsk, LanesInv, WalkOK
  <2>2. walk' = [walk EXCEPT !.pc = "admit"]
        \/ walk' = [pc |-> "look", b |-> walk.b, i |-> walk.i, left |-> walk.left]
    BY <1>6 DEF DispatchAsk, Skip
  <2>3. WalkOK'
    BY <2>1, <2>2 DEF WalkOK, Candidate
  <2> QED BY <1>1, <1>6, <2>3, Untouched DEF DispatchAsk, machineVars
<1>7. CASE DispatchStart
  BY <1>7, StartKeeps
<1>8. CASE DispatchBlocked
  <2>1. WalkOK'
    BY <1>8 DEF DispatchBlocked, Skip, LanesInv, WalkOK
  <2> QED BY <1>1, <1>8, <2>1, Untouched DEF DispatchBlocked
<1>9. CASE DispatchLost
  <2>1. WalkOK'
    BY <1>9 DEF DispatchLost, Skip, LanesInv, WalkOK
  <2> QED BY <1>1, <1>9, <2>1, Untouched DEF DispatchLost, machineVars
<1> QED BY <1>2, <1>3, <1>4, <1>5, <1>6, <1>7, <1>8, <1>9 DEF TranscriptionWalk

LEMMA TranscriptionClockKeeps ==
  ASSUME LanesInv, TranscriptionClock, UNCHANGED chatVars
  PROVE  LanesInv'
<1>1. UNCHANGED << runs, asks, lease, media, leased, engaged, walk, round >>
  BY DEF TranscriptionClock, CreateBatch, RenewLease, AvoidanceEnds, chatVars, machineVars
<1> QED BY <1>1, Untouched DEF LanesInv, WalkOK, RoundOK

LEMMA TranscriptionDisturbedKeeps ==
  ASSUME LanesInv, TranscriptionDisturbed, UNCHANGED chatVars
  PROVE  LanesInv'
<1>1. CASE UNCHANGED << runs, lease, media, leased, walk >>
  BY <1>1, Untouched DEF chatVars, LanesInv, WalkOK, RoundOK
<1>2. CASE \E b \in Jobs : CancelBatch(b)
  <2>1. PICK b \in Jobs : CancelBatch(b)
    BY <1>2
  <2>2. /\ runs' = [s \in Voices |-> runs'[s]]
        /\ \A s \in Voices : \/ runs'[s] = runs[s]
                             \/ runs[s].pc # "none" /\ runs'[s] = [runs[s] EXCEPT !.cancel = TRUE]
    BY <2>1 DEF CancelBatch
  <2>3. \A s \in Voices : Continues(runs[s], runs'[s])
    BY <2>2 DEF LanesInv, TasksOK, Whole, Continues
  <2> QED BY <2>1, <2>2, <2>3, TaskChanges DEF CancelBatch, machineVars
<1> QED BY <1>1, <1>2 DEF TranscriptionDisturbed, LeaseLapses, RetryBatch, CleanupBatch, RemoveBatch, machineVars

-----------------------------------------------------------------------------
(* The same for the Chat lane. *)
LEMMA FinishKeeps ==
  ASSUME LanesInv, NEW s \in Writers, asks[s].pc # "none", NEW j, Finish(s, j), UNCHANGED transcriptionVars
  PROVE  LanesInv'
<1> DEFINE o == PackOwner(asks[s].b, asks[s].i)
<1>1. /\ lease' = [lease EXCEPT ![WriterHost[s]] = IF @ = o THEN Nobody ELSE @]
      /\ asks' = [asks EXCEPT ![s] = NoAsk]
      /\ engaged' = engaged \ {s}
      /\ round' = round /\ media' = media
      /\ runs' = runs /\ leased' = leased /\ walk' = walk
  BY DEF Finish, Release, transcriptionVars
<1>2. /\ \A r \in Writers : asks'[r] = IF r = s THEN NoAsk ELSE asks[r]
      /\ \A m \in Machines : lease'[m] = IF m = WriterHost[s] /\ lease[m] = o THEN Nobody ELSE lease[m]
  BY <1>1, ChatAssumption DEF LanesInv, TasksOK, LeasesOK
<1>3. RoundOK' /\ WalkOK'
  BY <1>1 DEF LanesInv, RoundOK, WalkOK
<1>4. TasksOK' /\ LeasesOK'
  BY <1>1, <1>2, NoTask DEF LanesInv, TasksOK, LeasesOK
<1>5. OneTaskPerMac'
  BY <1>1, <1>2, NoTask DEF LanesInv, OneTaskPerMac
<1>6. LeaseBacksTask'
  <2>1. ASSUME NEW r \in Writers, asks'[r].pc # "none"
        PROVE  lease'[WriterHost[r]] = PackOwner(asks'[r].b, asks'[r].i) /\ r \in engaged'
    <3>1. r # s /\ asks'[r] = asks[r] /\ WriterHost[r] # WriterHost[s] /\ WriterHost[r] \in Machines
      BY <1>2, <2>1, NoTask, ChatAssumption DEF LanesInv, OneTaskPerMac
    <3> QED BY <1>1, <1>2, <2>1, <3>1 DEF LanesInv, LeaseBacksTask
  <2>2. ASSUME NEW r \in Voices, runs'[r].pc # "none"
        PROVE  lease'[HostOf[r]] = Owner(runs'[r].b, runs'[r].i) /\ r \in leased'
    <3>1. lease[HostOf[r]] = Owner(runs[r].b, runs[r].i) /\ r \in leased /\ HostOf[r] \in Machines
      BY <1>1, <2>2, TranscriptionAssumption DEF LanesInv, LeaseBacksTask
    <3>2. lease[HostOf[r]] # o
      BY <3>1, DifferentLanes
    <3> QED BY <1>1, <1>2, <3>1, <3>2
  <2>3. \A m \in Machines : media'[m] = "busy" => lease'[m] = Nobody
    BY <1>1, <1>2 DEF LanesInv, LeaseBacksTask
  <2> QED BY <2>1, <2>2, <2>3 DEF LeaseBacksTask
<1> QED BY <1>3, <1>4, <1>5, <1>6 DEF LanesInv

LEMMA AskChanges ==
  ASSUME LanesInv, asks' = [s \in Writers |-> asks'[s]],
         \A s \in Writers : Continues(asks[s], asks'[s]),
         UNCHANGED << transcriptionVars, lease, media, engaged, round >>
  PROVE  LanesInv'
<1>1. UNCHANGED << runs, leased, walk >>
  BY DEF transcriptionVars
<1>2. RoundOK' /\ WalkOK' /\ TasksOK' /\ LeasesOK'
  BY <1>1 DEF LanesInv, RoundOK, WalkOK, TasksOK, LeasesOK, Continues
<1>3. OneTaskPerMac' /\ LeaseBacksTask'
  BY <1>1 DEF Continues, LanesInv, OneTaskPerMac, LeaseBacksTask
<1> QED BY <1>2, <1>3 DEF LanesInv

LEMMA AskKeeps ==
  ASSUME LanesInv, NEW s \in Writers, ChatTask(s), UNCHANGED transcriptionVars
  PROVE  LanesInv'
<1>1. asks[s].pc # "none"
  BY DEF ChatTask, AskStart, AskAnswered, AskFails, AskHandoff, AskCancelled
<1>2. CASE \E j : Finish(s, j)
  BY <1>1, <1>2, FinishKeeps
<1>3. CASE /\ \E p \in {"post", "handoff"} : asks' = [asks EXCEPT ![s].pc = p]
           /\ UNCHANGED << talk, packHandle, engaged, round, machineVars >>
  <2>1. PICK p \in {"post", "handoff"} : asks' = [asks EXCEPT ![s] = [asks[s] EXCEPT !.pc = p]]
    BY <1>3
  <2>2. asks' = [r \in Writers |-> asks'[r]] /\ \A r \in Writers \ {s} : asks'[r] = asks[r]
    BY <2>1 DEF LanesInv, TasksOK
  <2>3. Whole(asks[s]) /\ \A r \in Writers : asks[r].pc # "none" => Whole(asks[r])
    BY <1>1 DEF LanesInv, TasksOK
  <2>4. asks'[s] = [pc |-> p, b |-> asks[s].b, i |-> asks[s].i, cancel |-> asks[s].cancel]
    BY <2>1, <2>3 DEF LanesInv, TasksOK, Whole
  <2>5. asks'[s].b = asks[s].b /\ asks'[s].i = asks[s].i /\ Whole(asks'[s])
    BY <2>4 DEF Whole
  <2>6. \A r \in Writers : Continues(asks[r], asks'[r])
    BY <1>1, <2>2, <2>3, <2>5 DEF Continues
  <2> QED BY <1>3, <2>2, <2>6, AskChanges DEF machineVars
<1>4. CASE /\ asks' = [asks EXCEPT ![s] = NoAsk]
           /\ UNCHANGED << talk, packHandle, engaged, round, machineVars >>
  <2>1. /\ asks' = [r \in Writers |-> asks'[r]]
        /\ \A r \in Writers : asks'[r] = IF r = s THEN NoAsk ELSE asks[r]
    BY <1>4 DEF LanesInv, TasksOK
  <2>2. \A r \in Writers : Continues(asks[r], asks'[r])
    BY <2>1, NoTask DEF LanesInv, TasksOK, Continues
  <2> QED BY <1>4, <2>1, <2>2, AskChanges DEF machineVars
<1>5. CASE AskStart(s)
  BY <1>2, <1>3, <1>5 DEF AskStart
<1>6. CASE AskAnswered(s)
  BY <1>2, <1>6 DEF AskAnswered
<1>7. CASE AskFails(s)
  BY <1>2, <1>3, <1>7 DEF AskFails
<1>8. CASE AskHandoff(s)
  BY <1>2, <1>8 DEF AskHandoff
<1>9. CASE AskCancelled(s)
  BY <1>2, <1>4, <1>9 DEF AskCancelled
<1> QED BY <1>5, <1>6, <1>7, <1>8, <1>9 DEF ChatTask

LEMMA RoundKeeps == LanesInv /\ ChatRound /\ UNCHANGED << transcriptionVars, disturbances >> => LanesInv'
<1> SUFFICES ASSUME LanesInv, ChatRound, UNCHANGED << transcriptionVars, disturbances >> PROVE LanesInv'
  OBVIOUS
<1>1. UNCHANGED << runs, leased, walk >> /\ WalkOK'
  BY DEF transcriptionVars, LanesInv, WalkOK
<1>2. CASE \E b \in Talks : RoundExpire(b)
  BY <1>1, <1>2, Untouched DEF RoundExpire, machineVars, LanesInv, RoundOK
<1>3. CASE \E b \in Talks : RoundPick(b)
  <2>1. PICK b \in Talks : RoundPick(b)
    BY <1>3
  <2>2. RoundOK'
    BY <2>1 DEF RoundPick, RoundOK, Due
  <2> QED BY <1>1, <2>1, <2>2, Untouched DEF RoundPick, machineVars
<1>4. CASE \E s \in Writers : RoundLook(s)
  <2>1. PICK s \in Writers : RoundLook(s)
    BY <1>4
  <2>2. RoundOK'
    BY <2>1 DEF RoundLook, LanesInv, RoundOK, Candidate
  <2> QED BY <1>1, <2>1, <2>2, Untouched DEF RoundLook, machineVars
<1>5. CASE RoundExhausted \/ RoundList
  <2>1. RoundOK'
    BY <1>5, NoTask DEF RoundExhausted, RoundList, LanesInv, RoundOK
  <2> QED BY <1>1, <1>5, <2>1, Untouched DEF RoundExhausted, RoundList, machineVars
<1>6. CASE RoundAsk({m \in Machines : TranscriptionWork(m)})
  <2>1. round.pc = "ask" /\ round.b \in Talks /\ round.i \in Packs /\ round.s \in Writers
        /\ Candidate(round)
    BY <1>6 DEF RoundAsk, LanesInv, RoundOK
  <2>2. round' = [round EXCEPT !.pc = "admit"]
        \/ round' = [pc |-> "look", b |-> round.b, i |-> round.i, left |-> round.left]
    BY <1>6 DEF RoundAsk, NextWriter
  <2>3. RoundOK'
    BY <2>1, <2>2 DEF RoundOK, Candidate
  <2> QED BY <1>1, <1>6, <2>3, Untouched DEF RoundAsk, machineVars
<1>7. CASE RoundStart
  BY <1>7, RoundStartKeeps
<1>8. CASE RoundBlocked
  <2>1. RoundOK'
    BY <1>8 DEF RoundBlocked, NextWriter, LanesInv, RoundOK
  <2> QED BY <1>1, <1>8, <2>1, Untouched DEF RoundBlocked
<1>9. CASE RoundLost
  <2>1. RoundOK'
    BY <1>9 DEF RoundLost, NextWriter, LanesInv, RoundOK
  <2> QED BY <1>1, <1>9, <2>1, Untouched DEF RoundLost, machineVars
<1> QED BY <1>2, <1>3, <1>4, <1>5, <1>6, <1>7, <1>8, <1>9 DEF ChatRound

LEMMA ChatClockKeeps ==
  ASSUME LanesInv, ChatClock, UNCHANGED transcriptionVars
  PROVE  LanesInv'
<1>1. UNCHANGED << asks, runs, lease, media, engaged, leased, round, walk >>
  BY DEF ChatClock, CreateTalk, RenewTalk, DelayEnds, transcriptionVars, machineVars
<1> QED BY <1>1, Untouched DEF LanesInv, RoundOK, WalkOK

LEMMA ChatDisturbedKeeps ==
  ASSUME LanesInv, ChatDisturbed, UNCHANGED transcriptionVars
  PROVE  LanesInv'
<1>1. CASE UNCHANGED << asks, lease, media, engaged, round >>
  BY <1>1, Untouched DEF transcriptionVars, LanesInv, RoundOK, WalkOK
<1>2. CASE \E b \in Talks : CancelTalk(b)
  <2>1. PICK b \in Talks : CancelTalk(b)
    BY <1>2
  <2>2. asks' = [s \in Writers |->
             IF \E i \in Packs : packHandle[b][i] = s /\ talk[b].packs[i].state = "running"
                                 /\ asks[s].pc # "none"
             THEN [asks[s] EXCEPT !.cancel = TRUE] ELSE asks[s]]
    BY <2>1 DEF CancelTalk
  <2>3. asks' = [s \in Writers |-> asks'[s]]
    BY <2>2
  <2>4. \A s \in Writers : asks'[s] # asks[s] =>
             asks[s].pc # "none" /\ asks'[s] = [asks[s] EXCEPT !.cancel = TRUE]
    BY <2>2
  <2>5. \A s \in Writers : Continues(asks[s], asks'[s])
    BY <2>4 DEF LanesInv, TasksOK, Whole, Continues
  <2> QED BY <2>1, <2>3, <2>5, AskChanges DEF CancelTalk, machineVars
<1> QED BY <1>1, <1>2 DEF ChatDisturbed, TalkLapses, RetryTalk, RemoveTalk, machineVars

-----------------------------------------------------------------------------
LEMMA HubKeeps ==
  ASSUME LanesInv, HubClock \/ HubDisturbed, UNCHANGED << transcriptionVars, chatVars >>
  PROVE  LanesInv'
<1>1. UNCHANGED << runs, leased, walk, asks, engaged, round >> /\ WalkOK' /\ RoundOK'
  BY DEF transcriptionVars, chatVars, LanesInv, WalkOK, RoundOK
<1>2. CASE UNCHANGED << lease, media >>
  BY <1>1, <1>2, Untouched
<1>3. CASE \E m \in Machines : media' = [media EXCEPT ![m] = "idle"] /\ lease' = lease
  BY <1>1, <1>3 DEF LanesInv, TasksOK, LeasesOK, OneTaskPerMac, LeaseBacksTask
<1>4. CASE \E m \in Machines : /\ ~MachineBusy(m) /\ lease' = lease
                               /\ \E u \in {"render waits", "busy"} : media' = [media EXCEPT ![m] = u]
  BY <1>1, <1>4 DEF LanesInv, TasksOK, LeasesOK, OneTaskPerMac, LeaseBacksTask, MachineBusy
<1>5. CASE \E m \in Machines : media' = [media EXCEPT ![m] = "render waits"] /\ lease' = lease
  BY <1>1, <1>5 DEF LanesInv, TasksOK, LeasesOK, OneTaskPerMac, LeaseBacksTask
<1>6. CASE HubClock
  <2>1. CASE \E m \in Machines : CooldownEnds(m)
    BY <1>2, <2>1 DEF CooldownEnds
  <2>2. CASE \E s \in Maintained : GiveBack(s)
    BY <1>2, <2>2 DEF GiveBack
  <2>3. CASE \E m \in Rendering : MediaTakes(m)
    BY <1>4, <2>3, RenderingAssumption DEF MediaTakes
  <2>4. CASE \E m \in Rendering : MediaLeaves(m)
    BY <1>3, <2>4, RenderingAssumption DEF MediaLeaves
  <2> QED BY <1>6, <2>1, <2>2, <2>3, <2>4 DEF HubClock
<1>7. CASE HubDisturbed
  <2>1. CASE \E s \in Maintained : Withdraw(s)
    BY <1>2, <2>1 DEF Withdraw
  <2>2. CASE \E m \in Rendering : RenderWaits(m)
    BY <1>5, <2>2, RenderingAssumption DEF RenderWaits
  <2> QED BY <1>7, <2>1, <2>2 DEF HubDisturbed
<1> QED BY <1>6, <1>7

LEMMA RestartKeeps == LanesInv /\ Restart => LanesInv'
<1> SUFFICES ASSUME LanesInv, Restart PROVE LanesInv'
  OBVIOUS
<1>1. /\ runs' = [s \in Voices |-> NoRun] /\ asks' = [s \in Writers |-> NoAsk]
      /\ walk' = NoWalk /\ round' = NoRound
      /\ lease' = [m \in Machines |-> Nobody] /\ media' = [m \in Machines |-> "idle"]
  BY DEF Restart, TranscriptionRestart, ChatRestart
<1>2. WalkOK' /\ RoundOK'
  BY <1>1, NoTask DEF WalkOK, RoundOK
<1>3. /\ \A s \in Voices : runs'[s].pc = "none"
      /\ \A s \in Writers : asks'[s].pc = "none"
  BY <1>1, NoTask
<1>4. TasksOK' /\ LeasesOK' /\ OneTaskPerMac' /\ LeaseBacksTask'
  BY <1>1, <1>3 DEF TasksOK, LeasesOK, OneTaskPerMac, LeaseBacksTask
<1> QED BY <1>2, <1>4 DEF LanesInv

LEMMA NextKeeps == LanesInv /\ [Next]_vars => LanesInv'
<1> SUFFICES ASSUME LanesInv, [Next]_vars PROVE LanesInv'
  OBVIOUS
<1>1. CASE TranscriptionStep /\ UNCHANGED << chatVars, disturbances >>
  BY <1>1, TaskKeeps, WalkKeeps, TranscriptionClockKeeps DEF TranscriptionStep
<1>2. CASE ChatStep /\ UNCHANGED << transcriptionVars, disturbances >>
  BY <1>2, AskKeeps, RoundKeeps, ChatClockKeeps DEF ChatStep
<1>3. CASE (HubClock \/ HubDisturbed) /\ UNCHANGED << transcriptionVars, chatVars >>
  BY <1>3, HubKeeps
<1>4. CASE TranscriptionDisturbed /\ UNCHANGED chatVars
  BY <1>4, TranscriptionDisturbedKeeps
<1>5. CASE ChatDisturbed /\ UNCHANGED transcriptionVars
  BY <1>5, ChatDisturbedKeeps
<1>6. CASE Restart
  BY <1>6, RestartKeeps
<1>7. CASE UNCHANGED vars
  BY <1>7, Untouched DEF vars, machineVars, transcriptionVars, chatVars, LanesInv, WalkOK, RoundOK
<1> QED BY <1>1, <1>2, <1>3, <1>4, <1>5, <1>6, <1>7 DEF Next

(* Whatever is cancelled, expired, retried, removed, drained or restarted,  *)
(* a task of either lane that still runs owns the lease of its Mac, and the *)
(* broker runs nothing there (acquire_external_machine, _run_item and       *)
(* _run_pack).                                                              *)
THEOREM LaneExclusion == Spec => []LeaseBacksTask
<1>1. LanesInv => LeaseBacksTask
  BY DEF LanesInv
<1> QED BY <1>1, InitInv, NextKeeps, PTL DEF Spec

-----------------------------------------------------------------------------
(* The packs of the Chat lane.  OneAskPerPack needs the pack of a running   *)
(* task to be one that no walk can pick and no retry can queue (PackHeld),  *)
(* and the pack the walk has picked to be without a task although the walk  *)
(* does not look at it again when it starts one (RoundApart).               *)
PackStates == {"queued", "running"} \cup PackTerminal
PackRecords == [state : PackStates, tries : Nat, results : SUBSET Scenes, waiting : BOOLEAN]
TalkRecords == [listed : BOOLEAN, stored : BOOLEAN, cancelled : BOOLEAN,
                lease : {"none", "valid", "lapsed", "late renewal"}, packs : [Packs -> PackRecords]]
PinnedStates == {"running", "cancelled"}

TalksOK == talk = [b \in Talks |-> talk[b]] /\ \A b \in Talks : talk[b] = NoTalk \/ talk[b] \in TalkRecords
PackHeld ==
    \A s \in Writers : asks[s].pc # "none" =>
        talk[asks[s].b] \in TalkRecords /\ talk[asks[s].b].packs[asks[s].i].state \in PinnedStates
RoundApart ==
    round.pc # "idle" =>
        /\ talk[round.b] \in TalkRecords
        /\ \A s \in Writers : asks[s].pc # "none" => asks[s].b # round.b \/ asks[s].i # round.i
PacksInv == LanesInv /\ TalksOK /\ PackHeld /\ RoundApart /\ OneAskPerPack

(* What a step may do with a batch: results only grow, and the packs in I  *)
(* stay out of reach of the walk and of a retry.                            *)
Grows(t, u) == u \in TalkRecords /\ \A i \in Packs : t.packs[i].results \subseteq u.packs[i].results
Steady(t, u, I) == \A i \in I : t.packs[i].state \in PinnedStates => u.packs[i].state \in PinnedStates
Kept ==
    \A b \in Talks, i \in Packs :
        talk[b] \in TalkRecords /\ talk'[b] \in TalkRecords
            => talk[b].packs[i].results \subseteq talk'[b].packs[i].results

LEMMA PackFields ==
  ASSUME NEW p \in PackRecords
  PROVE  /\ p.state \in PackStates /\ p.tries \in Nat /\ p.results \in SUBSET Scenes
         /\ p.waiting \in BOOLEAN
         /\ p = [state |-> p.state, tries |-> p.tries, results |-> p.results, waiting |-> p.waiting]
  BY DEF PackRecords

LEMMA TalkFields ==
  ASSUME NEW t \in TalkRecords
  PROVE  /\ t.packs \in [Packs -> PackRecords] /\ \A i \in Packs : t.packs[i] \in PackRecords
         /\ t.listed \in BOOLEAN /\ t.stored \in BOOLEAN /\ t.cancelled \in BOOLEAN
  BY DEF TalkRecords

(* The fields a step assigns. *)
LEMMA WithPacks ==
  ASSUME NEW t \in TalkRecords, NEW f \in [Packs -> PackRecords]
  PROVE  [t EXCEPT !.packs = f] \in TalkRecords /\ [t EXCEPT !.packs = f].packs = f
  BY DEF TalkRecords

LEMMA WithFlags ==
  ASSUME NEW t \in TalkRecords, NEW x \in BOOLEAN
  PROVE  /\ [t EXCEPT !.stored = x] \in TalkRecords /\ [t EXCEPT !.stored = x].packs = t.packs
         /\ [t EXCEPT !.listed = x] \in TalkRecords /\ [t EXCEPT !.listed = x].packs = t.packs
         /\ [t EXCEPT !.cancelled = x] \in TalkRecords /\ [t EXCEPT !.cancelled = x].packs = t.packs
  BY DEF TalkRecords

LEMMA WithLease ==
  ASSUME NEW t \in TalkRecords, NEW l \in {"none", "valid", "lapsed", "late renewal"}
  PROVE  [t EXCEPT !.lease = l] \in TalkRecords /\ [t EXCEPT !.lease = l].packs = t.packs
  BY DEF TalkRecords

LEMMA PackUpdates ==
  ASSUME NEW p \in PackRecords
  PROVE  /\ \A st \in PackStates : /\ [p EXCEPT !.state = st] \in PackRecords
                                   /\ [p EXCEPT !.state = st].state = st
                                   /\ [p EXCEPT !.state = st].results = p.results
         /\ \A n \in Nat : /\ [p EXCEPT !.tries = n] \in PackRecords
                           /\ [p EXCEPT !.tries = n].state = p.state
                           /\ [p EXCEPT !.tries = n].results = p.results
         /\ \A w \in BOOLEAN : /\ [p EXCEPT !.waiting = w] \in PackRecords
                               /\ [p EXCEPT !.waiting = w].state = p.state
                               /\ [p EXCEPT !.waiting = w].results = p.results
         /\ \A R \in SUBSET Scenes : /\ [p EXCEPT !.results = R] \in PackRecords
                                     /\ [p EXCEPT !.results = R].state = p.state
                                     /\ [p EXCEPT !.results = R].results = R
  BY DEF PackRecords

LEMMA NoTalkFields == NoTalk \notin TalkRecords /\ ~NoTalk.listed /\ ~NoTalk.stored
<1>1. ASSUME NoTalk \in TalkRecords PROVE FALSE
  <2>1. "packs" \in DOMAIN NoTalk
    BY <1>1 DEF TalkRecords
  <2> QED BY <2>1 DEF NoTalk
<1> QED BY <1>1 DEF NoTalk

(* _expire_genstudio_batch keeps what was gathered and cancels the rest. *)
LEMMA ExpiredGrows ==
  ASSUME NEW t \in TalkRecords
  PROVE  Grows(t, ExpiredTalk(t)) /\ Steady(t, ExpiredTalk(t), Packs)
<1> DEFINE c(i) == IF t.packs[i].state \in {"queued", "running"}
                   THEN [t.packs[i] EXCEPT !.state = "cancelled", !.waiting = FALSE] ELSE t.packs[i]
           f == [i \in Packs |-> c(i)]
           u == [t EXCEPT !.cancelled = TRUE]
<1>1. \A i \in Packs : /\ c(i) \in PackRecords /\ c(i).results = t.packs[i].results
                       /\ t.packs[i].state \in PinnedStates => c(i).state \in PinnedStates
  <2> TAKE i \in Packs
  <2>1. t.packs[i] \in PackRecords
    BY TalkFields
  <2>2. t.packs[i].state \notin {"queued", "running"} => c(i) = t.packs[i]
    OBVIOUS
  <2>3. CASE t.packs[i].state \in {"queued", "running"}
    <3> DEFINE d == [t.packs[i] EXCEPT !.state = "cancelled"]
    <3>1. c(i) = [d EXCEPT !.waiting = FALSE]
      BY <2>1, <2>3 DEF PackRecords
    <3>2. "cancelled" \in PackStates /\ "cancelled" \in PinnedStates
      BY DEF PackStates, PackTerminal, PinnedStates
    <3>3. d \in PackRecords /\ d.state = "cancelled" /\ d.results = t.packs[i].results
      BY <2>1, <3>2, PackUpdates
    <3> HIDE DEF c, d
    <3>4. /\ [d EXCEPT !.waiting = FALSE] \in PackRecords
          /\ [d EXCEPT !.waiting = FALSE].state = d.state /\ [d EXCEPT !.waiting = FALSE].results = d.results
      <4>1. FALSE \in BOOLEAN
        BY Zenon
      <4> QED BY <3>3, <4>1, PackUpdates
    <3> QED BY <3>1, <3>2, <3>3, <3>4
  <2> QED BY <2>1, <2>2, <2>3
<1>2. ExpiredTalk(t) = [u EXCEPT !.packs = f]
  BY DEF ExpiredTalk, TalkRecords
<1> HIDE DEF c
<1>3. f \in [Packs -> PackRecords] /\ \A i \in Packs : f[i] = c(i)
  BY <1>1
<1>4. u \in TalkRecords
  BY WithFlags
<1> HIDE DEF f, u
<1>5. ExpiredTalk(t) \in TalkRecords /\ ExpiredTalk(t).packs = f
  BY <1>2, <1>3, <1>4, WithPacks
<1> QED BY <1>1, <1>3, <1>5 DEF Grows, Steady


LEMMA ReachesPack ==
  ASSUME LanesInv, TalksOK
  PROVE  /\ \A s \in Writers : asks[s].pc # "none" => asks[s].b \in Talks /\ asks[s].i \in Packs
         /\ round.pc # "idle" => round.b \in Talks /\ round.i \in Packs
         /\ \A b \in Talks : Present(b) => talk[b] \in TalkRecords
  BY NoTalkFields DEF LanesInv, TasksOK, RoundOK, TalksOK, Present

(* A step starts no task, and takes no held pack within reach. *)
LEMMA Moves ==
  ASSUME PacksInv, LanesInv', RoundApart', talk' = [b \in Talks |-> talk'[b]],
         \A b \in Talks : talk'[b] # talk[b] =>
             talk'[b] \in TalkRecords /\ (talk[b] \in TalkRecords => Grows(talk[b], talk'[b])),
         \A s \in Writers : asks'[s].pc # "none" =>
             /\ asks[s].pc # "none" /\ asks'[s].b = asks[s].b /\ asks'[s].i = asks[s].i
             /\ talk'[asks[s].b] # talk[asks[s].b] => Steady(talk[asks[s].b], talk'[asks[s].b], {asks[s].i})
  PROVE  PacksInv' /\ Kept
<1>1. TalksOK'
  BY DEF PacksInv, TalksOK
<1>2. PackHeld'
  BY ReachesPack DEF PacksInv, PackHeld, Grows, Steady
<1>3. OneAskPerPack'
  BY DEF PacksInv, OneAskPerPack
<1>4. Kept
  BY DEF Kept, Grows, PacksInv, TalksOK
<1> QED BY <1>1, <1>2, <1>3, <1>4 DEF PacksInv

LEMMA RoundStays ==
  ASSUME PacksInv,
         \A b \in Talks : talk'[b] # talk[b] => talk'[b] \in TalkRecords,
         \A s \in Writers : asks'[s].pc # "none" =>
             asks[s].pc # "none" /\ asks'[s].b = asks[s].b /\ asks'[s].i = asks[s].i,
         round'.pc # "idle" => round.pc # "idle" /\ round'.b = round.b /\ round'.i = round.i
  PROVE  RoundApart'
  BY ReachesPack DEF PacksInv, RoundApart

LEMMA SameTalks ==
  ASSUME PacksInv, LanesInv', RoundApart', talk' = talk,
         \A s \in Writers : asks'[s].pc # "none" =>
             asks[s].pc # "none" /\ asks'[s].b = asks[s].b /\ asks'[s].i = asks[s].i
  PROVE  PacksInv' /\ Kept
  BY Moves DEF PacksInv, TalksOK

(* One batch changes. *)
LEMMA OneBatch ==
  ASSUME PacksInv, LanesInv', NEW b \in Talks, NEW u, talk' = [talk EXCEPT ![b] = u],
         u \in TalkRecords, talk[b] \in TalkRecords => Grows(talk[b], u),
         \A s \in Writers : asks'[s].pc # "none" =>
             /\ asks[s].pc # "none" /\ asks'[s].b = asks[s].b /\ asks'[s].i = asks[s].i
             /\ asks[s].b = b => Steady(talk[b], u, {asks[s].i}),
         round' = round
  PROVE  PacksInv' /\ Kept
<1>1. /\ talk' = [c \in Talks |-> talk'[c]] /\ talk'[b] = u
      /\ \A c \in Talks : c # b => talk'[c] = talk[c]
  BY DEF PacksInv, TalksOK
<1>2. \A c \in Talks : talk'[c] # talk[c] =>
          talk'[c] \in TalkRecords /\ (talk[c] \in TalkRecords => Grows(talk[c], talk'[c]))
  BY <1>1
<1>3. RoundApart'
  BY <1>2, RoundStays
<1>4. \A s \in Writers : asks'[s].pc # "none" =>
          /\ asks[s].pc # "none" /\ asks'[s].b = asks[s].b /\ asks'[s].i = asks[s].i
          /\ talk'[asks[s].b] # talk[asks[s].b] => Steady(talk[asks[s].b], talk'[asks[s].b], {asks[s].i})
  BY <1>1, ReachesPack DEF PacksInv
<1> QED BY <1>1, <1>2, <1>3, <1>4, Moves

(* One batch changes, with no held pack taken within reach. *)
LEMMA SteadyBatch ==
  ASSUME PacksInv, LanesInv', NEW b \in Talks, NEW u, talk' = [talk EXCEPT ![b] = u],
         talk[b] \in TalkRecords, Grows(talk[b], u), Steady(talk[b], u, Packs),
         \A s \in Writers : asks'[s].pc # "none" =>
             asks[s].pc # "none" /\ asks'[s].b = asks[s].b /\ asks'[s].i = asks[s].i,
         round' = round
  PROVE  PacksInv' /\ Kept
<1>1. \A s \in Writers : asks'[s].pc # "none" =>
          /\ asks[s].pc # "none" /\ asks'[s].b = asks[s].b /\ asks'[s].i = asks[s].i
          /\ asks[s].b = b => Steady(talk[b], u, {asks[s].i})
  BY ReachesPack DEF PacksInv, Steady
<1>2. u \in TalkRecords
  BY DEF Grows
<1> QED BY <1>1, <1>2, OneBatch

LEMMA ChatClockPacks ==
  ASSUME PacksInv, LanesInv', ChatClock
  PROVE  PacksInv' /\ Kept
<1>1. asks' = asks /\ round' = round
  BY DEF ChatClock, CreateTalk, RenewTalk, DelayEnds
<1>2. ASSUME NEW b \in Talks, CreateTalk(b) PROVE PacksInv' /\ Kept
  <2> DEFINE u == [listed |-> TRUE, stored |-> TRUE, cancelled |-> FALSE,
                   lease |-> IF b \in Fenced THEN "valid" ELSE "none",
                   packs |-> [i \in Packs |-> NewPack]]
  <2>1. talk[b] = NoTalk /\ talk' = [talk EXCEPT ![b] = u]
    BY <1>2 DEF CreateTalk
  <2>2. NewPack \in PackRecords
    BY DEF NewPack, PackRecords, PackStates
  <2>3. u \in TalkRecords
    BY <2>2 DEF TalkRecords
  <2>4. talk[b] \notin TalkRecords /\ \A s \in Writers : asks[s].pc # "none" => asks[s].b # b
    BY <2>1, NoTalkFields DEF PacksInv, PackHeld
  <2> HIDE DEF u
  <2> QED BY <1>1, <2>1, <2>3, <2>4, OneBatch
<1>3. ASSUME NEW b \in Talks, RenewTalk(b) PROVE PacksInv' /\ Kept
  <2> DEFINE t == talk[b]
             v == [t EXCEPT !.lease = "valid"]
             w == [v EXCEPT !.listed = TRUE]
             u == [w EXCEPT !.stored = TRUE]
  <2>1. t \in TalkRecords
    BY <1>3, ReachesPack DEF RenewTalk, PacksInv
  <2>2. talk' = [talk EXCEPT ![b] = u]
    BY <1>3, <2>1 DEF RenewTalk, PacksInv, TalksOK, TalkRecords
  <2> HIDE DEF t
  <2>3. v \in TalkRecords /\ v.packs = t.packs
    BY <2>1, WithLease
  <2> HIDE DEF v
  <2>4. w \in TalkRecords /\ w.packs = t.packs
    BY <2>3, WithFlags
  <2> HIDE DEF w
  <2>5. u \in TalkRecords /\ u.packs = t.packs
    BY <2>4, WithFlags
  <2> HIDE DEF u
  <2>6. Grows(t, u) /\ Steady(t, u, Packs)
    BY <2>5 DEF Grows, Steady
  <2> QED BY <1>1, <2>1, <2>2, <2>6, SteadyBatch DEF t
<1>4. ASSUME NEW b \in Talks, NEW i \in Packs, DelayEnds(b, i) PROVE PacksInv' /\ Kept
  <2> DEFINE t == talk[b]
             p == [t.packs[i] EXCEPT !.waiting = FALSE]
             f == [t.packs EXCEPT ![i] = p]
             u == [t EXCEPT !.packs = f]
  <2>1. t \in TalkRecords
    BY <1>4, ReachesPack DEF DelayEnds, PacksInv
  <2>2. talk' = [talk EXCEPT ![b] = u]
    BY <1>4 DEF DelayEnds
  <2> HIDE DEF t
  <2>3. FALSE \in BOOLEAN
    BY Zenon
  <2>4. p \in PackRecords /\ p.state = t.packs[i].state /\ p.results = t.packs[i].results
    BY <2>1, <2>3, PackUpdates, TalkFields
  <2> HIDE DEF p
  <2>5. /\ f \in [Packs -> PackRecords]
        /\ \A k \in Packs : f[k].state = t.packs[k].state /\ f[k].results = t.packs[k].results
    BY <2>1, <2>4, TalkFields
  <2> HIDE DEF f
  <2>6. u \in TalkRecords /\ u.packs = f
    BY <2>1, <2>5, WithPacks
  <2> HIDE DEF u
  <2>7. Grows(t, u) /\ Steady(t, u, Packs)
    BY <2>5, <2>6 DEF Grows, Steady
  <2> QED BY <1>1, <2>1, <2>2, <2>7, SteadyBatch DEF t
<1> QED BY <1>2, <1>3, <1>4 DEF ChatClock


(* Cancelling, retrying or clearing a batch. *)
LEMMA ChatDisturbedPacks ==
  ASSUME PacksInv, LanesInv', ChatDisturbed
  PROVE  PacksInv' /\ Kept
<1>1. round' = round
  BY DEF ChatDisturbed, TalkLapses, CancelTalk, RetryTalk, RemoveTalk
<1>2. ASSUME NEW b \in Talks, TalkLapses(b) PROVE PacksInv' /\ Kept
  <2>1. talk[b] \in TalkRecords /\ asks' = asks
    BY <1>2, ReachesPack DEF TalkLapses, PacksInv
  <2>2. PICK l \in {"lapsed", "late renewal"} : talk' = [talk EXCEPT ![b] = [talk[b] EXCEPT !.lease = l]]
    BY <1>2 DEF TalkLapses
  <2> DEFINE u == [talk[b] EXCEPT !.lease = l]
  <2>3. u \in TalkRecords /\ u.packs = talk[b].packs
    BY <2>1, WithLease
  <2>4. talk' = [talk EXCEPT ![b] = u]
    BY <2>2
  <2> HIDE DEF u
  <2>5. Grows(talk[b], u) /\ Steady(talk[b], u, Packs)
    BY <2>3 DEF Grows, Steady
  <2> QED BY <1>1, <2>1, <2>4, <2>5, SteadyBatch
<1>3. ASSUME NEW b \in Talks, CancelTalk(b) PROVE PacksInv' /\ Kept
  <2> DEFINE t == talk[b]
             c(i) == IF t.packs[i].state = "queued" THEN [t.packs[i] EXCEPT !.state = "cancelled"] ELSE t.packs[i]
             f == [i \in Packs |-> c(i)]
             v == [t EXCEPT !.cancelled = TRUE]
             w == [v EXCEPT !.listed = TRUE]
             x == [w EXCEPT !.stored = TRUE]
             u == [x EXCEPT !.packs = f]
  <2>1. t \in TalkRecords
    BY <1>3, ReachesPack DEF CancelTalk, PacksInv
  <2>2. talk' = [talk EXCEPT ![b] = u]
    BY <1>3, <2>1 DEF CancelTalk, PacksInv, TalksOK, TalkRecords
  <2>3. asks' = [s \in Writers |->
             IF \E i \in Packs : packHandle[b][i] = s /\ talk[b].packs[i].state = "running"
                                 /\ asks[s].pc # "none"
             THEN [asks[s] EXCEPT !.cancel = TRUE] ELSE asks[s]]
    BY <1>3 DEF CancelTalk
  <2>4. \A s \in Writers : asks'[s] # asks[s] =>
             asks[s].pc # "none" /\ asks'[s] = [asks[s] EXCEPT !.cancel = TRUE]
    BY <2>3
  <2>5. \A s \in Writers : asks'[s].pc # "none" =>
             asks[s].pc # "none" /\ asks'[s].b = asks[s].b /\ asks'[s].i = asks[s].i
    BY <2>4 DEF PacksInv, LanesInv, TasksOK, Whole
  <2> HIDE DEF t
  <2>6. \A i \in Packs : /\ c(i) \in PackRecords /\ c(i).results = t.packs[i].results
                         /\ t.packs[i].state \in PinnedStates => c(i).state \in PinnedStates
    <3>1. "cancelled" \in PackStates /\ "cancelled" \in PinnedStates
      BY DEF PackStates, PackTerminal, PinnedStates
    <3> QED BY <2>1, <3>1, TalkFields, PackUpdates
  <2> HIDE DEF c
  <2>7. f \in [Packs -> PackRecords] /\ \A i \in Packs : f[i] = c(i)
    BY <2>6
  <2> HIDE DEF f
  <2>8. v \in TalkRecords
    BY <2>1, WithFlags
  <2> HIDE DEF v
  <2>9. w \in TalkRecords
    BY <2>8, WithFlags
  <2> HIDE DEF w
  <2>10. x \in TalkRecords
    BY <2>9, WithFlags
  <2> HIDE DEF x
  <2>11. u \in TalkRecords /\ u.packs = f
    BY <2>7, <2>10, WithPacks
  <2> HIDE DEF u
  <2>12. Grows(t, u) /\ Steady(t, u, Packs)
    BY <2>6, <2>7, <2>11 DEF Grows, Steady
  <2> QED BY <1>1, <2>1, <2>2, <2>5, <2>12, SteadyBatch DEF t
<1>4. ASSUME NEW b \in Talks, RetryTalk(b) PROVE PacksInv' /\ Kept
  <2> DEFINE t == talk[b]
             c(i) == IF t.packs[i].state \in {"partial", "error"}
                     THEN [[[t.packs[i] EXCEPT !.state = "queued"] EXCEPT !.tries = 0] EXCEPT !.waiting = FALSE]
                     ELSE t.packs[i]
             f == [i \in Packs |-> c(i)]
             v == [t EXCEPT !.cancelled = FALSE]
             w == [v EXCEPT !.listed = TRUE]
             x == [w EXCEPT !.stored = TRUE]
             u == [x EXCEPT !.packs = f]
  <2>1. t \in TalkRecords /\ asks' = asks
    BY <1>4, ReachesPack DEF RetryTalk, PacksInv
  <2>2. talk' = [talk EXCEPT ![b] = u]
    <3>1. f = [i \in Packs |-> IF i \in RetriedPacks(b)
                 THEN [t.packs[i] EXCEPT !.state = "queued", !.tries = 0, !.waiting = FALSE] ELSE t.packs[i]]
      <4>1. \A i \in Packs : c(i) = IF i \in RetriedPacks(b)
                 THEN [t.packs[i] EXCEPT !.state = "queued", !.tries = 0, !.waiting = FALSE] ELSE t.packs[i]
        BY <2>1, TalkFields DEF RetriedPacks, PackRecords
      <4> HIDE DEF c
      <4> QED BY <4>1
    <3> HIDE DEF f
    <3> QED BY <1>4, <2>1, <3>1 DEF RetryTalk, PacksInv, TalksOK, TalkRecords
  <2> HIDE DEF t
  <2>6. \A i \in Packs : /\ c(i) \in PackRecords /\ c(i).results = t.packs[i].results
                         /\ t.packs[i].state \in PinnedStates => c(i) = t.packs[i]
    <3> TAKE i \in Packs
    <3>1. t.packs[i] \in PackRecords
      BY <2>1, TalkFields
    <3>2. "queued" \in PackStates /\ FALSE \in BOOLEAN
      <4>1. "queued" \in PackStates
        BY DEF PackStates
      <4>2. FALSE \in BOOLEAN
        BY Zenon
      <4> QED BY <4>1, <4>2
    <3> DEFINE p == [t.packs[i] EXCEPT !.state = "queued"]
               q == [p EXCEPT !.tries = 0]
               r == [q EXCEPT !.waiting = FALSE]
    <3>3. c(i) = IF t.packs[i].state \in {"partial", "error"} THEN r ELSE t.packs[i]
      OBVIOUS
    <3> HIDE DEF c
    <3>4. p \in PackRecords /\ p.results = t.packs[i].results
      BY <3>1, <3>2, PackUpdates
    <3> HIDE DEF p
    <3>5. q \in PackRecords /\ q.results = t.packs[i].results
      BY <3>4, PackUpdates
    <3> HIDE DEF q
    <3>6. r \in PackRecords /\ r.results = t.packs[i].results
      BY <3>5, <3>2, PackUpdates
    <3> HIDE DEF r
    <3> QED BY <3>1, <3>3, <3>6 DEF PinnedStates
  <2> HIDE DEF c
  <2>7. f \in [Packs -> PackRecords] /\ \A i \in Packs : f[i] = c(i)
    BY <2>6
  <2> HIDE DEF f
  <2>8. v \in TalkRecords
    BY <2>1, WithFlags
  <2> HIDE DEF v
  <2>9. w \in TalkRecords
    BY <2>8, WithFlags
  <2> HIDE DEF w
  <2>10. x \in TalkRecords
    BY <2>9, WithFlags
  <2> HIDE DEF x
  <2>11. u \in TalkRecords /\ u.packs = f
    BY <2>7, <2>10, WithPacks
  <2> HIDE DEF u
  <2>12. Grows(t, u) /\ Steady(t, u, Packs)
    BY <2>6, <2>7, <2>11 DEF Grows, Steady
  <2> QED BY <1>1, <2>1, <2>2, <2>12, SteadyBatch DEF t
<1>5. ASSUME NEW b \in Talks, RemoveTalk(b) PROVE PacksInv' /\ Kept
  <2> DEFINE t == talk[b]
             v == [t EXCEPT !.listed = FALSE]
             u == [v EXCEPT !.stored = FALSE]
  <2>1. t \in TalkRecords /\ asks' = asks
    BY <1>5, ReachesPack DEF RemoveTalk, PacksInv
  <2>2. talk' = [talk EXCEPT ![b] = u]
    BY <1>5, <2>1 DEF RemoveTalk, PacksInv, TalksOK, TalkRecords
  <2> HIDE DEF t
  <2>3. v \in TalkRecords /\ v.packs = t.packs
    BY <2>1, WithFlags
  <2> HIDE DEF v
  <2>4. u \in TalkRecords /\ u.packs = t.packs
    BY <2>3, WithFlags
  <2> HIDE DEF u
  <2>5. Grows(t, u) /\ Steady(t, u, Packs)
    BY <2>4 DEF Grows, Steady
  <2> QED BY <1>1, <2>1, <2>2, <2>5, SteadyBatch DEF t
<1> QED BY <1>2, <1>3, <1>4, <1>5 DEF ChatDisturbed


(* A task ends: what it writes to its own pack is its own business, since   *)
(* no other task has that pack.                                             *)
LEMMA FinishPacks ==
  ASSUME PacksInv, LanesInv', NEW s \in Writers, asks[s].pc # "none", NEW t, Finish(s, t),
         Grows(TheTalk(s), t), Steady(TheTalk(s), t, Packs \ {asks[s].i})
  PROVE  PacksInv' /\ Kept
<1> DEFINE b == asks[s].b
           u == [t EXCEPT !.stored = TRUE]
<1>1. /\ b \in Talks /\ talk[b] \in TalkRecords /\ TheTalk(s) = talk[b]
      /\ t \in TalkRecords
  BY ReachesPack DEF PacksInv, PackHeld, TheTalk, Grows
<1>2. /\ talk' = [talk EXCEPT ![b] = u]
      /\ asks' = [asks EXCEPT ![s] = NoAsk]
      /\ round' = round
  BY DEF Finish
<1>3. u \in TalkRecords /\ u.packs = t.packs
  BY <1>1, WithFlags
<1>4. \A r \in Writers : asks'[r] = IF r = s THEN NoAsk ELSE asks[r]
  BY <1>2 DEF PacksInv, LanesInv, TasksOK
<1> HIDE DEF u
<1>5. \A r \in Writers : asks'[r].pc # "none" =>
          /\ asks[r].pc # "none" /\ asks'[r].b = asks[r].b /\ asks'[r].i = asks[r].i
          /\ asks[r].b = b => Steady(talk[b], u, {asks[r].i})
  <2> TAKE r \in Writers
  <2> HAVE asks'[r].pc # "none"
  <2>1. r # s /\ asks'[r] = asks[r] /\ asks[r].pc # "none"
    BY <1>4, NoTask
  <2>2. asks[r].b = b => asks[r].i \in Packs \ {asks[s].i}
    BY <2>1, ReachesPack DEF PacksInv, OneAskPerPack
  <2> QED BY <1>1, <1>3, <2>1, <2>2 DEF Steady
<1>6. Grows(talk[b], u)
  BY <1>1, <1>3 DEF Grows
<1> HIDE DEF b
<1> QED BY <1>1, <1>2, <1>3, <1>5, <1>6, OneBatch

LEMMA WithPackGrows ==
  ASSUME PacksInv, NEW s \in Writers, asks[s].pc # "none",
         NEW p \in PackRecords, ThePack(s).results \subseteq p.results
  PROVE  Grows(TheTalk(s), WithPack(s, p)) /\ Steady(TheTalk(s), WithPack(s, p), Packs \ {asks[s].i})
<1> DEFINE t == TheTalk(s)
           i == asks[s].i
           f == [t.packs EXCEPT ![i] = p]
<1>1. t \in TalkRecords /\ i \in Packs /\ ThePack(s) = t.packs[i]
  BY ReachesPack DEF PacksInv, PackHeld, TheTalk, ThePack
<1>2. WithPack(s, p) = [t EXCEPT !.packs = f]
  BY DEF WithPack
<1> HIDE DEF t
<1>3. f \in [Packs -> PackRecords] /\ f[i] = p /\ \A k \in Packs \ {i} : f[k] = t.packs[k]
  BY <1>1, TalkFields
<1> HIDE DEF f
<1>4. [t EXCEPT !.packs = f] \in TalkRecords /\ [t EXCEPT !.packs = f].packs = f
  BY <1>1, <1>3, WithPacks
<1>5. Grows(t, [t EXCEPT !.packs = f]) /\ Steady(t, [t EXCEPT !.packs = f], Packs \ {i})
  BY <1>1, <1>3, <1>4 DEF Grows, Steady
<1> QED BY <1>2, <1>5 DEF t

LEMMA ItsPack ==
  ASSUME PacksInv, NEW s \in Writers, asks[s].pc # "none"
  PROVE  TheTalk(s) \in TalkRecords /\ ThePack(s) \in PackRecords
  BY ReachesPack, TalkFields DEF PacksInv, PackHeld, TheTalk, ThePack

LEMMA NamedStates == /\ "queued" \in PackStates /\ "done" \in PackStates /\ "partial" \in PackStates
                     /\ "error" \in PackStates /\ "cancelled" \in PackStates
  BY DEF PackStates, PackTerminal

LEMMA GaveUpPack ==
  ASSUME NEW p \in PackRecords
  PROVE  GaveUp(p) \in PackRecords /\ GaveUp(p).results = p.results
  BY PackUpdates, NamedStates DEF GaveUp

(* The next try keeps what was gathered, and so does giving up. *)
LEMMA FailedPack ==
  ASSUME PacksInv, NEW s \in Writers, asks[s].pc # "none",
         NEW p \in PackRecords, p.results = ThePack(s).results, NEW transient \in BOOLEAN
  PROVE  \E q \in PackRecords : q.results = p.results /\ PackFailed(s, p, transient) = WithPack(s, q)
<1> DEFINE v == [p EXCEPT !.state = "queued"]
           w == [v EXCEPT !.waiting = TRUE]
<1>1. v \in PackRecords /\ v.results = p.results
  BY PackUpdates, NamedStates
<1>2. w = [p EXCEPT !.state = "queued", !.waiting = TRUE]
  BY DEF PackRecords
<1> HIDE DEF v
<1>3. TRUE \in BOOLEAN
  BY Zenon
<1>4. w \in PackRecords /\ w.results = p.results
  BY <1>1, <1>3, PackUpdates
<1> HIDE DEF w
<1> QED BY <1>2, <1>4, GaveUpPack DEF PackFailed

LEMMA AskPacks ==
  ASSUME PacksInv, LanesInv', NEW s \in Writers, ChatTask(s)
  PROVE  PacksInv' /\ Kept
<1>1. asks[s].pc # "none"
  BY DEF ChatTask, AskStart, AskAnswered, AskFails, AskHandoff, AskCancelled
<1>2. ASSUME NEW q \in PackRecords, ThePack(s).results \subseteq q.results, Finish(s, WithPack(s, q))
      PROVE  PacksInv' /\ Kept
  BY <1>1, <1>2, WithPackGrows, FinishPacks
<1>3. CASE Finish(s, ExpiredTalk(TheTalk(s)))
  <2>1. Grows(TheTalk(s), ExpiredTalk(TheTalk(s))) /\ Steady(TheTalk(s), ExpiredTalk(TheTalk(s)), Packs)
    BY <1>1, ItsPack, ExpiredGrows
  <2>2. Steady(TheTalk(s), ExpiredTalk(TheTalk(s)), Packs \ {asks[s].i})
    BY <2>1 DEF Steady
  <2> QED BY <1>1, <1>3, <2>1, <2>2, FinishPacks
<1>4. CASE Finish(s, TheTalk(s))
  <2>1. Grows(TheTalk(s), TheTalk(s)) /\ Steady(TheTalk(s), TheTalk(s), Packs \ {asks[s].i})
    BY <1>1, ItsPack DEF Grows, Steady
  <2> QED BY <1>1, <1>4, <2>1, FinishPacks
<1>5. ASSUME NEW p, p \in {"post", "handoff"}, asks' = [asks EXCEPT ![s].pc = p],
             UNCHANGED << talk, packHandle, engaged, round, machineVars >>
      PROVE  PacksInv' /\ Kept
  <2>1. \A r \in Writers : asks'[r].pc # "none" =>
            asks[r].pc # "none" /\ asks'[r].b = asks[r].b /\ asks'[r].i = asks[r].i
    BY <1>1, <1>5 DEF PacksInv, LanesInv, TasksOK, Whole
  <2>2. RoundApart'
    BY <1>5, <2>1, RoundStays
  <2> QED BY <1>5, <2>1, <2>2, SameTalks
<1>6. ASSUME asks' = [asks EXCEPT ![s] = NoAsk],
             UNCHANGED << talk, packHandle, engaged, round, machineVars >>
      PROVE  PacksInv' /\ Kept
  <2>1. \A r \in Writers : asks'[r].pc # "none" =>
            asks[r].pc # "none" /\ asks'[r].b = asks[r].b /\ asks'[r].i = asks[r].i
    BY <1>1, <1>6, NoTask DEF PacksInv, LanesInv, TasksOK
  <2>2. RoundApart'
    BY <1>6, <2>1, RoundStays
  <2> QED BY <1>6, <2>1, <2>2, SameTalks
<1> DEFINE p == ThePack(s)
<1>7. p \in PackRecords /\ TryBack(p.tries) \in Nat
  BY <1>1, ItsPack, PackFields DEF TryBack
<1>8. ASSUME AskStart(s) PROVE PacksInv' /\ Kept
  <2>1. CASE Finish(s, WithPack(s, [p EXCEPT !.state = "queued", !.tries = TryBack(@)]))
    <3> DEFINE v == [p EXCEPT !.state = "queued"]
               q == [v EXCEPT !.tries = TryBack(p.tries)]
    <3>1. q = [p EXCEPT !.state = "queued", !.tries = TryBack(@)]
      BY <1>7 DEF PackRecords
    <3>2. v \in PackRecords /\ v.results = p.results
      BY <1>7, PackUpdates, NamedStates
    <3>3. q \in PackRecords /\ q.results = p.results
      <4> HIDE DEF v, p
      <4> QED BY <1>7, <3>2, PackUpdates
    <3>4. Finish(s, WithPack(s, q)) /\ p.results \subseteq q.results
      BY <2>1, <3>1, <3>3
    <3> HIDE DEF q
    <3> QED BY <1>2, <3>3, <3>4
  <2> QED BY <1>3, <1>5, <1>8, <2>1 DEF AskStart
<1>9. ASSUME AskAnswered(s) PROVE PacksInv' /\ Kept
  <2>1. CASE ~Overdue(asks[s].b)
    <3>1. PICK got \in SUBSET (Scenes \ p.results) :
            LET a == [p EXCEPT !.results = @ \cup got] IN
            Finish(s, WithPack(s, CASE a.results = Scenes -> [a EXCEPT !.state = "done"]
                                    [] a.results # Scenes /\ Again(s, a) -> [a EXCEPT !.state = "queued"]
                                    [] OTHER -> GaveUp(a)))
      BY <1>9, <2>1 DEF AskAnswered
    <3> DEFINE R == p.results \cup got
               a == [p EXCEPT !.results = R]
               q == CASE a.results = Scenes -> [a EXCEPT !.state = "done"]
                      [] a.results # Scenes /\ Again(s, a) -> [a EXCEPT !.state = "queued"]
                      [] OTHER -> GaveUp(a)
    <3>2. R \in SUBSET Scenes
      BY <1>7, PackFields
    <3>3. Finish(s, WithPack(s, q))
      BY <3>1
    <3> HIDE DEF p
    <3>4. a \in PackRecords /\ a.results = R
      <4> HIDE DEF R
      <4> QED BY <1>7, <3>2, PackUpdates
    <3> HIDE DEF a
    <3>5. q \in PackRecords /\ q.results = R
      BY <3>4, PackUpdates, NamedStates, GaveUpPack
    <3> HIDE DEF q
    <3> QED BY <1>2, <3>3, <3>5 DEF p
  <2> QED BY <1>3, <1>9, <2>1 DEF AskAnswered
<1>10. ASSUME NEW a \in PackRecords, a.results = p.results, NEW transient \in BOOLEAN,
              Finish(s, PackFailed(s, a, transient))
       PROVE  PacksInv' /\ Kept
  BY <1>1, <1>2, <1>10, FailedPack
<1>11. ASSUME AskFails(s) PROVE PacksInv' /\ Kept
  BY <1>5, <1>7, <1>10, <1>11 DEF AskFails
<1>12. ASSUME AskHandoff(s) PROVE PacksInv' /\ Kept
  <2> DEFINE a == [p EXCEPT !.tries = TryBack(@)]
  <2>1. a \in PackRecords /\ a.results = p.results
    BY <1>7, PackUpdates
  <2>2. PICK transient \in BOOLEAN : Finish(s, PackFailed(s, a, transient))
    BY <1>12 DEF AskHandoff
  <2> HIDE DEF a
  <2> QED BY <1>10, <2>1, <2>2
<1>13. ASSUME AskCancelled(s) PROVE PacksInv' /\ Kept
  <2>1. CASE Finish(s, WithPack(s, [p EXCEPT !.state = "cancelled"]))
    <3>1. [p EXCEPT !.state = "cancelled"] \in PackRecords /\ [p EXCEPT !.state = "cancelled"].results = p.results
      BY <1>7, PackUpdates, NamedStates
    <3> QED BY <1>2, <2>1, <3>1
  <2> QED BY <1>1, <1>4, <1>6, <1>13, <2>1 DEF AskCancelled
<1> QED BY <1>8, <1>9, <1>11, <1>12, <1>13 DEF ChatTask


(* The walk starts a task for the pack it picked, which no task has. *)
LEMMA RoundStartPacks ==
  ASSUME PacksInv, LanesInv', RoundStart
  PROVE  PacksInv' /\ Kept
<1> DEFINE b == round.b
           i == round.i
           s == round.s
           t == talk[b]
           v == [t.packs[i] EXCEPT !.state = "running"]
           w == [v EXCEPT !.waiting = FALSE]
           p == [w EXCEPT !.tries = w.tries + 1]
           f == [t.packs EXCEPT ![i] = p]
           x == [t EXCEPT !.packs = f]
           u == [x EXCEPT !.stored = TRUE]
           new == [pc |-> "created", b |-> b, i |-> i, cancel |-> FALSE]
<1>1. /\ round.pc # "idle" /\ s \in Writers /\ b \in Talks /\ i \in Packs /\ t \in TalkRecords
      /\ t.packs[i] \in PackRecords
  BY TalkFields DEF RoundStart, PacksInv, LanesInv, RoundOK, RoundApart
<1>2. /\ asks' = [asks EXCEPT ![s] = new]
      /\ round' = NoRound
  BY DEF RoundStart
<1>3. talk' = [talk EXCEPT ![b] = u]
  <2>1. p = [t.packs[i] EXCEPT !.state = "running", !.waiting = FALSE, !.tries = @ + 1]
    BY <1>1 DEF PackRecords
  <2>2. u = [t EXCEPT !.packs[i].state = "running", !.packs[i].waiting = FALSE,
                      !.packs[i].tries = @ + 1, !.stored = TRUE]
    <3> DEFINE t1 == [t EXCEPT !.packs = [t.packs EXCEPT ![i] = v]]
               t2 == [t1 EXCEPT !.packs = [t1.packs EXCEPT ![i] = [t1.packs[i] EXCEPT !.waiting = FALSE]]]
               t3 == [t2 EXCEPT !.packs = [t2.packs EXCEPT ![i] = [t2.packs[i] EXCEPT !.tries = t2.packs[i].tries + 1]]]
    <3>1. [t3 EXCEPT !.stored = TRUE]
              = [t EXCEPT !.packs[i].state = "running", !.packs[i].waiting = FALSE,
                          !.packs[i].tries = @ + 1, !.stored = TRUE]
      BY <1>1, Zenon DEF PackRecords
    <3> HIDE DEF t
    <3>2. t1.packs = [t.packs EXCEPT ![i] = v] /\ t1.packs[i] = v
      BY <1>1, TalkFields DEF TalkRecords
    <3>3. t2 = [t EXCEPT !.packs = [t.packs EXCEPT ![i] = w]]
      <4> HIDE DEF v
      <4> QED BY <1>1, <3>2, TalkFields DEF TalkRecords
    <3>4. t2.packs = [t.packs EXCEPT ![i] = w] /\ t2.packs[i] = w
      <4> HIDE DEF w, t2
      <4> QED BY <1>1, <3>3, TalkFields DEF TalkRecords
    <3>5. t3 = x
      <4> HIDE DEF w, t2
      <4> QED BY <1>1, <3>3, <3>4, TalkFields DEF TalkRecords
    <3> QED BY <3>1, <3>5 DEF t
  <2> QED BY <1>1, <2>2 DEF RoundStart, PacksInv, TalksOK, TalkRecords, PackRecords
<1> HIDE DEF t
<1>4. "running" \in PackStates /\ "running" \in PinnedStates
  BY DEF PackStates, PinnedStates
<1>5. v \in PackRecords /\ v.state = "running" /\ v.results = t.packs[i].results
  BY <1>1, <1>4, PackUpdates
<1> HIDE DEF v
<1>6. w \in PackRecords /\ w.state = "running" /\ w.results = t.packs[i].results
  <2>1. FALSE \in BOOLEAN
    BY Zenon
  <2> QED BY <1>5, <2>1, PackUpdates
<1> HIDE DEF w
<1>7. p \in PackRecords /\ p.state = "running" /\ p.results = t.packs[i].results
  <2>1. w.tries + 1 \in Nat
    BY <1>6, PackFields
  <2> QED BY <1>6, <2>1, PackUpdates
<1> HIDE DEF p
<1>8. f \in [Packs -> PackRecords] /\ f[i] = p /\ \A k \in Packs \ {i} : f[k] = t.packs[k]
  BY <1>1, <1>7, TalkFields
<1> HIDE DEF f
<1>9. x \in TalkRecords /\ x.packs = f
  BY <1>1, <1>8, WithPacks
<1> HIDE DEF x
<1>10. u \in TalkRecords /\ u.packs = f
  BY <1>9, WithFlags
<1> HIDE DEF u
<1>11. new.pc = "created" /\ new.b = b /\ new.i = i
  OBVIOUS
<1> HIDE DEF new
<1>12. \A r \in Writers : asks'[r] = IF r = s THEN new ELSE asks[r]
  BY <1>1, <1>2 DEF PacksInv, LanesInv, TasksOK
<1>13. /\ talk' = [c \in Talks |-> talk'[c]] /\ talk'[b] = u
       /\ \A c \in Talks : c # b => talk'[c] = talk[c]
  BY <1>1, <1>3 DEF PacksInv, TalksOK
<1>14. TalksOK'
  BY <1>10, <1>13 DEF PacksInv, TalksOK
<1>15. \A r \in Writers : r # s /\ asks[r].pc # "none" => asks[r].b # b \/ asks[r].i # i
  BY <1>1 DEF PacksInv, RoundApart
<1>16. PackHeld'
  <2> SUFFICES ASSUME NEW r \in Writers, asks'[r].pc # "none"
               PROVE  talk'[asks'[r].b] \in TalkRecords /\ talk'[asks'[r].b].packs[asks'[r].i].state \in PinnedStates
    BY DEF PackHeld
  <2>1. CASE r = s
    BY <1>4, <1>7, <1>8, <1>10, <1>11, <1>12, <1>13, <2>1
  <2>2. CASE r # s
    <3>1. /\ asks'[r] = asks[r] /\ asks[r].b \in Talks /\ asks[r].i \in Packs
          /\ talk[asks[r].b] \in TalkRecords /\ talk[asks[r].b].packs[asks[r].i].state \in PinnedStates
      BY <1>12, <2>2, ReachesPack DEF PacksInv, PackHeld
    <3>2. CASE asks[r].b # b
      BY <1>13, <3>1, <3>2
    <3>3. CASE asks[r].b = b
      <4>1. asks[r].i # i
        BY <1>15, <2>2, <3>1, <3>3
      <4>2. talk'[b].packs[asks[r].i] = t.packs[asks[r].i]
        BY <1>8, <1>10, <1>13, <3>1, <4>1
      <4> QED BY <1>10, <1>13, <3>1, <3>3, <4>2 DEF t
    <3> QED BY <3>2, <3>3
  <2> QED BY <2>1, <2>2
<1>17. OneAskPerPack'
  BY <1>11, <1>12, <1>15 DEF PacksInv, OneAskPerPack
<1>18. RoundApart'
  BY <1>2, NoTask DEF RoundApart
<1>19. Kept
  <2> SUFFICES ASSUME NEW c \in Talks, NEW k \in Packs
               PROVE  talk[c].packs[k].results \subseteq talk'[c].packs[k].results
    BY DEF Kept
  <2>1. CASE c # b
    BY <1>13, <2>1
  <2>2. CASE c = b
    BY <1>7, <1>8, <1>10, <1>13, <2>2 DEF t
  <2> QED BY <2>1, <2>2
<1> QED BY <1>14, <1>16, <1>17, <1>18 , <1>19 DEF PacksInv

(* The pack the walk picks is queued, so no task has it. *)
LEMMA RoundPacks ==
  ASSUME PacksInv, LanesInv', ChatRound
  PROVE  PacksInv' /\ Kept
<1>1. ASSUME NEW b \in Talks, RoundExpire(b) PROVE PacksInv' /\ Kept
  <2> DEFINE e == ExpiredTalk(talk[b])
             u == [e EXCEPT !.stored = TRUE]
  <2>1. talk[b] \in TalkRecords
    BY <1>1, ReachesPack DEF RoundExpire, Open, Present, PacksInv
  <2>2. Grows(talk[b], e) /\ Steady(talk[b], e, Packs)
    BY <2>1, ExpiredGrows
  <2>3. talk' = [talk EXCEPT ![b] = u] /\ asks' = asks /\ round' = round
    BY <1>1 DEF RoundExpire
  <2> HIDE DEF e
  <2>4. u \in TalkRecords /\ u.packs = e.packs
    BY <2>2, WithFlags DEF Grows
  <2> HIDE DEF u
  <2>5. Grows(talk[b], u) /\ Steady(talk[b], u, Packs)
    BY <2>2, <2>4 DEF Grows, Steady
  <2> QED BY <2>1, <2>3, <2>5, SteadyBatch
<1>2. ASSUME NEW b \in Talks, RoundPick(b) PROVE PacksInv' /\ Kept
  <2>1. PICK i \in Due(b) : round' = [pc |-> "list", b |-> b, i |-> i]
    BY <1>2 DEF RoundPick
  <2>2. talk' = talk /\ asks' = asks /\ talk[b] \in TalkRecords
    BY <1>2, ReachesPack DEF RoundPick, Open, Present, PacksInv
  <2>3. i \in Packs /\ talk[b].packs[i].state = "queued"
    BY <2>1 DEF Due
  <2>4. \A s \in Writers : asks[s].pc # "none" => asks[s].b # b \/ asks[s].i # i
    BY <2>3 DEF PacksInv, PackHeld, PinnedStates
  <2>5. RoundApart'
    BY <2>1, <2>2, <2>4 DEF RoundApart
  <2> QED BY <2>2, <2>5, SameTalks
<1>3. CASE RoundStart
  BY <1>3, RoundStartPacks
<1>4. ASSUME talk' = talk, asks' = asks,
             round'.pc # "idle" => round.pc # "idle" /\ round'.b = round.b /\ round'.i = round.i
      PROVE  PacksInv' /\ Kept
  <2>1. RoundApart'
    BY <1>4, RoundStays
  <2> QED BY <1>4, <2>1, SameTalks
<1>5. CASE RoundList \/ RoundExhausted \/ (\E s \in Writers : RoundLook(s))
  BY <1>4, <1>5, NoTask DEF RoundList, RoundExhausted, RoundLook
<1>6. CASE RoundAsk({m \in Machines : TranscriptionWork(m)})
  <2>1. talk' = talk /\ asks' = asks /\ round.pc = "ask" /\ Candidate(round)
    BY <1>6 DEF RoundAsk, PacksInv, LanesInv, RoundOK
  <2>2. round' = [round EXCEPT !.pc = "admit"]
        \/ round' = [pc |-> "look", b |-> round.b, i |-> round.i, left |-> round.left]
    BY <1>6 DEF RoundAsk, NextWriter
  <2>3. round'.b = round.b /\ round'.i = round.i
    BY <2>1, <2>2 DEF Candidate
  <2> QED BY <1>4, <2>1, <2>3
<1>7. CASE RoundBlocked \/ RoundLost
  BY <1>4, <1>7 DEF RoundBlocked, RoundLost, NextWriter
<1> QED BY <1>1, <1>2, <1>3, <1>5, <1>6, <1>7 DEF ChatRound

(* A shutdown or a crash, and the start that follows. *)
LEMMA StoppedGrows ==
  ASSUME NEW b \in Talks, talk[b] \in TalkRecords
  PROVE  Grows(talk[b], StoppedTalk(b))
<1> DEFINE t == talk[b]
           y == t.stored \/ \E s \in Writers : asks[s].pc \in {"post", "handoff"} /\ asks[s].b = b
           c(i) == IF \E s \in Writers : asks[s].pc = "post" /\ asks[s].b = b /\ asks[s].i = i
                   THEN [t.packs[i] EXCEPT !.state = IF t.cancelled THEN "cancelled" ELSE "queued"]
                   ELSE t.packs[i]
           f == [i \in Packs |-> c(i)]
           v == [t EXCEPT !.stored = y]
           u == [v EXCEPT !.packs = f]
<1>1. u = StoppedTalk(b)
  BY DEF StoppedTalk, TalkRecords
<1> HIDE DEF t
<1>2. \A i \in Packs : c(i) \in PackRecords /\ c(i).results = t.packs[i].results
  BY TalkFields, PackUpdates, NamedStates DEF t
<1> HIDE DEF c
<1>3. f \in [Packs -> PackRecords] /\ \A i \in Packs : f[i] = c(i)
  BY <1>2
<1> HIDE DEF f
<1>4. y \in BOOLEAN
  OBVIOUS
<1> HIDE DEF y
<1>5. v \in TalkRecords
  BY <1>4, WithFlags DEF t
<1> HIDE DEF v
<1>6. u \in TalkRecords /\ u.packs = f
  BY <1>3, <1>5, WithPacks
<1> HIDE DEF u
<1>7. Grows(t, u)
  BY <1>2, <1>3, <1>6 DEF Grows
<1> QED BY <1>1, <1>7 DEF t

LEMMA RestoredGrows ==
  ASSUME NEW t \in TalkRecords
  PROVE  RestoredTalk(t) = NoTalk \/ Grows(t, RestoredTalk(t))
<1>1. ASSUME NEW x \in BOOLEAN PROVE Grows(t, [t EXCEPT !.listed = x])
  BY WithFlags DEF Grows
<1>2. Grows(t, [ExpiredTalk(t) EXCEPT !.listed = TRUE])
  <2> DEFINE e == ExpiredTalk(t)
  <2>1. Grows(t, e)
    BY ExpiredGrows
  <2> HIDE DEF e
  <2>2. Grows(t, [e EXCEPT !.listed = TRUE])
    BY <2>1, WithFlags DEF Grows
  <2> QED BY <2>2 DEF e
<1> DEFINE c(i) == IF t.packs[i].state = "running"
                   THEN [[t.packs[i] EXCEPT !.state = "queued"] EXCEPT !.waiting = FALSE] ELSE t.packs[i]
           f == [i \in Packs |-> c(i)]
           v == [t EXCEPT !.listed = TRUE]
           u == [v EXCEPT !.packs = f]
<1>3. \A i \in Packs : c(i) = IF t.packs[i].state = "running"
                              THEN [t.packs[i] EXCEPT !.state = "queued", !.waiting = FALSE] ELSE t.packs[i]
  BY TalkFields DEF PackRecords
<1>4. u = [t EXCEPT !.listed = TRUE,
                    !.packs = [i \in Packs |-> IF @[i].state = "running"
                        THEN [@[i] EXCEPT !.state = "queued", !.waiting = FALSE] ELSE @[i]]]
  <2> HIDE DEF c
  <2> QED BY <1>3 DEF TalkRecords
<1>5. \A i \in Packs : c(i) \in PackRecords /\ c(i).results = t.packs[i].results
  <2> TAKE i \in Packs
  <2> DEFINE p == [t.packs[i] EXCEPT !.state = "queued"]
             q == [p EXCEPT !.waiting = FALSE]
  <2>1. p \in PackRecords /\ p.results = t.packs[i].results
    BY TalkFields, PackUpdates, NamedStates
  <2>2. FALSE \in BOOLEAN
    BY Zenon
  <2>3. c(i) = IF t.packs[i].state = "running" THEN q ELSE t.packs[i]
    OBVIOUS
  <2> HIDE DEF c, p
  <2>4. q \in PackRecords /\ q.results = t.packs[i].results
    BY <2>1, <2>2, PackUpdates
  <2> HIDE DEF q
  <2> QED BY <2>3, <2>4, TalkFields
<1> HIDE DEF c
<1>6. f \in [Packs -> PackRecords] /\ \A i \in Packs : f[i] = c(i)
  BY <1>5
<1> HIDE DEF f
<1>7. v \in TalkRecords
  BY WithFlags
<1> HIDE DEF v
<1>8. u \in TalkRecords /\ u.packs = f
  BY <1>6, <1>7, WithPacks
<1> HIDE DEF u
<1>9. Grows(t, u)
  BY <1>5, <1>6, <1>8 DEF Grows
<1>10. \/ RestoredTalk(t) = NoTalk \/ RestoredTalk(t) = [t EXCEPT !.listed = FALSE]
       \/ RestoredTalk(t) = [ExpiredTalk(t) EXCEPT !.listed = TRUE] \/ RestoredTalk(t) = u
  <2> DEFINE ended == \A i \in Packs : t.packs[i].state \in PackTerminal
  <2>1. RestoredTalk(t) = CASE ~t.stored -> NoTalk
                            [] t.stored /\ ended -> [t EXCEPT !.listed = FALSE]
                            [] OTHER -> IF t.lease \in {"lapsed", "late renewal"}
                                        THEN [ExpiredTalk(t) EXCEPT !.listed = TRUE] ELSE u
    BY <1>4 DEF RestoredTalk
  <2> HIDE DEF ended
  <2> QED BY <2>1
<1> QED BY <1>1, <1>2, <1>9, <1>10

LEMMA RestartPacks ==
  ASSUME PacksInv, LanesInv', Restart
  PROVE  PacksInv' /\ Kept
<1>1. PICK graceful \in BOOLEAN : ChatRestart(graceful)
  BY DEF Restart
<1>2. /\ \A s \in Writers : asks'[s].pc = "none"
      /\ round'.pc = "idle"
  BY <1>1, NoTask DEF ChatRestart
<1>3. /\ talk' = [b \in Talks |-> talk'[b]]
      /\ \A b \in Talks : talk'[b] = IF talk[b] = NoTalk THEN NoTalk
                                     ELSE RestoredTalk(IF graceful THEN StoppedTalk(b) ELSE talk[b])
  BY <1>1 DEF ChatRestart
<1>4. \A b \in Talks : talk'[b] = NoTalk \/ (talk[b] \in TalkRecords /\ Grows(talk[b], talk'[b]))
  <2> TAKE b \in Talks
  <2>1. CASE talk[b] = NoTalk
    BY <1>3, <2>1
  <2>2. CASE talk[b] # NoTalk
    <3> DEFINE t == IF graceful THEN StoppedTalk(b) ELSE talk[b]
    <3>1. talk[b] \in TalkRecords /\ talk'[b] = RestoredTalk(t)
      BY <1>3, <2>2 DEF PacksInv, TalksOK
    <3>2. Grows(talk[b], t)
      BY <3>1, StoppedGrows DEF Grows
    <3> HIDE DEF t
    <3>3. RestoredTalk(t) = NoTalk \/ Grows(t, RestoredTalk(t))
      BY <3>2, RestoredGrows DEF Grows
    <3> QED BY <3>1, <3>2, <3>3 DEF Grows
  <2> QED BY <2>1, <2>2
<1>5. TalksOK' /\ PackHeld' /\ RoundApart' /\ OneAskPerPack'
  BY <1>2, <1>3, <1>4 DEF TalksOK, PackHeld, RoundApart, OneAskPerPack, Grows
<1>6. Kept
  BY <1>4, NoTalkFields DEF Kept, Grows
<1> QED BY <1>5, <1>6 DEF PacksInv

LEMMA PacksStep == PacksInv /\ [Next]_vars => PacksInv' /\ Kept
<1> SUFFICES ASSUME PacksInv, [Next]_vars PROVE PacksInv' /\ Kept
  OBVIOUS
<1>1. LanesInv'
  BY NextKeeps DEF PacksInv
<1>2. CASE ChatStep
  BY <1>1, <1>2, AskPacks, RoundPacks, ChatClockPacks DEF ChatStep
<1>3. CASE ChatDisturbed
  BY <1>1, <1>3, ChatDisturbedPacks
<1>4. CASE Restart
  BY <1>1, <1>4, RestartPacks
<1>5. CASE UNCHANGED chatVars
  <2>1. talk' = talk /\ asks' = asks /\ round' = round
    BY <1>5 DEF chatVars
  <2>2. RoundApart'
    BY <2>1, RoundStays
  <2> QED BY <1>1, <2>1, <2>2, SameTalks
<1> QED BY <1>2, <1>3, <1>4, <1>5 DEF Next, vars

LEMMA InitPacks == Init => PacksInv
<1> SUFFICES ASSUME Init PROVE PacksInv
  OBVIOUS
<1>1. /\ \A s \in Writers : asks[s].pc = "none"
      /\ round.pc = "idle" /\ talk = [b \in Talks |-> NoTalk]
  BY NoTask DEF Init, ChatInit
<1>2. TalksOK /\ PackHeld /\ RoundApart /\ OneAskPerPack
  BY <1>1 DEF TalksOK, PackHeld, RoundApart, OneAskPerPack
<1> QED BY <1>2, InitInv DEF PacksInv

(* Through cancellations, lapsed leases, restarts and retries at any moment *)
(* of a walk, a pack is never asked of two Chat Studios at once             *)
(* (dispatch_once, which starts the pack it picked before its awaits, and   *)
(* retry_batch).                                                            *)
THEOREM PackAskedOnce == Spec => []OneAskPerPack
<1>1. PacksInv => OneAskPerPack
  BY DEF PacksInv
<1> QED BY <1>1, InitPacks, PacksStep, PTL DEF Spec

(* A scene result once obtained survives every later try, retry, expiry,    *)
(* cancellation and restart, until the ended batch is cleared (_run_pack,   *)
(* _expire_genstudio_batch, stop, restore_batches).                         *)
THEOREM ScenesSurvive == Spec => ScenesKept
<1>1. PacksInv /\ [Next]_vars =>
          [\A b \in Talks, i \in Packs :
              Present(b) /\ Present(b)' => talk[b].packs[i].results \subseteq talk'[b].packs[i].results]_vars
  <2> SUFFICES ASSUME PacksInv, [Next]_vars, NEW b \in Talks, NEW i \in Packs, Present(b), Present(b)'
               PROVE  talk[b].packs[i].results \subseteq talk'[b].packs[i].results
    OBVIOUS
  <2>1. PacksInv' /\ Kept
    BY PacksStep
  <2>2. talk[b] \in TalkRecords /\ talk'[b] \in TalkRecords
    BY <2>1, NoTalkFields DEF PacksInv, TalksOK, Present
  <2> QED BY <2>1, <2>2 DEF Kept
<1> QED BY <1>1, InitPacks, PacksStep, PTL DEF Spec, ScenesKept
=============================================================================
