------------------------ MODULE FleetMaintenanceProofs ------------------------
(* What holds of the maintenance of a Mac for any operations, commits, helpers *)
(* and troubles: the verdict on a managed operation is true of what the Mac    *)
(* runs and of its files, and the recovery of an operation that is open stays  *)
(* armed.                                                                      *)
(*                                                                             *)
(* At most one helper holds the lock (OneHolder), and everything else follows  *)
(* from what holds of that one: the open operation is the one it serves, with  *)
(* the rollback point it works from (Serves), and what it has taken back so    *)
(* far is back (Undid).  A step of anybody else leaves all this alone          *)
(* (OthersGood); a step of the helper at work is one of HolderGood.            *)
(* Last, whoever withdraws a Studio is there to give it back (SiteInv).        *)
EXTENDS FleetMaintenance, TLAPS

(* What the updater holds: the types of its record, of the Mac and of the      *)
(* helpers.                                                                    *)
Results == {"none", "succeeded", "failed"}
States == {"idle", "deferred", "updating", "draining", "failed", "checking", "available",
           "succeeded", "restarting"}
Modes == {"unknown", "stopped"} \cup Owners
Phases == {"admitted", "prepared", "stopping", "stopped", "merged", "verified", "restarting"}
Asks == Operations \cup {Plain}
ActiveSet == [op : Operations, phase : Phases, mode : Modes, origin : 0 .. MaxCommit]
StatusSet == [state : States, active : ActiveSet \cup {NoActive}, pending : BOOLEAN, rollback : Results,
              history : [Operations -> Results]]
HubSet == [up : BOOLEAN, loaded : Commits, owner : Owners, applying : {"no", "settings", "start"},
           checking : BOOLEAN]
CheckoutSet == [head : Commits, files : Commits]
(* Where a helper at work is: it takes the update back, it makes it.  It has  *)
(* looked at no commit before, and at both after.                             *)
Undoing == {"undo_stop", "undo_files", "undo_head", "undo_start", "undo_health"}
Doing == {"announce", "stop", "merge", "deps", "restart", "health"}
Holding == {"gate", "preflight", "fail", "reschedule"} \cup Doing \cup Undoing
Waiting == [pc : {"spawned", "due"}, op : Asks, auto : BOOLEAN]
Looking == [pc : {"tick", "check", "unschedule"}]
Ranges == [pc : Holding, op : Asks, auto : BOOLEAN, mode : Modes, old : 0 .. MaxCommit,
           new : 0 .. MaxCommit, undone : Results]
HolderSet == {w \in Ranges : /\ w.pc \in {"gate", "preflight"} => w.old = 0
                             /\ w.pc \in Doing \cup Undoing => w.old # 0 /\ w.new # 0}
HelperSet == {NoHelper} \cup Looking \cup Waiting \cup HolderSet

StatusTypes == status \in StatusSet /\ schedule \in BOOLEAN
MacTypes == checkout \in CheckoutSet /\ hub \in HubSet
HelperTypes == helpers \in [Helpers -> HelperSet]

(* A helper that holds the lock, alone *)
Holds(h) == helpers[h].pc \in Holding
OneHolder == \A h, k \in Helpers : Holds(h) /\ Holds(k) => h = k
(* The rollback point of an operation is not the commit it asks for. *)
Apart(a) == a # NoActive => a.origin # Target[a.op]
(* What the helper w serves: the open operation a, from its rollback point, or *)
(* from the commit asked for when there was nothing to change.                 *)
Serves(w, a) ==
    /\ a # NoActive /\ a.op = w.op /\ a.mode = w.mode
    /\ w.old # 0 => w.new = Target[w.op] /\ (a.origin = w.old \/ (a.origin = 0 /\ w.old = w.new))
    /\ w.pc \in Undoing => w.old # w.new
(* What the helper w has taken back of the files co, and of what the Mac runs: *)
(* all of it, when it says so; nothing, only when there is nothing.            *)
RunsOn(mac, commit) == mac.up /\ mac.loaded = commit
Back(co, w) == co.head = w.old /\ co.files = w.old
Undid(w, co, mac) ==
    /\ w.pc \notin {"fail", "reschedule"} => w.undone = "none"
    /\ w.pc = "fail" /\ w.undone = "none" => w.old \in {0, w.new}
    /\ w.pc = "undo_head" => co.files = w.old
    /\ w.pc \in {"undo_start", "undo_health"} => Back(co, w)
    /\ w.pc = "fail" /\ w.undone = "succeeded" => Back(co, w) /\ (w.mode # "stopped" => RunsOn(mac, w.old))
(* A helper that still owes a verdict on a managed operation *)
Busy(w) == w.pc \in Holding \ {"reschedule"} /\ w.op # Plain
WorkWell == \A h \in Helpers :
    Busy(helpers[h]) => Serves(helpers[h], status.active) /\ Undid(helpers[h], checkout, hub)
(* The inductive invariant *)
IInv == StatusTypes /\ MacTypes /\ HelperTypes /\ OneHolder /\ Apart(status.active) /\ WorkWell

-------------------------------------------------------------------------------
(* What a step keeps and shows, of a helper at work and of anybody else *)

(* What a step shows of the two properties. *)
Arms == \A op \in Operations : Unsettled(op)' => schedule' \/ Enters \/ (Unsettled(op) /\ ~schedule)
Honest == \A op \in Operations :
    /\ Becomes(op, "succeeded") => \/ Runs(Target[op])
                                   \/ status.active.mode = "stopped" /\ checkout.files = Target[op]
    /\ Becomes(op, "failed") /\ Origin # 0 =>
        \/ Unchecked \/ status'.rollback = "failed"
        \/ /\ Clean /\ checkout.head = Origin
           /\ status'.rollback = "succeeded" /\ status.active.mode # "stopped" => Runs(Origin)
Good == IInv' /\ Arms /\ Honest

(* The same operation is open, or none. *)
SameWork == (Open <=> Open') /\ status'.active.op = status.active.op /\ status'.history = status.history
LEMMA Steady == SameWork /\ (schedule' \/ schedule' = schedule \/ ~Open) => Arms /\ Honest
  BY DEF SameWork, Arms, Honest, Unsettled, Becomes

(* The kinds of helpers *)
LEMMA HelperFacts ==
    ASSUME HelperTypes, NEW h \in Helpers
    PROVE  /\ Holds(h) <=> helpers[h].pc \notin Unlocked
           /\ Holds(h) => helpers[h] \in HolderSet
           /\ helpers[h].pc \in {"spawned", "due"} => helpers[h] \in Waiting
           /\ helpers[h].pc \in {"tick", "check", "unschedule"} => helpers[h] \in Looking
           /\ Free(h) <=> helpers[h].pc = "none"
<1>1. helpers[h] \in HelperSet
  BY DEF HelperTypes
<1>2. CASE helpers[h] = NoHelper
  BY <1>2 DEF NoHelper, Holds, Free, Unlocked, Holding, Doing, Undoing
<1>3. CASE helpers[h] \in Looking
  BY <1>3 DEF NoHelper, Holds, Free, Unlocked, Holding, Doing, Undoing, Looking
<1>4. CASE helpers[h] \in Waiting
  BY <1>4 DEF NoHelper, Holds, Free, Unlocked, Holding, Doing, Undoing, Waiting
<1>5. CASE helpers[h] \in HolderSet
  BY <1>5 DEF NoHelper, Holds, Free, Unlocked, Holding, Doing, Undoing, HolderSet, Ranges
<1> QED BY <1>1, <1>2, <1>3, <1>4, <1>5 DEF HelperSet

LEMMA LockedFacts == HelperTypes => (Locked <=> \E h \in Helpers : Holds(h))
  BY HelperFacts DEF Locked

(* The Mac goes on as a helper at work may rely on. *)
MacGentle ==
    /\ checkout' = checkout /\ MacTypes'
    /\ Clean /\ RunsOn(hub, checkout.head) => RunsOn(hub', checkout.head)
(* A step of others than the helper at work *)
LEMMA OthersStep ==
    ASSUME IInv, StatusTypes', HelperTypes', Apart(status'.active), Open => status'.active = status.active,
           MacTypes',
           \A h \in Helpers : Holds(h)' => helpers'[h] = helpers[h] /\ MacGentle
    PROVE  IInv'
<1>1. OneHolder'
  BY DEF IInv, OneHolder, Holds
<1>2. ASSUME NEW h \in Helpers, Busy(helpers'[h])
      PROVE  Serves(helpers'[h], status'.active) /\ Undid(helpers'[h], checkout', hub')
  <2>1. helpers'[h] = helpers[h] /\ MacGentle
    BY <1>2 DEF Busy, Holds
  <2>2. Serves(helpers[h], status.active) /\ Undid(helpers[h], checkout, hub)
    BY <1>2, <2>1 DEF IInv, WorkWell
  <2>3. Open /\ status'.active = status.active
    BY <2>2 DEF Serves, Open
  <2>4. Undid(helpers[h], checkout', hub')
    BY <2>1, <2>2 DEF Undid, MacGentle, Back, RunsOn, Clean
  <2> QED BY <2>1, <2>2, <2>3, <2>4
<1> QED BY <1>1, <1>2 DEF IInv, WorkWell

(* A step of the helper at work *)
LEMMA HolderStep ==
    ASSUME IInv, NEW h \in Helpers, Holds(h), NEW w \in HolderSet, helpers' = [helpers EXCEPT ![h] = w],
           StatusTypes', MacTypes', Apart(status'.active),
           Busy(w) => Serves(w, status'.active) /\ Undid(w, checkout', hub')
    PROVE  IInv'
<1>1. HelperTypes' /\ \A k \in Helpers : helpers'[k] = IF k = h THEN w ELSE helpers[k]
  BY DEF IInv, HelperTypes, HelperSet
<1>2. \A k \in Helpers : Holds(k)' => k = h
  BY <1>1 DEF IInv, OneHolder, Holds
<1>3. OneHolder'
  BY <1>2 DEF OneHolder
<1>4. \A k \in Helpers : Busy(helpers'[k]) => k = h
  BY <1>2 DEF Busy, Holds
<1> QED BY <1>1, <1>3, <1>4 DEF IInv, WorkWell

-------------------------------------------------------------------------------
(* Updates of the records *)

(* One field at a time, an update keeps the status a status. *)
LEMMA StatusFields ==
    ASSUME NEW old \in StatusSet
    PROVE  /\ old.state \in States /\ old.active \in ActiveSet \cup {NoActive} /\ old.pending \in BOOLEAN
           /\ old.rollback \in Results /\ old.history \in [Operations -> Results]
           /\ \A x \in States : LET new == [old EXCEPT !.state = x] IN
                /\ new \in StatusSet /\ new.active = old.active /\ new.history = old.history
                   /\ new.rollback = old.rollback
                /\ new.pending = old.pending
           /\ \A x \in BOOLEAN : LET new == [old EXCEPT !.pending = x] IN
                /\ new \in StatusSet /\ new.active = old.active /\ new.history = old.history
                   /\ new.rollback = old.rollback
                /\ new.pending = x
           /\ \A x \in ActiveSet \cup {NoActive} : LET new == [old EXCEPT !.active = x] IN
                /\ new \in StatusSet /\ new.active = x /\ new.history = old.history
                   /\ new.rollback = old.rollback
                /\ new.pending = old.pending
           /\ \A x \in Results : LET new == [old EXCEPT !.rollback = x] IN
                /\ new \in StatusSet /\ new.active = old.active /\ new.history = old.history /\ new.rollback = x
                /\ new.pending = old.pending
           /\ \A x \in [Operations -> Results] : LET new == [old EXCEPT !.history = x] IN
                /\ new \in StatusSet /\ new.active = old.active /\ new.history = x
                   /\ new.rollback = old.rollback
                /\ new.pending = old.pending
  BY DEF StatusSet

(* ... and an operation an operation. *)
LEMMA ActiveFields ==
    ASSUME NEW a \in ActiveSet \cup {NoActive}, UpdaterAssumption
    PROVE  /\ a # NoActive => a \in ActiveSet
           /\ a = NoActive <=> a.op = Plain
           /\ \A x \in Phases : LET b == [a EXCEPT !.phase = x] IN
                /\ b \in ActiveSet \cup {NoActive} /\ (b = NoActive <=> a = NoActive)
                /\ b.op = a.op /\ (a # NoActive => b.mode = a.mode /\ b.origin = a.origin)
           /\ \A x \in 0 .. MaxCommit : LET b == [a EXCEPT !.origin = x] IN
                /\ b \in ActiveSet \cup {NoActive} /\ (b = NoActive <=> a = NoActive)
                /\ b.op = a.op /\ (a # NoActive => b.mode = a.mode /\ b.origin = x)
  BY DEF ActiveSet, NoActive, UpdaterAssumption

(* The status after a step that changes its state or its flag *)
SameActive == status'.active = status.active /\ status'.history = status.history
LEMMA SameActiveIs == SameActive => SameWork
  BY DEF SameActive, SameWork, Open
LEMMA Flagged ==
    ASSUME StatusTypes, NEW s \in States, NEW p \in BOOLEAN,
           \/ status' = status
           \/ status' = [status EXCEPT !.state = s] \/ status' = [status EXCEPT !.pending = p]
           \/ status' = [status EXCEPT !.state = s, !.pending = p]
           \/ status' = [status EXCEPT !.pending = p, !.state = s]
    PROVE  status' \in StatusSet /\ SameActive
<1>1. status \in StatusSet
  BY DEF StatusTypes
<1>2. CASE status' = status
  BY <1>1, <1>2 DEF SameActive
<1>3. CASE status' = [status EXCEPT !.state = s] \/ status' = [status EXCEPT !.pending = p]
  BY <1>1, <1>3 DEF SameActive, StatusSet
<1>4. CASE \/ status' = [status EXCEPT !.state = s, !.pending = p]
           \/ status' = [status EXCEPT !.pending = p, !.state = s]
  <2> DEFINE one == [status EXCEPT !.state = s]
  <2>1. one \in StatusSet /\ one.active = status.active /\ one.history = status.history
    BY <1>1, StatusFields
  <2> DEFINE two == [one EXCEPT !.pending = p]
  <2>2. two \in StatusSet /\ two.active = status.active /\ two.history = status.history
    BY <2>1 DEF StatusSet
  <2>3. status' = two
    BY <1>1, <1>4 DEF StatusSet
  <2> QED BY <2>2, <2>3 DEF SameActive
<1> QED BY <1>1, <1>2, <1>3, <1>4

(* A Hub that is replaced, started or ended is still a Hub. *)
LEMMA HubFields ==
    ASSUME MacTypes
    PROVE  /\ Up \in HubSet /\ Down \in HubSet /\ Up.up /\ Up.loaded = checkout.files /\ ActiveMode \in Modes
           /\ checkout.head \in Commits /\ checkout.files \in Commits
           /\ \A x \in {"no", "settings", "start"} : /\ [hub EXCEPT !.applying = x] \in HubSet
                                                     /\ [hub EXCEPT !.applying = x].up = hub.up
                                                     /\ [hub EXCEPT !.applying = x].loaded = hub.loaded
           /\ \A x \in BOOLEAN : /\ [hub EXCEPT !.checking = x] \in HubSet
                                 /\ [hub EXCEPT !.checking = x].up = hub.up
                                 /\ [hub EXCEPT !.checking = x].loaded = hub.loaded
<1>1. hub \in HubSet /\ checkout \in CheckoutSet
  BY DEF MacTypes
<1>2. hub.owner \in Owners /\ checkout.head \in Commits /\ checkout.files \in Commits
  BY <1>1 DEF HubSet, CheckoutSet
<1>3. Up \in HubSet /\ Down \in HubSet /\ Up.up /\ Up.loaded = checkout.files
  BY <1>1, <1>2 DEF Up, Down, HubSet
<1>4. ActiveMode \in Modes
  BY <1>2 DEF ActiveMode, Modes
<1> QED BY <1>1, <1>2, <1>3, <1>4 DEF HubSet

(* Files and Hub left alone *)
LEMMA Still ==
    ASSUME MacTypes, UNCHANGED << checkout, hub >>
    PROVE  MacGentle /\ MacTypes'
  BY DEF MacGentle, MacTypes, Clean, RunsOn

-------------------------------------------------------------------------------
(* A managed operation is admitted. *)

(* What a step of another leaves of the helper at work *)
HandsStay == HelperTypes' /\ \A k \in Helpers : Holds(k)' => helpers'[k] = helpers[k]
LEMMA NobodyMoves == HelperTypes /\ UNCHANGED helpers => HandsStay
  BY DEF HandsStay, HelperTypes
LEMMA Sets ==
    ASSUME HelperTypes, NEW h \in Helpers, NEW x \in HelperSet, x.pc \notin Holding,
           helpers' = [helpers EXCEPT ![h] = x]
    PROVE  HandsStay
  BY DEF HandsStay, HelperTypes, Holds
LEMMA NoHelperSet == NoHelper \in HelperSet /\ NoHelper.pc \notin Holding
  BY DEF HelperSet, NoHelper, Holding, Doing, Undoing
LEMMA Rests ==
    ASSUME HelperTypes, NEW h \in Helpers, Ends(h)
    PROVE  HandsStay
  BY Sets, NoHelperSet DEF Ends
LEMMA Queues ==
    ASSUME HelperTypes, NEW h \in Helpers, NEW op \in Asks, NEW auto \in BOOLEAN,
           Spawned(h, op) \/ Due(h, op, auto)
    PROVE  HandsStay
<1>1. PICK x \in Waiting : helpers' = [helpers EXCEPT ![h] = x]
  BY DEF Spawned, Due, Waiting
<1>2. x \in HelperSet /\ x.pc \notin Holding
  BY <1>1 DEF Waiting, HelperSet, Holding, Doing, Undoing
<1> QED BY <1>1, <1>2, Sets
LEMMA LooksOn ==
    ASSUME HelperTypes, NEW h \in Helpers, helpers[h].pc \in {"tick", "check", "unschedule"},
           NEW pc \in {"tick", "check", "unschedule"}, Stays(h, pc)
    PROVE  HandsStay
<1>1. helpers[h] \in Looking
  BY HelperFacts
<1>2. /\ [helpers[h] EXCEPT !.pc = pc] \in Looking
      /\ helpers' = [helpers EXCEPT ![h] = [helpers[h] EXCEPT !.pc = pc]]
  BY <1>1 DEF Looking, Stays, HelperTypes
<1>3. \A x \in Looking : x \in HelperSet /\ x.pc \notin Holding
  BY DEF Looking, HelperSet, Holding, Doing, Undoing
<1> QED BY <1>2, <1>3, Sets

(* A step of others than the helper at work, that only flags *)
LEMMA OthersGood ==
    ASSUME IInv, HandsStay, status' \in StatusSet, SameActive, schedule' \in BOOLEAN,
           schedule' \/ schedule' = schedule \/ ~Open, MacGentle
    PROVE  Good
<1>1. Apart(status'.active)
  BY DEF IInv, SameActive
<1>2. IInv'
  BY <1>1, OthersStep DEF HandsStay, SameActive, StatusTypes, MacGentle
<1> QED BY <1>2, Steady, SameActiveIs DEF Good

(* A managed operation is admitted, and its recovery armed. *)
LEMMA AdmissionFacts ==
    ASSUME UpdaterAssumption, StatusTypes, NEW op \in Operations, Accepts(op)
    PROVE  /\ Admission(op) \in ActiveSet /\ Admission(op).op = op
           /\ Open => Admission(op) = status.active
           /\ ~Open => Admission(op).origin = 0
<1>1. CASE Open
  <2>1. status.active \in ActiveSet /\ status.active.op = op
    BY <1>1, StatusFields DEF StatusTypes, Open, Accepts
  <2> QED BY <1>1, <2>1 DEF Admission
<1>2. CASE ~Open
  <2>1. Admission(op) = [op |-> op, phase |-> "admitted", mode |-> "unknown", origin |-> 0]
    BY <1>2 DEF Admission
  <2> QED BY <1>2, <2>1 DEF ActiveSet, Phases, Modes, UpdaterAssumption
<1> QED BY <1>1, <1>2

LEMMA Admitted ==
    ASSUME UpdaterAssumption, IInv, NEW op \in Operations, NEW s \in {"updating", "deferred"}, Accepts(op),
           schedule' = TRUE,
           status' = [status EXCEPT !.active = Admission(op), !.pending = TRUE, !.state = s],
           HandsStay, UNCHANGED << checkout, hub >>
    PROVE  Good
<1>1. status \in StatusSet /\ StatusTypes /\ MacTypes /\ Apart(status.active)
  BY DEF IInv, StatusTypes
<1>2. Admission(op) \in ActiveSet /\ (Open => Admission(op) = status.active)
      /\ (~Open => Admission(op).origin = 0)
      /\ Admission(op).op = op
  BY <1>1, AdmissionFacts
<1>3. status' \in StatusSet /\ status'.active = Admission(op)
  BY <1>1, <1>2 DEF StatusSet, States
<1>4. Apart(status'.active)
  BY <1>1, <1>2, <1>3 DEF Apart, Open, UpdaterAssumption
<1>5. MacGentle /\ MacTypes'
  BY <1>1, Still
<1>6. IInv'
  BY <1>2, <1>3, <1>4, <1>5, OthersStep DEF HandsStay, StatusTypes
<1>7. Open'
  BY <1>2, <1>3, ActiveFields DEF Open, ActiveSet, NoActive, UpdaterAssumption
<1> QED BY <1>6, <1>7 DEF Good, Arms, Honest, Becomes

LEMMA TriggerGood ==
    ASSUME UpdaterAssumption, IInv, NEW op \in Operations, NEW started \in BOOLEAN,
           TriggerManaged(op, started) \/ QueueManaged(op)
    PROVE  Good
<1>1. HelperTypes
  BY DEF IInv
<1>2. HandsStay
  <2>1. CASE UNCHANGED helpers
    BY <1>1, <2>1, NobodyMoves
  <2>2. CASE \E h \in Spawns : Spawned(h, op)
    BY <1>1, <2>2, Queues DEF Helpers, Asks
  <2> QED BY <2>1, <2>2 DEF TriggerManaged, QueueManaged
<1>3. /\ Accepts(op) /\ schedule' = TRUE /\ UNCHANGED << checkout, hub >>
      /\ \E s \in {"updating", "deferred"} : 
            status' = [status EXCEPT !.active = Admission(op), !.pending = TRUE, !.state = s]
  BY DEF TriggerManaged, QueueManaged
<1> QED BY <1>2, <1>3, Admitted

-------------------------------------------------------------------------------
(* Steps of the Hub, the schedule and people, that leave the work alone *)

LEMMA FlaggedGood ==
    ASSUME IInv, HandsStay, NEW s \in States, NEW p \in BOOLEAN,
           \/ status' = status
           \/ status' = [status EXCEPT !.state = s] \/ status' = [status EXCEPT !.pending = p]
           \/ status' = [status EXCEPT !.state = s, !.pending = p]
           \/ status' = [status EXCEPT !.pending = p, !.state = s],
           schedule' \in BOOLEAN, schedule' \/ schedule' = schedule \/ ~Open, MacGentle
    PROVE  Good
  BY Flagged, OthersGood DEF IInv

LEMMA PlainGood ==
    ASSUME UpdaterAssumption, IInv,
           \/ \E h \in Spawns : TriggerPlain(h) \/ DrainEmpty(h)
           \/ TriggerDrained \/ DrainTimesOut \/ \E settled \in BOOLEAN : DrainOver(settled)
    PROVE  Good
<1>1. HelperTypes /\ MacTypes /\ schedule \in BOOLEAN
  BY DEF IInv, StatusTypes
<1>2. UNCHANGED << schedule, checkout, hub >>
  BY DEF TriggerPlain, DrainEmpty, TriggerDrained, DrainTimesOut, DrainOver
<1>3. HandsStay
  <2>1. CASE UNCHANGED helpers
    BY <1>1, <2>1, NobodyMoves
  <2>2. CASE \E h \in Spawns : Spawned(h, Plain)
    BY <1>1, <2>2, Queues DEF Helpers, Asks
  <2> QED BY <2>1, <2>2 DEF TriggerPlain, DrainEmpty, TriggerDrained, DrainTimesOut, DrainOver
<1>4. \E s \in States, p \in BOOLEAN :
         status' = status \/ status' = [status EXCEPT !.state = s, !.pending = p]
  BY DEF TriggerPlain, DrainEmpty, TriggerDrained, DrainTimesOut, DrainOver, States
<1> QED BY <1>1, <1>2, <1>3, <1>4, Still, FlaggedGood

LEMMA SettingsGood ==
    ASSUME IInv, \E mode \in {"off", "notify", "auto"} : SaveSettings(mode)
    PROVE  Good
<1>1. HelperTypes /\ MacTypes /\ schedule \in BOOLEAN
  BY DEF IInv, StatusTypes
<1>2. UNCHANGED << schedule, checkout, helpers >> /\ hub' = [hub EXCEPT !.applying = "settings"]
  BY DEF SaveSettings
<1>3. MacGentle
  BY <1>1, <1>2, HubFields DEF MacGentle, MacTypes, RunsOn
<1>4. \E s \in States, p \in BOOLEAN :
         status' = [status EXCEPT !.pending = p] \/ status' = [status EXCEPT !.pending = p, !.state = s]
  BY DEF SaveSettings, States
<1> QED BY <1>1, <1>2, <1>3, <1>4, NobodyMoves, FlaggedGood

LEMMA CheckGood ==
    ASSUME IInv, CheckStarts \/ CheckEnds
    PROVE  Good
<1>1. HelperTypes /\ MacTypes /\ schedule \in BOOLEAN
  BY DEF IInv, StatusTypes
<1>2. UNCHANGED << schedule, checkout, helpers >> /\ \E x \in BOOLEAN : hub' = [hub EXCEPT !.checking = x]
  BY DEF CheckStarts, CheckEnds
<1>3. MacGentle
  BY <1>1, <1>2, HubFields DEF MacGentle, MacTypes, RunsOn
<1>4. \E s \in States : status' = [status EXCEPT !.state = s]
  BY DEF CheckStarts, CheckEnds, Checked, States
<1> QED BY <1>1, <1>2, <1>3, <1>4, NobodyMoves, FlaggedGood

(* The schedule is taken away only while nothing is open. *)
LEMMA ArmedFacts == Armed(FALSE) \in BOOLEAN /\ (Open => Armed(FALSE))
  BY DEF Armed
LEMMA ApplyGood ==
    ASSUME IInv, ApplyScheduler
    PROVE  Good
<1>1. HelperTypes /\ MacTypes
  BY DEF IInv
<1>2. /\ UNCHANGED << status, checkout, helpers >> /\ hub' = [hub EXCEPT !.applying = "no"]
      /\ schedule' = Armed(FALSE)
  BY DEF ApplyScheduler
<1>3. MacGentle
  BY <1>1, <1>2, HubFields DEF MacGentle, MacTypes, RunsOn
<1>4. schedule' \in BOOLEAN /\ (schedule' \/ ~Open)
  BY <1>2, ArmedFacts
<1>5. "idle" \in States /\ FALSE \in BOOLEAN /\ status' = status
  BY <1>2 DEF States
<1> QED BY <1>1, <1>2, <1>3, <1>4, <1>5, NobodyMoves, FlaggedGood

LEMMA RestartGood ==
    ASSUME IInv, RestartService
    PROVE  Good
<1>1. HelperTypes /\ MacTypes /\ schedule \in BOOLEAN
  BY DEF IInv, StatusTypes
<1>2. /\ UNCHANGED << status, schedule, checkout, helpers >> /\ hub.up
      /\ hub' = [hub EXCEPT !.loaded = checkout.files, !.applying = "start", !.checking = FALSE]
  BY DEF RestartService
<1>3. hub' \in HubSet /\ hub'.up /\ hub'.loaded = checkout.files
  BY <1>1, <1>2, HubFields DEF MacTypes, HubSet
<1>4. MacGentle
  BY <1>1, <1>2, <1>3 DEF MacGentle, MacTypes, RunsOn, Clean
<1>5. "idle" \in States /\ FALSE \in BOOLEAN
  BY DEF States
<1> QED BY <1>1, <1>2, <1>4, <1>5, NobodyMoves, FlaggedGood

LEMMA OperatorGood ==
    ASSUME IInv, OperatorStarts
    PROVE  Good
<1>1. HelperTypes /\ MacTypes /\ schedule \in BOOLEAN
  BY DEF IInv, StatusTypes
<1>2. UNCHANGED << status, schedule, checkout, helpers >> /\ ~hub.up /\ hub' = Up
  BY DEF OperatorStarts
<1>3. MacGentle
  BY <1>1, <1>2, HubFields DEF MacGentle, MacTypes, RunsOn
<1>4. "idle" \in States /\ FALSE \in BOOLEAN
  BY DEF States
<1> QED BY <1>1, <1>2, <1>3, <1>4, NobodyMoves, FlaggedGood

(* The Mac starts again: no helper is left. *)
LEMMA RebootGood ==
    ASSUME IInv, Reboot
    PROVE  Good
<1>1. HelperTypes /\ MacTypes /\ StatusTypes /\ Apart(status.active)
  BY DEF IInv
<1>2. UNCHANGED << status, schedule, checkout >> /\ MacTypes'
  BY <1>1, HubFields DEF Reboot, MacTypes
<1>3. HelperTypes' /\ \A h \in Helpers : ~Holds(h)'
  BY NoHelperSet DEF Reboot, HelperTypes, Holds
<1>4. IInv'
  BY <1>1, <1>2, <1>3, OthersStep DEF StatusTypes
<1>5. SameWork
  BY <1>2 DEF SameWork, Open
<1> QED BY <1>2, <1>4, <1>5, Steady DEF Good

LEMMA DiesGood ==
    ASSUME IInv, NEW h \in Helpers, HelperDies(h)
    PROVE  Good
<1>1. HelperTypes /\ MacTypes /\ schedule \in BOOLEAN
  BY DEF IInv, StatusTypes
<1>2. "idle" \in States /\ FALSE \in BOOLEAN
  BY DEF States
<1> QED BY <1>1, <1>2, Rests, Still, FlaggedGood DEF HelperDies

(* The schedule starts a helper, which looks at what there is to do. *)
LEMMA TickGood ==
    ASSUME UpdaterAssumption, IInv, Tick \/ \E h \in Helpers : TickReads(h) \/ TickChecked(h)
    PROVE  Good
<1>1. HelperTypes /\ MacTypes /\ schedule \in BOOLEAN
  BY DEF IInv, StatusTypes
<1>2. UNCHANGED << schedule, checkout, hub >>
  BY DEF Tick, TickReads, TickChecked
<1>3. \E s \in States : status' = status \/ status' = [status EXCEPT !.state = s]
  BY DEF Tick, TickReads, TickChecked, Checked, States
<1>4. status.active.op \in Asks
  BY StatusFields DEF IInv, StatusTypes, ActiveSet, NoActive, Asks
<1>5. HandsStay
  <2>1. CASE Tick
    <3>1. [pc |-> "tick"] \in HelperSet /\ [pc |-> "tick"].pc \notin Holding
      BY DEF HelperSet, Looking, Holding, Doing, Undoing
    <3> QED BY <1>1, <2>1, <3>1, Sets DEF Tick, Helpers
  <2>2. ASSUME NEW h \in Helpers, TickReads(h) PROVE HandsStay
    <3>1. CASE Due(h, status.active.op, FALSE)
      BY <1>1, <1>4, <3>1, Queues
    <3>2. CASE Stays(h, "unschedule") \/ Stays(h, "check")
      BY <1>1, <2>2, <3>2, LooksOn DEF TickReads
    <3> QED BY <2>2, <3>1, <3>2 DEF TickReads
  <2>3. ASSUME NEW h \in Helpers, TickChecked(h) PROVE HandsStay
    <3>1. CASE Due(h, status.active.op, FALSE)
      BY <1>1, <1>4, <3>1, Queues
    <3>2. CASE Due(h, Plain, TRUE)
      BY <1>1, <3>2, Queues DEF Asks
    <3>3. CASE Ends(h)
      BY <1>1, <3>3, Rests
    <3> QED BY <2>3, <3>1, <3>2, <3>3 DEF TickChecked
  <2> QED BY <2>1, <2>2, <2>3
<1> QED BY <1>1, <1>2, <1>3, <1>5, Still, FlaggedGood

-------------------------------------------------------------------------------
(* The helper at work *)

(* An operation that goes on: only its phase may change. *)
SameAsk(a, b) ==
    /\ a = NoActive <=> b = NoActive
    /\ a.op = b.op /\ (a # NoActive => b.mode = a.mode /\ b.origin = a.origin)
LEMMA AskFacts ==
    ASSUME NEW a, NEW b, SameAsk(a, b), NEW w, NEW m, NEW co
    PROVE  (Apart(a) => Apart(b)) /\ (Serves(w, a) => Serves(w, b))
  BY DEF SameAsk, Apart, Serves
LEMMA PhaseFacts ==
    ASSUME UpdaterAssumption, StatusTypes, NEW h, NEW phase \in Phases
    PROVE  Phase(h, phase) \in ActiveSet \cup {NoActive} /\ SameAsk(status.active, Phase(h, phase))
<1>1. status.active \in ActiveSet \cup {NoActive}
  BY StatusFields DEF StatusTypes
<1> QED BY <1>1, ActiveFields DEF Phase, SameAsk

(* Where the status is after a step of an operation that goes on *)
GoesOnWith(a) ==
    /\ status' \in StatusSet /\ status'.active = a /\ status'.history = status.history
    /\ a \in ActiveSet \cup {NoActive} /\ SameAsk(status.active, a)
LEMMA Announced ==
    ASSUME UpdaterAssumption, StatusTypes, NEW h, NEW phase \in Phases, NEW s \in States,
           \/ status' = [status EXCEPT !.active = Phase(h, phase)]
           \/ status' = [status EXCEPT !.state = s, !.active = Phase(h, phase)]
    PROVE  GoesOnWith(Phase(h, phase))
<1>1. Phase(h, phase) \in ActiveSet \cup {NoActive} /\ SameAsk(status.active, Phase(h, phase))
  BY PhaseFacts
<1>2. status \in StatusSet
  BY DEF StatusTypes
<1>3. status' \in StatusSet /\ status'.active = Phase(h, phase) /\ status'.history = status.history
  BY <1>1, <1>2 DEF StatusSet
<1> QED BY <1>1, <1>3 DEF GoesOnWith
LEMMA Silent ==
    ASSUME StatusTypes, UNCHANGED status
    PROVE  GoesOnWith(status.active)
  BY StatusFields DEF GoesOnWith, StatusTypes, SameAsk

(* What is known of the helper at work, and what a step of it keeps *)
LEMMA WorkerFacts ==
    ASSUME IInv, NEW h \in Helpers, Holds(h)
    PROVE  /\ helpers[h] \in HolderSet
           /\ Busy(helpers[h]) => Serves(helpers[h], status.active) /\ Undid(helpers[h], checkout, hub)
           /\ Managed(h) <=> helpers[h].op # Plain
  BY HelperFacts DEF IInv, WorkWell, Managed

LEMMA HolderGood ==
    ASSUME IInv, NEW h \in Helpers, Holds(h), NEW w \in HolderSet, helpers' = [helpers EXCEPT ![h] = w],
           NEW a, GoesOnWith(a), UNCHANGED schedule, MacTypes',
           Busy(w) => Serves(w, a) /\ Undid(w, checkout', hub')
    PROVE  Good
<1>1. StatusTypes' /\ Apart(status'.active)
  BY AskFacts DEF IInv, StatusTypes, GoesOnWith
<1>2. IInv'
  BY <1>1, HolderStep DEF GoesOnWith
<1>3. SameWork
  BY DEF GoesOnWith, SameAsk, SameWork, Open
<1> QED BY <1>2, <1>3, Steady DEF Good

(* The commits a place calls for *)
Fitting(w, pc) ==
    /\ pc \in {"gate", "preflight"} => w.old = 0
    /\ pc \in Doing \cup Undoing => w.old # 0 /\ w.new # 0
(* ... goes from one place to the next. *)
LEMMA Moved ==
    ASSUME HelperTypes, NEW h \in Helpers, helpers[h] \in HolderSet, NEW pc \in Holding, Stays(h, pc),
           Fitting(helpers[h], pc)
    PROVE  LET w == [helpers[h] EXCEPT !.pc = pc] IN
           /\ w \in HolderSet /\ helpers' = [helpers EXCEPT ![h] = w] /\ w.pc = pc
           /\ w.op = helpers[h].op /\ w.mode = helpers[h].mode /\ w.old = helpers[h].old
           /\ w.new = helpers[h].new
           /\ w.undone = helpers[h].undone
  BY DEF HelperTypes, Stays, HolderSet, Ranges, Fitting

LEMMA MovesGood ==
    ASSUME IInv, NEW h \in Helpers, Holds(h), NEW pc \in Holding, Stays(h, pc),
           Fitting(helpers[h], pc),
           NEW a, GoesOnWith(a), UNCHANGED schedule, MacTypes',
           \A w \in HolderSet :
             /\ w.pc = pc /\ pc # "reschedule" /\ w.op # Plain /\ helpers[h].op # Plain
             /\ w.op = helpers[h].op /\ w.mode = helpers[h].mode /\ w.old = helpers[h].old
             /\ w.new = helpers[h].new /\ w.undone = helpers[h].undone
             => Serves(w, a) /\ Undid(w, checkout', hub')
    PROVE  Good
<1> DEFINE w == [helpers[h] EXCEPT !.pc = pc]
<1>1. /\ w \in HolderSet /\ helpers' = [helpers EXCEPT ![h] = w] /\ w.pc = pc
      /\ w.op = helpers[h].op /\ w.mode = helpers[h].mode /\ w.old = helpers[h].old /\ w.new = helpers[h].new
      /\ w.undone = helpers[h].undone
  BY WorkerFacts, Moved DEF IInv
<1> HIDE DEF w
<1>2. Busy(w) => Serves(w, a) /\ Undid(w, checkout', hub')
  BY <1>1 DEF Busy
<1> QED BY <1>1, <1>2, HolderGood

-------------------------------------------------------------------------------
(* Forward *)

LEMMA AtWork ==
    ASSUME IInv, NEW h \in Helpers, helpers[h].pc \in Holding
    PROVE  /\ Holds(h) /\ HelperTypes /\ StatusTypes /\ MacTypes /\ helpers[h] \in HolderSet
           /\ helpers[h].pc # "reschedule" /\ Managed(h) =>
                Serves(helpers[h], status.active) /\ Undid(helpers[h], checkout, hub)
           /\ Managed(h) <=> helpers[h].op # Plain
  BY WorkerFacts DEF Holds, IInv, Busy

LEMMA PassesGood ==
    ASSUME UpdaterAssumption, IInv, NEW h \in Helpers, \E idle \in BOOLEAN : Passes(h, idle)
    PROVE  Good
<1>1. helpers[h].pc = "gate" /\ Stays(h, "preflight") /\ UNCHANGED << status, schedule, checkout, hub >>
  BY DEF Passes
<1>2. helpers[h].pc \in Holding /\ "preflight" \in Holding \ (Doing \cup Undoing)
  BY <1>1 DEF Holding, Doing, Undoing
<1>3. MacTypes' /\ GoesOnWith(status.active)
  BY <1>1, <1>2, AtWork, Still, Silent
<1>4. ASSUME NEW w \in HolderSet, w.pc = "preflight", w.op # Plain, helpers[h].op # Plain, w.op = helpers[h].op,
             w.mode = helpers[h].mode, w.old = helpers[h].old, w.new = helpers[h].new,
             w.undone = helpers[h].undone
      PROVE  Serves(w, status.active) /\ Undid(w, checkout', hub')
  BY <1>1, <1>2, <1>4, AtWork DEF Serves, Undid, Doing, Undoing
<1>5. Fitting(helpers[h], "preflight")
  BY <1>1, <1>2, AtWork DEF Fitting, HolderSet, Doing, Undoing
<1> QED BY <1>1, <1>2, <1>3, <1>4, <1>5, AtWork, MovesGood

LEMMA DefersGood ==
    ASSUME IInv, NEW h \in Helpers, \E idle \in BOOLEAN : Defers(h, idle)
    PROVE  Good
<1>1. HelperTypes /\ MacTypes /\ schedule \in BOOLEAN /\ status \in StatusSet
  BY DEF IInv, StatusTypes
<1>2. /\ Ends(h) /\ UNCHANGED << checkout, hub >>
      /\ \E p \in BOOLEAN : status' = [status EXCEPT !.state = "deferred", !.pending = p]
      /\ schedule' = TRUE \/ schedule' = schedule
  <2>1. \E p \in BOOLEAN : status' = [status EXCEPT !.state = "deferred", !.pending = p]
    <3>1. status' = [status EXCEPT !.state = "deferred", !.pending = (Managed(h) \/ status.pending)]
      BY <1>1 DEF Defers, StatusSet
    <3> QED BY <3>1
  <2> QED BY <2>1 DEF Defers
<1>3. "deferred" \in States
  BY DEF States
<1> QED BY <1>1, <1>2, <1>3, Rests, Still, FlaggedGood

(* The rollback point is what the first attempt recorded, and never the       *)
(* commit asked for.                                                          *)
LEMMA PreflightGood ==
    ASSUME UpdaterAssumption, IInv, NEW h \in Helpers, Preflight(h)
    PROVE  Good
<1> DEFINE at == IF Available(h) THEN "announce"
                 ELSE IF Managed(h) THEN GoesOn(status.active.phase) ELSE "health"
           was == helpers[h]
           w == [was EXCEPT !.pc = at, !.old = Base(h), !.new = Wanted(h)]
           a == IF Managed(h) /\ Available(h) THEN [status.active EXCEPT !.origin = Base(h)]
                ELSE status.active
<1>1. /\ was.pc = "preflight" /\ UNCHANGED << schedule, checkout, hub >>
      /\ helpers' = [helpers EXCEPT ![h].pc = at, ![h].old = Base(h), ![h].new = Wanted(h)]
      /\ status' = IF Managed(h) /\ Available(h) THEN [status EXCEPT !.active.origin = Base(h)] ELSE status
  BY DEF Preflight
<1>2. was.pc \in Holding /\ at \in Doing
  BY <1>1 DEF Holding, Doing, GoesOn
<1>3. Holds(h) /\ HelperTypes /\ StatusTypes /\ MacTypes /\ was \in HolderSet
  BY <1>2, AtWork
<1>4. /\ status.active \in ActiveSet \cup {NoActive} /\ checkout.head \in Commits /\ Commits \subseteq Nat \ {0}
      /\ was.op \in Asks /\ was.undone \in Results /\ was.old = 0
  BY <1>1, <1>3, StatusFields, HubFields DEF StatusTypes, Commits, HolderSet, Ranges
<1>5. ASSUME Managed(h)
      PROVE  /\ status.active \in ActiveSet /\ status.active.op = was.op /\ status.active.mode = was.mode
             /\ was.old = 0 /\ was.undone = "none" /\ was.op \in Operations /\ Wanted(h) = Target[was.op]
             /\ status.active.origin # Target[was.op] /\ Target[was.op] \in Commits
  <2>1. Serves(was, status.active) /\ Undid(was, checkout, hub)
    BY <1>1, <1>2, <1>5, AtWork
  <2>2. was.op \in Operations
    BY <1>4, <1>5 DEF Managed, Asks
  <2> QED BY <1>1, <1>4, <1>5, <2>1, <2>2 DEF Serves, Undid, IInv, Apart, Wanted, UpdaterAssumption, Commits
<1>6. Base(h) \in Commits /\ Wanted(h) \in Commits
  <2>1. CASE Managed(h)
    BY <1>4, <1>5, <2>1 DEF Base, ActiveSet, Commits
  <2>2. CASE ~Managed(h)
    BY <1>4, <2>2 DEF Base, Wanted, Commits, UpdaterAssumption
  <2> QED BY <2>1, <2>2
<1>7. /\ w \in HolderSet /\ helpers' = [helpers EXCEPT ![h] = w] /\ w.pc = at
      /\ w.old = Base(h) /\ w.new = Wanted(h)
      /\ w.op = was.op /\ w.mode = was.mode /\ w.undone = was.undone
  <2>1. /\ Base(h) \in 0 .. MaxCommit /\ Wanted(h) \in 0 .. MaxCommit /\ at \in Holding
        /\ Base(h) # 0 /\ Wanted(h) # 0
        /\ at \notin {"gate", "preflight"}
    BY <1>2, <1>6 DEF Commits, Holding, Doing
  <2> HIDE DEF at
  <2>2. w \in HolderSet /\ w.pc = at /\ w.old = Base(h) /\ w.new = Wanted(h)
        /\ w.op = was.op /\ w.mode = was.mode /\ w.undone = was.undone
    BY <1>3, <2>1 DEF HolderSet, Ranges
  <2>3. helpers' = [helpers EXCEPT ![h] = w]
    BY <1>1, <1>3 DEF HelperTypes, HolderSet, Ranges
  <2> QED BY <2>2, <2>3
<1>8. status' \in StatusSet /\ status'.active = a /\ status'.history = status.history
  <2>1. CASE Managed(h) /\ Available(h)
    <3>1. a \in ActiveSet
      BY <1>5, <1>6, <2>1 DEF ActiveSet, Commits
    <3>2. status' = [status EXCEPT !.active = a] /\ status \in StatusSet
      BY <1>1, <1>3, <2>1 DEF StatusTypes, StatusSet
    <3> HIDE DEF a
    <3> QED BY <3>1, <3>2 DEF StatusSet
  <2>2. CASE ~(Managed(h) /\ Available(h))
    BY <1>1, <1>3, <2>2 DEF StatusTypes
  <2> QED BY <2>1, <2>2
<1>9. /\ a.op = status.active.op /\ (a = NoActive <=> status.active = NoActive)
      /\ Managed(h) => /\ a # NoActive /\ a.mode = status.active.mode
                       /\ a.origin = IF Available(h) THEN Base(h) ELSE status.active.origin
  <2>1. CASE Managed(h) /\ Available(h)
    BY <1>5, <1>6, <2>1 DEF ActiveSet, Commits, NoActive
  <2>2. CASE ~(Managed(h) /\ Available(h))
    BY <1>5, <2>2 DEF ActiveSet, NoActive
  <2> QED BY <2>1, <2>2
<1>10. ASSUME Managed(h)
       PROVE  /\ a.origin = Base(h) \/ (a.origin = 0 /\ Base(h) = Wanted(h))
              /\ a.origin # Wanted(h)
  <2>1. CASE Available(h)
    BY <1>5, <1>9, <1>10, <2>1 DEF Base, Available
  <2>2. CASE ~Available(h)
    BY <1>5, <1>9, <1>10, <2>2 DEF Base, Available, Commits, UpdaterAssumption
  <2> QED BY <2>1, <2>2
<1>11. Apart(a)
  <2>1. CASE Managed(h)
    BY <1>5, <1>9, <1>10, <2>1 DEF Apart
  <2>2. CASE ~Managed(h)
    BY <2>2 DEF IInv
  <2> QED BY <2>1, <2>2
<1>12. Busy(w) => Serves(w, a) /\ Undid(w, checkout', hub')
  <2> SUFFICES ASSUME Busy(w) PROVE Serves(w, a) /\ Undid(w, checkout', hub')
    OBVIOUS
  <2> HIDE DEF at, w, a, was
  <2>1. Managed(h)
    BY <1>7 DEF Busy, Managed, was
  <2>2. Serves(w, a)
    BY <1>2, <1>5, <1>6, <1>7, <1>9, <1>10, <2>1 DEF Serves, Commits, Doing, Undoing
  <2>3. Undid(w, checkout', hub')
    BY <1>2, <1>5, <1>7, <2>1 DEF Undid, Doing
  <2> QED BY <2>2, <2>3
<1>13. IInv'
  <2>1. StatusTypes' /\ MacTypes'
    BY <1>1, <1>3, <1>8, Still DEF StatusTypes
  <2> HIDE DEF w, a
  <2> QED BY <1>3, <1>7, <1>8, <1>11, <1>12, <2>1, HolderStep
<1>14. SameWork
  BY <1>8, <1>9 DEF SameWork, Open
<1> QED BY <1>1, <1>13, <1>14, Steady DEF Good

-------------------------------------------------------------------------------
(* From one step of the update to the next *)

LEMMA DoingFacts ==
    ASSUME IInv, NEW h \in Helpers, helpers[h].pc \in Doing \cup Undoing
    PROVE  /\ helpers[h].old # 0 /\ helpers[h].new # 0
           /\ helpers[h].old \in Commits /\ helpers[h].new \in Commits
<1>1. helpers[h] \in HolderSet
  BY AtWork DEF Holding
<1> QED BY <1>1 DEF HolderSet, Ranges, Commits
LEMMA GoesForward ==
    ASSUME IInv, NEW h \in Helpers, helpers[h].pc \in Doing, NEW pc \in Doing, Stays(h, pc),
           NEW a, GoesOnWith(a), UNCHANGED schedule, MacTypes'
    PROVE  Good
<1>1. helpers[h].pc \in Holding /\ pc \in Holding /\ helpers[h].pc # "reschedule"
  BY DEF Holding, Doing
<1>2. ASSUME NEW w \in HolderSet, w.pc = pc, w.op # Plain, helpers[h].op # Plain, w.op = helpers[h].op,
             w.mode = helpers[h].mode, w.old = helpers[h].old, w.new = helpers[h].new,
             w.undone = helpers[h].undone
      PROVE  Serves(w, a) /\ Undid(w, checkout', hub')
  <2>1. Serves(helpers[h], status.active) /\ Undid(helpers[h], checkout, hub)
    BY <1>1, <1>2, AtWork
  <2>2. Serves(helpers[h], a)
    BY <2>1, AskFacts DEF GoesOnWith
  <2>3. helpers[h].undone = "none"
    BY <2>1 DEF Undid, Doing
  <2> QED BY <1>2, <2>2, <2>3 DEF Serves, Undid, Doing, Undoing
<1>3. Fitting(helpers[h], pc)
  BY DoingFacts DEF Fitting, Doing
<1> QED BY <1>1, <1>2, <1>3, AtWork, MovesGood

(* The Hub stopped or started *)
LEMMA StoppedFacts ==
    ASSUME MacTypes, NEW h, Stopped(h) \/ Started(h)
    PROVE  hub' \in HubSet
  BY HubFields DEF MacTypes, Stopped, Started

LEMMA ForwardGood ==
    ASSUME UpdaterAssumption, IInv, NEW h \in Helpers,
           Announce(h) \/ Stop(h) \/ Merge(h) \/ Deps(h) \/ Restart(h)
    PROVE  Good
<1>1. StatusTypes /\ MacTypes /\ UNCHANGED schedule
  BY DEF IInv, Announce, Stop, Merge, Deps, Restart
<1>2. CASE Announce(h)
  <2>1. GoesOnWith(Phase(h, "stopping"))
    BY <1>1, <1>2, Announced DEF Announce, Phases, States
  <2>2. MacTypes'
    BY <1>1, <1>2, Still DEF Announce
  <2> QED BY <1>1, <1>2, <2>1, <2>2, GoesForward DEF Announce, Doing
<1>3. CASE Stop(h)
  <2>1. GoesOnWith(Phase(h, "stopped"))
    BY <1>1, <1>3, Announced DEF Stop, Phases, States
  <2>2. MacTypes'
    BY <1>1, <1>3, StoppedFacts DEF Stop, MacTypes
  <2> QED BY <1>1, <1>3, <2>1, <2>2, GoesForward DEF Stop, Doing
<1>4. CASE Merge(h)
  <2>1. GoesOnWith(Phase(h, "merged"))
    BY <1>1, <1>4, Announced DEF Merge, Phases, States
  <2>2. MacTypes'
    BY <1>1, <1>4, DoingFacts DEF Merge, MacTypes, CheckoutSet, Doing
  <2> QED BY <1>1, <1>4, <2>1, <2>2, GoesForward DEF Merge, Doing
<1>5. CASE Deps(h)
  <2>1. GoesOnWith(Phase(h, "verified"))
    BY <1>1, <1>5, Announced DEF Deps, Phases, States
  <2>2. MacTypes'
    BY <1>1, <1>5, Still DEF Deps
  <2> QED BY <1>1, <1>5, <2>1, <2>2, GoesForward DEF Deps, Doing
<1>6. CASE Restart(h)
  <2>1. GoesOnWith(Phase(h, "restarting"))
    BY <1>1, <1>6, Announced DEF Restart, Phases, States
  <2>2. MacTypes'
    BY <1>1, <1>6, StoppedFacts DEF Restart, MacTypes
  <2> QED BY <1>1, <1>6, <2>1, <2>2, GoesForward DEF Restart, Doing
<1> QED BY <1>2, <1>3, <1>4, <1>5, <1>6

-------------------------------------------------------------------------------
(* A step fails, and the update is taken back ... *)

(* A step fails, and the update is taken back. *)
LEMMA FailsGood ==
    ASSUME UpdaterAssumption, IInv, NEW h \in Helpers, PreflightRefuses(h) \/ StepFails(h) \/ Unattested(h)
    PROVE  Good
<1> DEFINE was == helpers[h]
<1>1. /\ was.pc \in {"preflight"} \cup Doing /\ UNCHANGED << status, schedule, checkout, hub >>
      /\ (was.pc = "preflight" /\ Stays(h, "fail")) \/ Stays(h, Undo(h))
  BY DEF PreflightRefuses, StepFails, Unattested, Doing
<1>2. was.pc \in Holding /\ was.pc # "reschedule" /\ "fail" \in Holding \ (Doing \cup Undoing)
      /\ "undo_stop" \in Holding
  BY <1>1 DEF Holding, Doing, Undoing
<1>3. MacTypes' /\ GoesOnWith(status.active)
  BY <1>1, <1>2, AtWork, Still, Silent
<1>4. was \in HolderSet /\ Holds(h)
  BY <1>2, AtWork
<1>5. /\ helpers[h].op # Plain => Serves(was, status.active) /\ was.undone = "none"
      /\ was.pc = "preflight" => was.old = 0
      /\ Fitting(was, "fail")
  <2>1. helpers[h].op # Plain => Serves(was, status.active) /\ Undid(was, checkout, hub)
    BY <1>2, AtWork
  <2> QED BY <1>1, <1>4, <2>1 DEF Undid, Doing, Undoing, HolderSet, Fitting
<1>6. CASE Stays(h, "fail") /\ (was.pc = "preflight" \/ was.old \in {0, was.new})
  <2>1. ASSUME NEW w \in HolderSet, w.pc = "fail", w.op # Plain, helpers[h].op # Plain, w.op = helpers[h].op,
               w.mode = helpers[h].mode, w.old = helpers[h].old, w.new = helpers[h].new,
               w.undone = helpers[h].undone
        PROVE  Serves(w, status.active) /\ Undid(w, checkout', hub')
    BY <1>5, <1>6, <2>1 DEF Serves, Undid, Doing, Undoing
  <2> QED BY <1>1, <1>2, <1>3, <1>4, <1>5, <1>6, <2>1, MovesGood
<1>7. CASE Stays(h, "undo_stop") /\ was.old \notin {0, was.new}
  <2>1. ASSUME NEW w \in HolderSet, w.pc = "undo_stop", w.op # Plain, helpers[h].op # Plain,
               w.op = helpers[h].op,
               w.mode = helpers[h].mode, w.old = helpers[h].old, w.new = helpers[h].new,
               w.undone = helpers[h].undone
        PROVE  Serves(w, status.active) /\ Undid(w, checkout', hub')
    BY <1>5, <1>7, <2>1 DEF Serves, Undid, Doing, Undoing
  <2>2. was.pc \in Doing
    BY <1>1, <1>4, <1>7 DEF HolderSet
  <2>3. Fitting(was, "undo_stop")
    BY <2>2, DoingFacts DEF Fitting
  <2> QED BY <1>1, <1>2, <1>3, <1>4, <1>7, <2>1, <2>3, MovesGood
<1>8. Undo(h) = IF was.old \notin {0, was.new} THEN "undo_stop" ELSE "fail"
  BY DEF Undo
<1> QED BY <1>1, <1>6, <1>7, <1>8

-------------------------------------------------------------------------------
(* ... to a helper that has nothing left to take back *)

LEMMA UndoneGood ==
    ASSUME UpdaterAssumption, IInv, NEW h \in Helpers, helpers[h].pc \in Undoing,
           NEW result \in {"failed", "succeeded"},
           Undone(h, result), UNCHANGED << status, schedule, checkout >>, MacTypes',
           result = "succeeded" => /\ helpers[h].pc = "undo_health" /\ UNCHANGED hub
                                   /\ Attested(h, helpers[h].old)
    PROVE  Good
<1> DEFINE was == helpers[h]
           w == [was EXCEPT !.pc = "fail", !.undone = result]
<1>1. was.pc \in Holding /\ was.pc # "reschedule"
  BY DEF Holding, Undoing
<1>2. was \in HolderSet /\ Holds(h) /\ HelperTypes /\ StatusTypes
  BY <1>1, AtWork
<1>3. /\ w \in HolderSet /\ helpers' = [helpers EXCEPT ![h] = w]
      /\ w.pc = "fail" /\ w.undone = result /\ w.op = was.op /\ w.mode = was.mode
      /\ w.old = was.old /\ w.new = was.new
  <2>1. "fail" \in Holding \ (Doing \cup Undoing) /\ result \in Results
    BY DEF Holding, Doing, Undoing, Results
  <2>2. /\ w \in HolderSet
        /\ w.pc = "fail" /\ w.undone = result /\ w.op = was.op /\ w.mode = was.mode
        /\ w.old = was.old /\ w.new = was.new
    BY <1>2, <2>1 DEF HolderSet, Ranges
  <2>3. helpers' = [helpers EXCEPT ![h] = w]
    BY <1>2 DEF Undone, HelperTypes, HolderSet, Ranges
  <2> QED BY <2>2, <2>3
<1>4. GoesOnWith(status.active)
  BY <1>2, Silent
<1>5. ASSUME was.op # Plain
      PROVE  Serves(w, status.active) /\ Undid(w, checkout', hub')
  <2>1. Serves(was, status.active) /\ Undid(was, checkout, hub)
    BY <1>1, <1>5, AtWork
  <2>2. Serves(w, status.active)
    BY <1>3, <2>1 DEF Serves, Undoing
  <2>3. CASE result = "failed"
    <3> HIDE DEF w, was
    <3> QED BY <1>3, <2>2, <2>3 DEF Undid, Doing, Undoing
  <2>4. CASE result = "succeeded"
    <3>1. Back(checkout, was)
      BY <2>1, <2>4 DEF Undid
    <3>2. was.mode # "stopped" => RunsOn(hub, was.old)
      BY <2>4 DEF Attested, RunsOn
    <3>3. checkout' = checkout /\ hub' = hub
      BY <2>4
    <3> HIDE DEF w, was
    <3> QED BY <1>3, <2>2, <2>4, <3>1, <3>2, <3>3 DEF Undid, Back, RunsOn, Undoing
  <2> QED BY <2>2, <2>3, <2>4
<1> HIDE DEF w
<1> QED BY <1>2, <1>3, <1>4, <1>5, HolderGood DEF Busy

(* One more piece is back. *)
LEMMA BacksUp ==
    ASSUME UpdaterAssumption, IInv, NEW h \in Helpers, NEW pc \in Undoing, helpers[h].pc \in Undoing,
           Stays(h, pc),
           UNCHANGED << status, schedule >>, MacTypes',
           helpers[h].op # Plain =>
             /\ pc = "undo_head" => checkout'.files = helpers[h].old
             /\ pc \in {"undo_start", "undo_health"} => Back(checkout', helpers[h])
    PROVE  Good
<1>1. helpers[h].pc \in Holding /\ helpers[h].pc # "reschedule" /\ pc \in Holding
  BY DEF Holding, Undoing
<1>2. GoesOnWith(status.active)
  BY <1>1, AtWork, Silent
<1>3. ASSUME NEW w \in HolderSet, w.pc = pc, w.op # Plain, helpers[h].op # Plain, w.op = helpers[h].op,
             w.mode = helpers[h].mode, w.old = helpers[h].old, w.new = helpers[h].new,
             w.undone = helpers[h].undone
      PROVE  Serves(w, status.active) /\ Undid(w, checkout', hub')
  <2>1. Serves(helpers[h], status.active) /\ Undid(helpers[h], checkout, hub)
    BY <1>1, <1>3, AtWork
  <2>2. helpers[h].undone = "none"
    BY <2>1 DEF Undid, Undoing
  <2> QED BY <1>3, <2>1, <2>2 DEF Serves, Undid, Back, Undoing
<1>4. Fitting(helpers[h], pc)
  BY DoingFacts DEF Fitting, Undoing
<1> QED BY <1>1, <1>2, <1>3, <1>4, AtWork, MovesGood

LEMMA UndoGood ==
    ASSUME UpdaterAssumption, IInv, NEW h \in Helpers,
           UndoStop(h) \/ UndoFiles(h) \/ UndoHead(h) \/ UndoStart(h) \/ UndoHealth(h) \/ UndoFails(h)
    PROVE  Good
<1>1. MacTypes /\ checkout \in CheckoutSet
  BY DEF IInv, MacTypes
<1>2. helpers[h].pc \in Undoing
  BY DEF UndoStop, UndoFiles, UndoHead, UndoStart, UndoHealth, UndoFails, Undoing
<1>3. helpers[h].old \in Commits
  BY <1>2, DoingFacts
<1>4. helpers[h].op # Plain => Undid(helpers[h], checkout, hub)
  BY <1>2, AtWork DEF Holding, Undoing
<1>5. CASE UndoStop(h)
  <2>1. MacTypes'
    BY <1>1, <1>5, StoppedFacts DEF UndoStop, MacTypes
  <2>2. CASE Stays(h, "undo_files")
    BY <1>2, <1>5, <2>1, <2>2, BacksUp DEF UndoStop, Undoing
  <2>3. CASE Undone(h, "failed")
    BY <1>2, <1>5, <2>1, <2>3, UndoneGood DEF UndoStop
  <2> QED BY <1>5, <2>2, <2>3 DEF UndoStop
<1>6. CASE UndoFiles(h)
  <2>1. MacTypes' /\ checkout'.files = helpers[h].old
    BY <1>1, <1>3, <1>6 DEF UndoFiles, MacTypes, CheckoutSet
  <2> QED BY <1>2, <1>6, <2>1, BacksUp DEF UndoFiles, Undoing
<1>7. CASE UndoHead(h)
  <2>1. MacTypes' /\ checkout'.head = helpers[h].old /\ checkout'.files = checkout.files
    BY <1>1, <1>3, <1>7 DEF UndoHead, MacTypes, CheckoutSet
  <2>2. helpers[h].op # Plain => Back(checkout', helpers[h])
    BY <1>4, <1>7, <2>1 DEF UndoHead, Undid, Back
  <2> QED BY <1>2, <1>7, <2>1, <2>2, BacksUp DEF UndoHead, Undoing
<1>8. CASE UndoStart(h)
  <2>1. MacTypes' /\ checkout' = checkout
    BY <1>1, <1>8, StoppedFacts DEF UndoStart, MacTypes
  <2>2. helpers[h].op # Plain => Back(checkout', helpers[h])
    BY <1>4, <1>8, <2>1 DEF UndoStart, Undid
  <2> QED BY <1>2, <1>8, <2>1, <2>2, BacksUp DEF UndoStart, Undoing
<1>9. CASE UndoHealth(h)
  <2>1. MacTypes'
    BY <1>1, <1>9, Still DEF UndoHealth
  <2>2. CASE Attested(h, helpers[h].old)
    BY <1>2, <1>9, <2>1, <2>2, UndoneGood DEF UndoHealth
  <2>3. CASE ~Attested(h, helpers[h].old)
    BY <1>2, <1>9, <2>1, <2>3, UndoneGood DEF UndoHealth
  <2> QED BY <2>2, <2>3
<1>10. CASE UndoFails(h)
  <2>1. MacTypes'
    BY <1>1, <1>10, Still DEF UndoFails
  <2> QED BY <1>2, <1>10, <2>1, UndoneGood DEF UndoFails
<1> QED BY <1>5, <1>6, <1>7, <1>8, <1>9, <1>10

-------------------------------------------------------------------------------
(* A helper takes the lock. *)

LEMMA ResumedFacts ==
    ASSUME UpdaterAssumption, IInv, NEW op \in Operations
    PROVE  Resumed(op) \in ActiveSet /\ Resumed(op).op = op /\ Resumed(op).mode \in Modes /\ Apart(Resumed(op))
<1>1. status.active \in ActiveSet \cup {NoActive} /\ Apart(status.active) /\ ActiveMode \in Modes
  BY StatusFields, HubFields DEF IInv, StatusTypes
<1>2. CASE Open /\ status.active.op = op /\ status.active.mode # "unknown"
  BY <1>1, <1>2 DEF Resumed, Open, ActiveSet
<1>3. CASE ~(Open /\ status.active.op = op /\ status.active.mode # "unknown")
  <2>1. Resumed(op) = [op |-> op, phase |-> "prepared", mode |-> ActiveMode, origin |-> 0]
    BY <1>3 DEF Resumed
  <2>2. Target[op] # 0
    BY DEF UpdaterAssumption
  <2> QED BY <1>1, <2>1, <2>2 DEF ActiveSet, Phases, Apart, UpdaterAssumption
<1> QED BY <1>2, <1>3

LEMMA EnterGood ==
    ASSUME UpdaterAssumption, IInv, NEW h \in Helpers, Enter(h)
    PROVE  Good
<1>1. HelperTypes /\ MacTypes /\ StatusTypes /\ schedule \in BOOLEAN /\ UNCHANGED << schedule, checkout, hub >>
  BY DEF IInv, StatusTypes, Enter
<1>2. CASE Locked \/ (helpers[h].op = Plain /\ Open)
  <2>1. "idle" \in States /\ FALSE \in BOOLEAN
    BY DEF States
  <2> QED BY <1>1, <1>2, <2>1, Rests, Still, FlaggedGood DEF Enter
<1>3. CASE ~(Locked \/ (helpers[h].op = Plain /\ Open))
  <2> DEFINE known == Resumed(helpers[h].op)
             w == [pc |-> "gate", op |-> helpers[h].op, auto |-> helpers[h].auto,
                   mode |-> known.mode, old |-> 0, new |-> 0, undone |-> "none"]
  <2>1. /\ helpers[h].pc \in {"spawned", "due"} /\ helpers[h] \in Waiting
        /\ helpers' = [helpers EXCEPT ![h] = w]
        /\ status' = IF Managed(h) THEN [status EXCEPT !.active = known, !.pending = TRUE] ELSE status
    BY <1>1, <1>3, HelperFacts DEF Enter
  <2>2. known.mode \in Modes
    <3>1. CASE helpers[h].op \in Operations
      BY <3>1, ResumedFacts
    <3>2. CASE helpers[h].op = Plain
      BY <1>1, <1>3, <3>2, HubFields DEF Resumed
    <3> QED BY <2>1, <3>1, <3>2 DEF Waiting, Asks
  <2>3. w \in HolderSet
    <3>1. "gate" \in Holding \ (Doing \cup Undoing) /\ "none" \in Results /\ 0 \in 0 .. MaxCommit
      BY DEF Holding, Doing, Undoing, Results, UpdaterAssumption
    <3> HIDE DEF known
    <3> QED BY <2>1, <2>2, <3>1 DEF HolderSet, Ranges, Waiting
  <2>4. Managed(h) => helpers[h].op \in Operations
    BY <2>1 DEF Waiting, Asks, Managed
  <2>5. /\ status' \in StatusSet /\ status'.history = status.history
        /\ status'.active = IF Managed(h) THEN known ELSE status.active
    <3>1. CASE Managed(h)
      <4>1. known \in ActiveSet /\ status \in StatusSet
        BY <1>1, <2>4, <3>1, ResumedFacts DEF StatusTypes
      <4> HIDE DEF known
      <4> QED BY <2>1, <3>1, <4>1 DEF StatusSet
    <3>2. CASE ~Managed(h)
      BY <1>1, <2>1, <3>2 DEF StatusTypes
    <3> QED BY <3>1, <3>2
  <2>6. Apart(status'.active)
    BY <2>4, <2>5, ResumedFacts DEF IInv
  <2>7. HelperTypes' /\ \A k \in Helpers : helpers'[k] = IF k = h THEN w ELSE helpers[k]
    <3> HIDE DEF w
    <3> QED BY <1>1, <2>1, <2>3 DEF HelperTypes, HelperSet
  <2>8. \A k \in Helpers : Holds(k)' => k = h
    BY <1>1, <1>3, <2>7, LockedFacts DEF Holds
  <2>9. OneHolder'
    BY <2>8 DEF OneHolder
  <2>10. Busy(w) => Serves(w, status'.active) /\ Undid(w, checkout', hub')
    <3>1. SUFFICES ASSUME Busy(w) PROVE Serves(w, status'.active) /\ Undid(w, checkout', hub')
      OBVIOUS
    <3>2. Managed(h) /\ helpers[h].op \in Operations
      BY <2>4, <3>1 DEF Busy, Managed
    <3>3. known \in ActiveSet /\ known.op = helpers[h].op /\ status'.active = known
      BY <2>5, <3>2, ResumedFacts
    <3>4. known # NoActive
      BY <3>2, <3>3 DEF NoActive, Managed
    <3>5. Serves(w, status'.active)
      <4> HIDE DEF known
      <4> QED BY <3>3, <3>4 DEF Serves, Undoing
    <3>6. Undid(w, checkout', hub')
      BY DEF Undid, Undoing
    <3> QED BY <3>5, <3>6
  <2>11. \A k \in Helpers : Busy(helpers'[k]) => k = h
    BY <2>8 DEF Busy, Holds
  <2>12. IInv'
    <3>1. WorkWell'
      <4> HIDE DEF w
      <4> QED BY <2>7, <2>10, <2>11 DEF WorkWell
    <3>2. StatusTypes' /\ MacTypes'
      BY <1>1, <2>5, Still DEF StatusTypes
    <3> QED BY <2>6, <2>7, <2>9, <3>1, <3>2 DEF IInv
  <2>13. Arms
    <3>1. Enters
      BY <2>1, <2>7 DEF Enters
    <3> QED BY <3>1 DEF Arms
  <2>14. Honest
    <3>1. CASE Managed(h)
      <4>1. Open'
        BY <2>4, <2>5, <3>1, ResumedFacts, ActiveFields DEF Open, ActiveSet, NoActive, UpdaterAssumption
      <4> QED BY <4>1 DEF Honest, Becomes
    <3>2. CASE ~Managed(h)
      BY <2>5, <3>2 DEF Honest, Becomes, Open
    <3> QED BY <3>1, <3>2
  <2> QED BY <2>12, <2>13, <2>14 DEF Good
<1> QED BY <1>2, <1>3

-------------------------------------------------------------------------------
(* The verdict *)

LEMMA OverFacts ==
    ASSUME UpdaterAssumption, IInv, NEW h \in Helpers, Holds(h), NEW result \in {"succeeded", "failed"},
           NEW s \in States,
           NEW back \in Results,
           \/ status' = [status EXCEPT !.state = s, !.pending = FALSE, !.history = Completed(h, result),
                                       !.active = Over(h), !.rollback = back]
           \/ status' = [status EXCEPT !.state = s, !.pending = FALSE, !.rollback = back,
                                       !.history = Completed(h, result), !.active = Over(h)]
    PROVE  /\ status' \in StatusSet /\ status'.rollback = back
           /\ status'.active = Over(h) /\ status'.history = Completed(h, result)
           /\ Over(h) = NoActive \/ (~Managed(h) /\ Over(h) = status.active)
           /\ Managed(h) => helpers[h].op \in Operations
<1>1. status \in StatusSet /\ helpers[h] \in HolderSet /\ status.active \in ActiveSet \cup {NoActive}
      /\ status.history \in [Operations -> Results]
  BY WorkerFacts, StatusFields DEF IInv, StatusTypes
<1>2. Completed(h, result) \in [Operations -> Results]
  BY <1>1 DEF Completed, Results
<1>3. Over(h) \in ActiveSet \cup {NoActive} /\ (Over(h) = NoActive \/ (~Managed(h) /\ Over(h) = status.active))
  BY <1>1 DEF Over
<1>4. Managed(h) => helpers[h].op \in Operations
  BY <1>1 DEF Managed, HolderSet, Ranges, Asks
<1>5. status' \in StatusSet /\ status'.rollback = back /\ status'.active = Over(h)
      /\ status'.history = Completed(h, result)
  BY <1>1, <1>2, <1>3 DEF StatusSet
<1> QED BY <1>3, <1>4, <1>5

(* What is left to the helper is to look after the schedule. *)
LEMMA OverGood ==
    ASSUME UpdaterAssumption, IInv, NEW h \in Helpers, Holds(h), Stays(h, "reschedule"),
           status' \in StatusSet, status'.active = Over(h),
           NEW result \in {"succeeded", "failed"}, status'.history = Completed(h, result),
           Over(h) = NoActive \/ (~Managed(h) /\ Over(h) = status.active),
           UNCHANGED << schedule, checkout, hub >>
    PROVE  IInv' /\ Arms
<1> DEFINE w == [helpers[h] EXCEPT !.pc = "reschedule"]
<1>1. w \in HolderSet /\ helpers' = [helpers EXCEPT ![h] = w] /\ w.pc = "reschedule"
  <2>1. "reschedule" \in Holding \ (Doing \cup Undoing)
    BY DEF Holding, Doing, Undoing
  <2>2. Fitting(helpers[h], "reschedule")
    BY <2>1 DEF Fitting
  <2> QED BY <2>1, <2>2, WorkerFacts, Moved DEF IInv
<1>2. StatusTypes' /\ MacTypes' /\ Apart(status'.active)
  BY Still DEF IInv, StatusTypes, Apart
<1>3. IInv'
  <2> HIDE DEF w
  <2> QED BY <1>1, <1>2, HolderStep DEF Busy
<1>4. Arms
  <2> SUFFICES ASSUME NEW op \in Operations, Unsettled(op)'
               PROVE  schedule' \/ (Unsettled(op) /\ ~schedule)
    BY DEF Arms
  <2>1. ~Managed(h) /\ status'.active = status.active
    BY DEF Unsettled, Open
  <2>2. status'.history = status.history
    BY <2>1 DEF Completed
  <2>3. Unsettled(op)
    BY <2>1, <2>2 DEF Unsettled, Open
  <2> QED BY <2>3 DEF IInv, StatusTypes
<1> QED BY <1>3, <1>4

(* A success is told of the commit the operation asked for, on a Hub that     *)
(* attests it.                                                                *)
LEMMA SucceedGood ==
    ASSUME UpdaterAssumption, IInv, NEW h \in Helpers, Succeed(h)
    PROVE  Good
<1> DEFINE back == IF helpers[h].old = helpers[h].new THEN status.rollback ELSE "none"
<1>1. /\ helpers[h].pc = "health" /\ Stays(h, "reschedule") /\ UNCHANGED << schedule, checkout, hub >>
      /\ Attested(h, helpers[h].new) \/ ~Managed(h)
  BY DEF Succeed
<1>2. helpers[h].pc \in Holding /\ helpers[h].pc # "reschedule"
  BY <1>1 DEF Holding, Doing
<1>3. Holds(h) /\ StatusTypes
  BY <1>2, AtWork
<1>4. back \in Results /\ "succeeded" \in States
  BY <1>3, StatusFields DEF StatusTypes, Results, States
<1>5. status' = [status EXCEPT !.state = "succeeded", !.pending = FALSE, !.history = Completed(h, "succeeded"),
                               !.active = Over(h), !.rollback = back]
  BY DEF Succeed
<1> HIDE DEF back
<1>6. /\ status' \in StatusSet
      /\ status'.active = Over(h) /\ status'.history = Completed(h, "succeeded")
      /\ Over(h) = NoActive \/ (~Managed(h) /\ Over(h) = status.active)
      /\ Managed(h) => helpers[h].op \in Operations
  BY <1>3, <1>4, <1>5, OverFacts
<1>7. IInv' /\ Arms
  BY <1>1, <1>3, <1>6, OverGood
<1>8. Honest
  <2> SUFFICES ASSUME NEW op \in Operations, Becomes(op, "succeeded") \/ Becomes(op, "failed")
               PROVE  /\ Managed(h) /\ helpers[h].op = op /\ status'.history[op] = "succeeded"
                      /\ \/ Runs(Target[op])
                         \/ status.active.mode = "stopped" /\ checkout.files = Target[op]
    BY DEF Honest, Becomes
  <2>1. Open /\ ~Open' /\ status.active.op = op
    BY DEF Becomes
  <2>2. Managed(h)
    BY <1>6, <2>1 DEF Open, Over
  <2>3. Serves(helpers[h], status.active)
    BY <1>2, <2>2, AtWork
  <2>4. helpers[h].old # 0
    BY <1>1, DoingFacts DEF Doing
  <2>5. helpers[h].op = op /\ helpers[h].new = Target[op] /\ helpers[h].mode = status.active.mode
    BY <2>1, <2>3, <2>4 DEF Serves
  <2>6. status'.history[op] = "succeeded"
    BY <1>3, <1>6, <2>2, <2>5, StatusFields DEF Completed, StatusTypes
  <2>7. Attested(h, Target[op])
    BY <1>1, <2>2, <2>5
  <2> QED BY <2>2, <2>5, <2>6, <2>7 DEF Attested, Runs
<1> QED BY <1>7, <1>8 DEF Good

(* A failure is told with the truth about the files. *)
LEMMA FailGood ==
    ASSUME UpdaterAssumption, IInv, NEW h \in Helpers, Fail(h)
    PROVE  Good
<1>1. /\ helpers[h].pc = "fail" /\ Stays(h, "reschedule") /\ UNCHANGED << schedule, checkout, hub >>
      /\ status' = [status EXCEPT !.state = "failed", !.pending = FALSE, !.rollback = helpers[h].undone,
                                  !.history = Completed(h, "failed"), !.active = Over(h)]
  BY DEF Fail
<1>2. helpers[h].pc \in Holding /\ helpers[h].pc # "reschedule"
  BY <1>1 DEF Holding
<1>3. Holds(h) /\ StatusTypes /\ helpers[h] \in HolderSet
  BY <1>2, AtWork
<1>4. helpers[h].undone \in Results /\ "failed" \in States
  BY <1>3 DEF HolderSet, Ranges, States
<1>5. /\ status' \in StatusSet /\ status'.rollback = helpers[h].undone
      /\ status'.active = Over(h) /\ status'.history = Completed(h, "failed")
      /\ Over(h) = NoActive \/ (~Managed(h) /\ Over(h) = status.active)
      /\ Managed(h) => helpers[h].op \in Operations
  BY <1>1, <1>3, <1>4, OverFacts
<1>6. IInv' /\ Arms
  BY <1>1, <1>3, <1>5, OverGood
<1>7. Honest
  <2>1. ASSUME NEW op \in Operations, status.active.op = op, Open, ~Open'
        PROVE  /\ status'.history[op] = "failed"
               /\ Origin # 0 =>
                    \/ Unchecked \/ status'.rollback = "failed"
                    \/ /\ Clean /\ checkout.head = Origin
                       /\ status'.rollback = "succeeded" /\ status.active.mode # "stopped" => Runs(Origin)
    <3>1. Managed(h)
      BY <1>5, <2>1 DEF Open, Over
    <3>2. Serves(helpers[h], status.active) /\ Undid(helpers[h], checkout, hub)
      BY <1>2, <3>1, AtWork
    <3>3. helpers[h].op = op /\ helpers[h].mode = status.active.mode
      BY <2>1, <3>2 DEF Serves
    <3>4. status'.history[op] = "failed"
      BY <1>3, <1>5, <2>1, <3>1, <3>3, StatusFields DEF Completed, StatusTypes
    <3>5. Origin # Target[op]
      BY <2>1 DEF IInv, Apart, Open, Origin
    <3>6. CASE Origin = 0 \/ helpers[h].old = 0
      BY <1>1, <3>4, <3>6 DEF Unchecked
    <3>7. CASE Origin # 0 /\ helpers[h].old # 0
      <4>1. helpers[h].old = Origin /\ helpers[h].new = Target[op]
        BY <3>2, <3>3, <3>7 DEF Serves, Origin
      <4>2. helpers[h].undone # "none"
        BY <1>1, <3>2, <3>5, <3>7, <4>1 DEF Undid
      <4>3. CASE helpers[h].undone = "failed"
        BY <1>5, <3>4, <4>3
      <4>4. CASE helpers[h].undone = "succeeded"
        BY <1>1, <3>2, <3>3, <3>4, <4>1, <4>4 DEF Undid, Back, RunsOn, Runs, Clean
      <4> QED BY <1>4, <4>2, <4>3, <4>4 DEF Results
    <3> QED BY <3>6, <3>7
  <2> QED BY <2>1 DEF Honest, Becomes
<1> QED BY <1>6, <1>7 DEF Good

(* The schedule goes with the work it was forced for. *)
LEMMA RescheduleGood ==
    ASSUME IInv, NEW h \in Helpers, Reschedule(h)
    PROVE  Good
<1>1. HelperTypes /\ MacTypes /\ schedule \in BOOLEAN
  BY DEF IInv, StatusTypes
<1>2. Ends(h) /\ UNCHANGED << status, checkout, hub >>
  BY DEF Reschedule
<1>3. schedule' \in BOOLEAN /\ (schedule' \/ schedule' = schedule \/ ~Open)
  BY <1>1, ArmedFacts DEF Reschedule
<1>4. "idle" \in States /\ FALSE \in BOOLEAN
  BY DEF States
<1> QED BY <1>1, <1>2, <1>3, <1>4, Rests, Still, FlaggedGood

-------------------------------------------------------------------------------
(* All steps of the helpers, of the Hub and of people *)

LEMMA Untouched ==
    ASSUME IInv, UNCHANGED updaterVars
    PROVE  Good
<1>1. HelperTypes /\ MacTypes /\ schedule \in BOOLEAN /\ UNCHANGED << status, schedule, checkout, hub,
          helpers >>
  BY DEF IInv, StatusTypes, updaterVars
<1>2. "idle" \in States /\ FALSE \in BOOLEAN
  BY DEF States
<1> QED BY <1>1, <1>2, NobodyMoves, Still, FlaggedGood

LEMMA HelperGood ==
    ASSUME UpdaterAssumption, IInv, NEW h \in Helpers, HelperGoesOn(h) \/ HelperFails(h) \/ HelperKilled(h)
    PROVE  Good
<1>1. CASE HelperMoves(h)
  <2>1. CASE TickReads(h) \/ TickChecked(h)
    BY <2>1, TickGood
  <2>2. CASE Enter(h)
    BY <2>2, EnterGood
  <2>3. CASE Preflight(h)
    BY <2>3, PreflightGood
  <2>4. CASE PreflightRefuses(h) \/ Unattested(h)
    BY <2>4, FailsGood
  <2>5. CASE Announce(h) \/ Stop(h) \/ Merge(h) \/ Deps(h) \/ Restart(h)
    BY <2>5, ForwardGood
  <2>6. CASE Succeed(h)
    BY <2>6, SucceedGood
  <2>7. CASE Reschedule(h)
    BY <2>7, RescheduleGood
  <2>8. CASE UndoStop(h) \/ UndoFiles(h) \/ UndoHead(h) \/ UndoStart(h) \/ UndoHealth(h)
    BY <2>8, UndoGood
  <2>9. CASE Fail(h)
    BY <2>9, FailGood
  <2> QED BY <1>1, <2>1, <2>2, <2>3, <2>4, <2>5, <2>6, <2>7, <2>8, <2>9 DEF HelperMoves
<1>2. CASE Passes(h, Idle) \/ Defers(h, Idle)
  <2>1. Idle \in BOOLEAN
    BY DEF Idle
  <2> QED BY <1>2, <2>1, PassesGood, DefersGood
<1>3. CASE StepFails(h)
  BY <1>3, FailsGood
<1>4. CASE UndoFails(h)
  BY <1>4, UndoGood
<1>5. CASE HelperDies(h)
  BY <1>5, DiesGood
<1> QED BY <1>1, <1>2, <1>3, <1>4, <1>5 DEF HelperGoesOn, HelperFails, HelperKilled

LEMMA AskedGood ==
    ASSUME UpdaterAssumption, IInv, Asked
    PROVE  Good
<1>1. CASE \E op \in Operations : AskManaged(op)
  BY <1>1, TriggerGood DEF AskManaged
<1>2. CASE \E op \in Operations : RowStarts(op)
  BY <1>2, Untouched DEF RowStarts
<1>3. CASE \E h \in Spawns : AskPlain(h)
  BY <1>3, PlainGood DEF AskPlain
<1>4. CASE \E mode \in {"off", "notify", "auto"} : AskSettings(mode)
  BY <1>4, SettingsGood DEF AskSettings
<1>5. CASE \E chosen \in SUBSET Studios : AskRolling(chosen) \/ AskJob(chosen)
  BY <1>5, Untouched DEF AskRolling, AskJob, UpdaterStays
<1>6. CASE \E force \in BOOLEAN : AskRestart(force)
  BY <1>6, RestartGood DEF AskRestart
<1>7. CASE AskDrained
  BY <1>7, PlainGood DEF AskDrained
<1>8. CASE AskCheck
  BY <1>8, CheckGood DEF AskCheck
<1>9. CASE AskWork
  BY <1>9, Untouched DEF AskWork, UpdaterStays
<1> QED BY <1>1, <1>2, <1>3, <1>4, <1>5, <1>6, <1>7, <1>8, <1>9 DEF Asked

(* The Controller's row *)
RowTypes == row \in [status : {"none", "failed", "complete"}]
                   \cup [status : {"checking", "posting", "polling"}, op : Operations]
RowHonest == row'.status = "complete" /\ row'.status # row.status => Runs(Target[row.op])
RowGood == RowTypes' /\ RowHonest

LEMMA RowFacts ==
    ASSUME RowTypes
    PROVE  /\ RowActive => row.op \in Operations
           /\ \A next \in {"posting", "polling"} : RowActive /\ RowBecomes(next) => RowGood
           /\ RowEnds("failed") => RowGood
           /\ UNCHANGED row => RowGood
<1>1. RowActive => row \in [status : {"checking", "posting", "polling"}, op : Operations]
  BY DEF RowTypes, RowActive
<1>2. \A next \in {"posting", "polling"} : RowActive /\ RowBecomes(next) => RowGood
  BY <1>1 DEF RowBecomes, RowGood, RowTypes, RowHonest
<1>3. RowEnds("failed") => RowGood
  BY DEF RowEnds, RowGood, RowTypes, RowHonest
<1>4. UNCHANGED row => RowGood
  BY DEF RowGood, RowTypes, RowHonest
<1> QED BY <1>1, <1>2, <1>3, <1>4

(* A row that ends as complete has seen the Hub run the commit. *)
LEMMA RowCompletes ==
    ASSUME Runs(Target[row.op]), RowEnds("complete")
    PROVE  RowGood
  BY DEF RowEnds, RowGood, RowTypes, RowHonest

LEMMA RowStep ==
    ASSUME UpdaterAssumption, IInv, RowTypes, Row
    PROVE  Good /\ RowGood
<1>1. CASE RowChecks
  <2>1. RowActive /\ UNCHANGED updaterVars
    BY <1>1 DEF RowChecks, RowActive
  <2>2. RowEnds("failed") \/ (Runs(Target[row.op]) /\ RowEnds("complete")) \/ RowBecomes("posting")
    BY <1>1 DEF RowChecks
  <2> QED BY <2>1, <2>2, RowFacts, RowCompletes, Untouched
<1>2. CASE RowPosts
  <2>1. RowActive /\ row.op \in Operations
    BY <1>2, RowFacts DEF RowPosts, RowActive
  <2>2. TriggerManaged(row.op, TRUE) \/ UNCHANGED updaterVars
    BY <1>2 DEF RowPosts
  <2>3. RowBecomes("polling") \/ RowEnds("failed")
    BY <1>2 DEF RowPosts
  <2> QED BY <2>1, <2>2, <2>3, RowFacts, TriggerGood, Untouched
<1>3. CASE RowUnheard
  <2>1. RowActive /\ UNCHANGED updaterVars /\ RowBecomes("polling")
    BY <1>3 DEF RowUnheard, RowActive
  <2> QED BY <2>1, RowFacts, Untouched
<1>4. CASE RowPolls
  <2>1. UNCHANGED updaterVars /\ (RowEnds("failed") \/ (Runs(Target[row.op]) /\ RowEnds("complete")))
    BY <1>4 DEF RowPolls, Proven
  <2> QED BY <2>1, RowFacts, RowCompletes, Untouched
<1>5. CASE RowGivesUp \/ RowInterrupted
  <2>1. UNCHANGED updaterVars /\ RowEnds("failed")
    BY <1>5 DEF RowGivesUp, RowInterrupted
  <2> QED BY <2>1, RowFacts, Untouched
<1> QED BY <1>1, <1>2, <1>3, <1>4, <1>5 DEF Row

LEMMA RowElse ==
    ASSUME RowTypes, Next
    PROVE  Row \/ RowGood
<1>1. CASE UNCHANGED row
  BY <1>1, RowFacts
<1>2. CASE \E op \in Operations : RowStarts(op)
  BY <1>2 DEF RowStarts, RowGood, RowTypes, RowHonest
<1> QED BY <1>1, <1>2 DEF Next, Asked, Troubled, AskManaged, AskPlain, AskSettings, AskRolling, AskJob,
               AskRestart, AskDrained, AskCheck, AskWork, HelperFails, HelperKilled, NotStarted, Restarts,
               SiteMoves, SiteWaitsOver, UpdaterMoves, DrainMoves, HelperGoesOn, Scheduled, Starts,
               SiteStays, UpdaterStays

(* Every step *)
LEMMA NextGood ==
    ASSUME UpdaterAssumption, IInv, RowTypes, Next
    PROVE  Good /\ RowGood
<1>1. Good
  <2>1. CASE Asked
    BY <2>1, AskedGood
  <2>2. CASE Troubled
    <3>1. CASE \E op \in Operations : NotStarted(op)
      BY <3>1, TriggerGood DEF NotStarted
    <3>2. CASE Restarts
      BY <3>2, RebootGood DEF Restarts
    <3> QED BY <2>2, <3>1, <3>2, HelperGood DEF Troubled
  <2>3. CASE Row
    BY <2>3, RowStep
  <2>4. CASE SiteMoves \/ SiteWaitsOver
    BY <2>4, Untouched DEF SiteMoves, SiteWaitsOver, UpdaterStays
  <2>5. CASE UpdaterMoves
    BY <2>5, ApplyGood, CheckGood DEF UpdaterMoves
  <2>6. CASE DrainMoves
    BY <2>6, PlainGood DEF DrainMoves
  <2>7. CASE \E h \in Helpers : HelperGoesOn(h)
    BY <2>7, HelperGood
  <2>8. CASE Scheduled
    BY <2>8, TickGood DEF Scheduled
  <2>9. CASE Starts
    BY <2>9, OperatorGood DEF Starts
  <2> QED BY <2>1, <2>2, <2>3, <2>4, <2>5, <2>6, <2>7, <2>8, <2>9 DEF Next
<1> QED BY <1>1, RowStep, RowElse

(* ... and the first state *)
LEMMA Begins == UpdaterAssumption /\ Init => IInv /\ RowTypes
<1> SUFFICES ASSUME UpdaterAssumption, Init PROVE IInv /\ RowTypes
  OBVIOUS
<1>1. /\ status = [state |-> "idle", active |-> NoActive, pending |-> FALSE, rollback |-> "none",
                   history |-> [op \in Operations |-> "none"]]
      /\ schedule = FALSE /\ checkout = [head |-> 1, files |-> 1]
      /\ hub \in [up : {TRUE}, loaded : {1}, owner : Owners, applying : {"no"}, checking : {FALSE}]
      /\ helpers = [h \in Helpers |-> NoHelper] /\ row = NoRow
  BY DEF Init, UpdaterInit
<1>2. StatusTypes /\ Apart(status.active)
  BY <1>1 DEF StatusTypes, StatusSet, States, Results, Apart
<1>3. 1 \in Commits
  BY DEF Commits, UpdaterAssumption
<1>4. MacTypes
  BY <1>1, <1>3 DEF MacTypes, CheckoutSet, HubSet
<1>5. HelperTypes /\ OneHolder /\ WorkWell
  BY <1>1, NoHelperSet DEF HelperTypes, OneHolder, Holds, WorkWell, Busy
<1>6. RowTypes
  BY <1>1 DEF NoRow, RowTypes
<1> QED BY <1>2, <1>4, <1>5, <1>6 DEF IInv

LEMMA StutterGood == IInv /\ RowTypes /\ UNCHANGED vars => Good /\ RowGood
  BY Untouched, RowFacts DEF vars, updaterVars

(* The inductive invariant holds in every reachable state. *)
THEOREM Invariance == Spec => [](IInv /\ RowTypes)
<1>1. IInv /\ RowTypes /\ [Next]_vars => (IInv /\ RowTypes)'
  BY UpdaterAssumption, NextGood, StutterGood DEF Good, RowGood
<1> QED BY <1>1, Begins, UpdaterAssumption, PTL DEF Spec

(* An operation is over as succeeded only on a Hub that runs its commit, and   *)
(* the Controller's row with it; one that is over as failed is told the truth  *)
(* about its files, through every crash and retry.                             *)
THEOREM VerdictsAreTrue == Spec => VerdictsTrue
<1>1. IInv /\ RowTypes /\ [Next]_vars => Honest /\ RowHonest
  BY UpdaterAssumption, NextGood, StutterGood DEF Good, RowGood
<1> QED BY <1>1, Invariance, PTL DEF Spec, VerdictsTrue, Honest, RowHonest

(* Neither settings saved, nor the end of another update, nor a schedule that  *)
(* finds itself switched off takes away the recovery of an open operation.     *)
THEOREM RecoveryStaysArmed == Spec => RecoveryArmed
<1>1. IInv /\ RowTypes /\ [Next]_vars => Arms
  BY UpdaterAssumption, NextGood, StutterGood DEF Good
<1> QED BY <1>1, Invariance, PTL DEF Spec, RecoveryArmed, Arms

-------------------------------------------------------------------------------
(* The withdrawals of Studios *)

SiteTypes ==
    /\ maintenance \in SUBSET Studios /\ withdrawn \in SUBSET Studios
    /\ jobs \in [Kinds -> [open : BOOLEAN, items : [Studios -> Items]]]
ClosedJobs == \A k \in Kinds : ~jobs[k].open => jobs[k].items = NoItems
(* Somebody gives the Studio back: the drain, or the job that works on it. *)
Owned(s) == s \in withdrawn \/ \E k \in Kinds : s \in Working(k)
WithdrawalsOwned == (drain = "none" => withdrawn = {}) /\ \A s \in maintenance : Owned(s)
SiteInv == SiteTypes /\ ClosedJobs /\ WithdrawalsOwned

(* The drain is not over without the site being told. *)
DrainKept == drain' = "none" => drain = "none"

LEMMA SiteUntouched ==
    ASSUME SiteInv, UNCHANGED << maintenance, withdrawn, jobs >>, DrainKept
    PROVE  SiteInv'
  BY DEF SiteInv, SiteTypes, ClosedJobs, WithdrawalsOwned, Owned, Working, Has, DrainKept

LEMMA SiteEmptied ==
    ASSUME SiteRestarts
    PROVE  SiteInv'
<1>1. maintenance' = {} /\ withdrawn' = {} /\ jobs' = [k \in Kinds |-> NoJob]
  BY DEF SiteRestarts, JobsInterrupted
<1>2. NoJob \in [open : BOOLEAN, items : [Studios -> Items]] /\ NoJob.items = NoItems
  BY DEF NoJob, NoItems, Items
<1> QED BY <1>1, <1>2 DEF SiteInv, SiteTypes, ClosedJobs, WithdrawalsOwned

(* The drain takes the Studios nobody has withdrawn, and only those. *)
LEMMA SiteDrained ==
    ASSUME SiteInv, DrainBegins, drain = "none", drain' # "none"
    PROVE  SiteInv'
<1>1. \A s \in Studios : s \notin maintenance \/ \E k \in Kinds : s \in Working(k)
  BY DEF SiteInv, WithdrawalsOwned, Owned
<1>2. withdrawn' = Studios \ maintenance /\ maintenance' = Studios /\ jobs' = jobs
  BY DEF DrainBegins
<1>3. \A k \in Kinds : Working(k)' = Working(k)
  BY <1>2 DEF Working, Has
<1> QED BY <1>1, <1>2, <1>3 DEF SiteInv, SiteTypes, ClosedJobs, WithdrawalsOwned, Owned

LEMMA SiteReleased ==
    ASSUME SiteInv, DrainReleased
    PROVE  SiteInv'
<1>1. withdrawn' = {} /\ maintenance' = maintenance \ withdrawn /\ jobs' = jobs
  BY DEF DrainReleased
<1>2. \A k \in Kinds : Working(k)' = Working(k)
  BY <1>1 DEF Working, Has
<1> QED BY <1>1, <1>2 DEF SiteInv, SiteTypes, ClosedJobs, WithdrawalsOwned, Owned

(* A step of a job: what it works on it has withdrawn, and gives back. *)
LEMMA JobOpens ==
    ASSUME SiteInv, NEW k \in Kinds, NEW chosen \in SUBSET Studios, Opens(k, chosen), UNCHANGED drain
    PROVE  SiteInv'
<1> DEFINE items == [s \in Studios |-> IF s \in chosen THEN "queued" ELSE "out"]
           job == [open |-> TRUE, items |-> items]
<1>1. /\ ~jobs[k].open /\ jobs' = [jobs EXCEPT ![k] = job]
      /\ UNCHANGED << maintenance, withdrawn >>
  BY DEF Opens
<1>2. items \in [Studios -> Items] /\ job.open /\ job \in [open : BOOLEAN, items : [Studios -> Items]]
  BY DEF Items
<1>3. jobs[k].items = NoItems
  BY <1>1 DEF SiteInv, ClosedJobs
<1>4. Working(k) = {}
  BY <1>3 DEF Working, Has, NoItems
<1>5. \A l \in Kinds : l # k => Working(l)' = Working(l)
  BY <1>1 DEF SiteInv, SiteTypes, Working, Has
<1> HIDE DEF items, job
<1>6. SiteTypes' /\ ClosedJobs'
  BY <1>1, <1>2 DEF SiteInv, SiteTypes, ClosedJobs
<1>7. WithdrawalsOwned'
  BY <1>1, <1>4, <1>5 DEF SiteInv, WithdrawalsOwned, Owned
<1> QED BY <1>6, <1>7 DEF SiteInv

LEMMA JobMoves ==
    ASSUME SiteInv, NEW k \in Kinds, NEW s \in Studios, NEW state \in Items, jobs[k].open,
           ItemBecomes(k, s, state), UNCHANGED << withdrawn, drain >>,
           \/ state \in {"draining", "working"} /\ maintenance' \in {maintenance, maintenance \cup {s}}
           \/ maintenance' = maintenance \ {s}
    PROVE  SiteInv'
<1>1. /\ jobs \in [Kinds -> [open : BOOLEAN, items : [Studios -> Items]]]
      /\ jobs' = [jobs EXCEPT ![k].items[s] = state]
  BY DEF SiteInv, SiteTypes, ItemBecomes
<1>2. /\ jobs' \in [Kinds -> [open : BOOLEAN, items : [Studios -> Items]]]
      /\ \A l \in Kinds : jobs'[l].open = jobs[l].open /\ (l # k => jobs'[l].items = jobs[l].items)
      /\ jobs'[k].items[s] = state
      /\ \A t \in Studios : t # s => jobs'[k].items[t] = jobs[k].items[t]
  BY <1>1
<1>3. SiteTypes' /\ ClosedJobs'
  BY <1>2 DEF SiteInv, SiteTypes, ClosedJobs
<1>4. \A t \in Studios, l \in Kinds : t # s /\ t \in Working(l) => t \in Working(l)'
  BY <1>2 DEF Working, Has
<1>5. state \in {"draining", "working"} => s \in Working(k)'
  BY <1>2 DEF Working, Has
<1>6. \A t \in maintenance' : Owned(t)'
  <2> SUFFICES ASSUME NEW t \in maintenance' PROVE Owned(t)'
    OBVIOUS
  <2>1. CASE t = s
    BY <1>5, <2>1 DEF Owned
  <2>2. CASE t # s
    <3>1. t \in Studios /\ Owned(t)
      BY <2>2 DEF SiteInv, SiteTypes, WithdrawalsOwned
    <3> QED BY <1>4, <2>2, <3>1 DEF Owned
  <2> QED BY <2>1, <2>2
<1> QED BY <1>3, <1>6 DEF SiteInv, WithdrawalsOwned

LEMMA JobGoesOn ==
    ASSUME SiteInv, NEW k \in Kinds, NEW s \in Studios, UNCHANGED drain,
           Drains(k, s) \/ Works(k, s) \/ ItemTimesOut(k, s) \/ \E result : Ended(k, s, result)
    PROVE  SiteInv'
<1>1. CASE Drains(k, s)
  BY <1>1, JobMoves DEF Drains, Items
<1>2. CASE Works(k, s)
  BY <1>2, JobMoves DEF Works, Items
<1>3. CASE ItemTimesOut(k, s)
  BY <1>3, JobMoves DEF ItemTimesOut, GivenBack, Items
<1>4. CASE \E result : Ended(k, s, result)
  BY <1>4, JobMoves DEF Ended, GivenBack, Items
<1> QED BY <1>1, <1>2, <1>3, <1>4

LEMMA JobEnds ==
    ASSUME SiteInv, NEW k \in Kinds, JobCloses(k), UNCHANGED drain
    PROVE  SiteInv'
<1>1. Working(k) = {} /\ jobs' = [jobs EXCEPT ![k] = NoJob] /\ UNCHANGED << maintenance, withdrawn >>
  BY DEF JobCloses
<1>2. NoJob \in [open : BOOLEAN, items : [Studios -> Items]] /\ NoJob.items = NoItems
  BY DEF NoJob, NoItems, Items
<1>3. SiteTypes' /\ ClosedJobs'
  BY <1>1, <1>2 DEF SiteInv, SiteTypes, ClosedJobs
<1>4. \A l \in Kinds : l # k => Working(l)' = Working(l)
  BY <1>1 DEF SiteInv, SiteTypes, Working, Has
<1>5. WithdrawalsOwned'
  BY <1>1, <1>4 DEF SiteInv, WithdrawalsOwned, Owned
<1> QED BY <1>3, <1>5 DEF SiteInv

(* A helper that stops or replaces the Hub ends its drain with its jobs, and  *)
(* no other step of a helper touches either.                                  *)
LEMMA HelperSite ==
    ASSUME SiteInv, NEW h \in Helpers, HelperGoesOn(h)
    PROVE  SiteInv'
<1>1. CASE HelperMoves(h) /\ Replaces(h)
  BY <1>1, SiteEmptied DEF HelperGoesOn, Replaces, Passes, Defers
<1>2. CASE HelperMoves(h) /\ ~Replaces(h)
  <2>1. drain' = drain
    BY <1>2 DEF HelperMoves, Replaces, TickReads, TickChecked, Enter, Preflight, PreflightRefuses,
                Announce, Stop, Merge, Deps, Restart, Succeed, Reschedule, Unattested, UndoStop,
                UndoFiles, UndoHead, UndoStart, UndoHealth, Fail, Stopped
  <2> QED BY <1>2, <2>1, SiteUntouched DEF HelperGoesOn, SiteStays, siteVars, DrainKept
<1>3. CASE (Passes(h, Idle) \/ Defers(h, Idle)) /\ SiteStays
  BY <1>3, SiteUntouched DEF Passes, Defers, SiteStays, siteVars, DrainKept
<1> QED BY <1>1, <1>2, <1>3 DEF HelperGoesOn

LEMMA MovesSite ==
    ASSUME SiteInv, SiteMoves \/ SiteWaitsOver
    PROVE  SiteInv'
<1>1. UNCHANGED drain
  BY DEF SiteMoves, SiteWaitsOver, UpdaterStays, updaterVars
<1>2. {"update", "install", "repair"} \subseteq Kinds
  BY DEF Kinds
<1>3. CASE \E s \in Studios : Pick(s) \/ Lease(s) \/ LeaseEnds(s) \/ RollingBegins(s) \/ RollingEnds(s)
  BY <1>1, <1>3, SiteUntouched DEF Pick, Lease, LeaseEnds, RollingBegins, RollingEnds, DrainKept
<1>4. CASE \E s \in Studios : UpdateGoesOn(s) \/ InstallGoesOn(s) \/ RepairGoesOn(s)
  BY <1>1, <1>2, <1>4, JobGoesOn DEF UpdateGoesOn, InstallGoesOn, RepairGoesOn
<1>5. CASE \E s \in Studios : UpdateEnds(s) \/ InstallEnds(s) \/ RepairEnds(s)
  BY <1>1, <1>2, <1>5, JobGoesOn DEF UpdateEnds, InstallEnds, RepairEnds
<1>6. CASE \E k \in Kinds : JobCloses(k)
  BY <1>1, <1>6, JobEnds
<1>7. CASE SiteWaitsOver
  BY <1>1, <1>7, JobGoesOn DEF SiteWaitsOver
<1> QED BY <1>3, <1>4, <1>5, <1>6, <1>7 DEF SiteMoves

LEMMA AskedSite ==
    ASSUME SiteInv, Asked
    PROVE  SiteInv'
<1>1. CASE \E op \in Operations : AskManaged(op) \/ RowStarts(op)
  BY <1>1, SiteUntouched DEF AskManaged, TriggerManaged, QueueManaged, RowStarts, SiteStays, siteVars,
                             updaterVars, DrainKept
<1>2. CASE \E h \in Spawns : AskPlain(h)
  BY <1>2, SiteUntouched DEF AskPlain, TriggerPlain, SiteStays, siteVars, DrainKept
<1>3. CASE \E mode \in {"off", "notify", "auto"} : AskSettings(mode)
  BY <1>3, SiteUntouched DEF AskSettings, SaveSettings, SiteStays, siteVars, DrainKept
<1>4. CASE \E chosen \in SUBSET Studios : AskRolling(chosen)
  BY <1>4, SiteUntouched DEF AskRolling, StartRolling, UpdaterStays, updaterVars, DrainKept
<1>5. CASE \E chosen \in SUBSET Studios : AskJob(chosen)
  <2>1. UNCHANGED drain /\ {"update", "install", "repair"} \subseteq Kinds
    BY <1>5 DEF AskJob, UpdaterStays, updaterVars, Kinds
  <2> QED BY <1>5, <2>1, JobOpens DEF AskJob, StartUpdates, StartInstalls, StartRepairs
<1>6. CASE \E force \in BOOLEAN : AskRestart(force)
  BY <1>6, SiteEmptied DEF AskRestart
<1>7. CASE AskDrained
  BY <1>7, SiteDrained DEF AskDrained, TriggerDrained
<1>8. CASE AskCheck \/ AskWork
  BY <1>8, SiteUntouched DEF AskCheck, CheckStarts, SiteStays, siteVars, AskWork, Submit, UpdaterStays,
                             updaterVars, DrainKept
<1> QED BY <1>1, <1>2, <1>3, <1>4, <1>5, <1>6, <1>7, <1>8 DEF Asked

LEMMA DrainSite ==
    ASSUME SiteInv, DrainMoves
    PROVE  SiteInv'
<1>1. CASE DrainReleased
  BY <1>1, SiteReleased
<1>2. CASE UNCHANGED siteVars /\ \E h \in Spawns : DrainEmpty(h) /\ ~Open
  BY <1>2, SiteUntouched DEF DrainEmpty, siteVars, DrainKept
<1> QED BY <1>1, <1>2 DEF DrainMoves

(* Every other step leaves the site alone. *)
LEMMA SiteGood ==
    ASSUME SiteInv, [Next]_vars
    PROVE  SiteInv'
<1>1. CASE Asked
  BY <1>1, AskedSite
<1>2. CASE Troubled
  <2>1. CASE \E h \in Helpers : HelperFails(h) \/ HelperKilled(h)
    BY <2>1, SiteUntouched DEF HelperFails, StepFails, UndoFails, HelperKilled, HelperDies, SiteStays,
                               siteVars, DrainKept
  <2>2. CASE \E op \in Operations : NotStarted(op)
    BY <2>2, SiteUntouched DEF NotStarted, TriggerManaged, SiteStays, siteVars, DrainKept
  <2>3. CASE Restarts
    BY <2>3, SiteEmptied DEF Restarts
  <2> QED BY <1>2, <2>1, <2>2, <2>3 DEF Troubled
<1>3. CASE Row
  BY <1>3, SiteUntouched DEF Row, RowChecks, RowPosts, TriggerManaged, RowUnheard, RowPolls, RowGivesUp,
                             RowInterrupted, updaterVars, siteVars, DrainKept
<1>4. CASE SiteMoves \/ SiteWaitsOver
  BY <1>4, MovesSite
<1>5. CASE UpdaterMoves
  BY <1>5, SiteUntouched DEF UpdaterMoves, ApplyScheduler, CheckEnds, SiteStays, siteVars, DrainKept
<1>6. CASE DrainMoves
  BY <1>6, DrainSite
<1>7. CASE \E h \in Helpers : HelperGoesOn(h)
  BY <1>7, HelperSite
<1>8. CASE Scheduled \/ Starts
  BY <1>8, SiteUntouched DEF Scheduled, Tick, Starts, OperatorStarts, SiteStays, siteVars, DrainKept
<1>9. CASE UNCHANGED vars
  BY <1>9, SiteUntouched DEF vars, updaterVars, siteVars, DrainKept
<1> QED BY <1>1, <1>2, <1>3, <1>4, <1>5, <1>6, <1>7, <1>8, <1>9 DEF Next

(* A Studio that is withdrawn is withdrawn by somebody who gives it back: the *)
(* drain of the site, which is still under way, or a job that is at work on   *)
(* it, however updates, installations, repairs, restarts and a drain overlap  *)
(* on the plain set they share.                                               *)
THEOREM WithdrawalsAreOwned == Spec => []WithdrawalsOwned
<1>1. Init => SiteInv
  <2> SUFFICES ASSUME Init PROVE SiteInv
    OBVIOUS
  <2>1. maintenance = {} /\ withdrawn = {} /\ jobs = [k \in Kinds |-> NoJob]
    BY DEF Init, SiteInit
  <2>2. NoJob \in [open : BOOLEAN, items : [Studios -> Items]] /\ NoJob.items = NoItems
    BY DEF NoJob, NoItems, Items
  <2> QED BY <2>1, <2>2 DEF SiteInv, SiteTypes, ClosedJobs, WithdrawalsOwned
<1>2. SiteInv => WithdrawalsOwned
  BY DEF SiteInv
<1> QED BY <1>1, <1>2, SiteGood, PTL DEF Spec
===============================================================================
