----------------------------- MODULE MacSoftware -----------------------------
(* The software on each Mac of a site, and the updaters that change it: the *)
(* release its Hub process has loaded, the release its Image and Voice       *)
(* Studios run, and the durable admission record of the Hub's own updater    *)
(* (auto_update.py).  Studios and their updaters are other repositories: a   *)
(* Studio's update is one external step.                                     *)
(*                                                                           *)
(* Releases are numbered by their sequence: a checkout never moves to an     *)
(* ancestor of what it holds, so no update goes back to a smaller number;    *)
(* only a rollback does, and it ends the operation for good.                 *)
EXTENDS Integers, FiniteSets

CONSTANTS
    Macs,           \* stable machine ids
    Local,          \* "local": the Mac of the Controller
    Releases,       \* the releases GenStudio publishes
    Fittings,       \* the Studios a release covers: Image, Voice
    MaxSupplement,  \* bound: supplements of one release
    NoOp            \* no managed operation

ASSUME SoftwareAssumption ==
    /\ Local \in Macs
    /\ Releases \subseteq Nat \ {0}
    /\ Fittings \subseteq {"image", "voice"}
    /\ MaxSupplement \in Nat

VARIABLES
    loaded,     \* the release of the code each Hub process has loaded
    fits,       \* the release each Studio runs
    trial,      \* rollback_commit of an update not over yet: what its Hub ran before
    undone,     \* history: the newest release each Hub was taken back from, 0 for none
    managed,    \* active_managed_update of each Hub's updater
    verdict     \* managed_operation_history: how each operation ended

softwareVars == << loaded, fits, trial, undone, managed, verdict >>

Components == {"hub"} \cup Fittings

(* The operation a release has for a Mac, a hash of these three values. *)
Ops == Macs \X Releases \X (0 .. MaxSupplement)
OperationId(m, r, g) == << m, r, g >>
MacOf(op) == op[1]
ReleaseOf(op) == op[2]

Outcomes == {"current", "failed", "clean", "wrong"}
FitOutcomes == UNION {[asked -> Outcomes] : asked \in SUBSET Fittings}
Verdicts == {"none", "succeeded", "failed", "clean"}
NoTrial == -1

SoftwareInit ==
    /\ loaded = [m \in Macs |-> 0]
    /\ fits = [m \in Macs |-> [c \in Fittings |-> 0]]
    /\ trial = [m \in Macs |-> NoTrial]
    /\ undone = [m \in Macs |-> 0]
    /\ managed = [m \in Macs |-> NoOp]
    /\ verdict = [op \in Ops |-> "none"]

(* What runs on a Mac, and what has run on it: an update that was rolled     *)
(* back had started the Hub on its release.                                  *)
Running(m, c) == IF c = "hub" THEN loaded[m] ELSE fits[m][c]
TakenBack(m, c, r) == c = "hub" /\ undone[m] >= r
Ran(m, c) == IF c = "hub" /\ undone[m] > loaded[m] THEN undone[m] ELSE Running(m, c)

(* _run_managed_hub_update asks the updater for an operation: one that ended *)
(* is never run again, one at a time is active, and an accepted one waits    *)
(* for the scheduled helper.  The state reported for an operation that ended *)
(* is the updater's latest, which a later check may have written.            *)
HubAnswers(m, op) ==
    IF verdict[op] # "none" THEN {"restarting", "failed"} \cup ({verdict[op]} \ {"succeeded"})
    ELSE IF managed[m] \in {NoOp, op} THEN {"restarting"}
    ELSE {"failed"}
HubAsked(m, op) ==
    managed' = IF verdict[op] = "none" /\ managed[m] = NoOp THEN [managed EXCEPT ![m] = op] ELSE managed

(* The helper stops the Hub once it is idle, merges the release of the       *)
(* active operation, whose rollback point is durable before, and starts the  *)
(* Hub on it; the helper that takes a killed one's place starts it again.    *)
HelperStarts(m) ==
    LET r == ReleaseOf(managed[m]) IN
    /\ managed[m] # NoOp
    /\ loaded[m] < r \/ (loaded[m] = r /\ trial[m] # NoTrial)
    /\ loaded' = [loaded EXCEPT ![m] = r]
    /\ trial' = [trial EXCEPT ![m] = IF @ = NoTrial THEN loaded[m] ELSE @]
    /\ UNCHANGED << fits, undone, managed, verdict >>

Completes(m, how) ==
    /\ managed[m] # NoOp
    /\ verdict' = [verdict EXCEPT ![managed[m]] = how]
    /\ managed' = [managed EXCEPT ![m] = NoOp]
    /\ trial' = [trial EXCEPT ![m] = NoTrial]
    /\ UNCHANGED fits

(* The Hub, by then at work, attests to the release: the operation is over.  *)
HelperVerifies(m) ==
    /\ managed[m] # NoOp /\ loaded[m] = ReleaseOf(managed[m])
    /\ Completes(m, "succeeded")
    /\ UNCHANGED << loaded, undone >>

(* It does not ("clean"), or an earlier step raised: what was merged is      *)
(* taken back and the Hub started on the code it had.                        *)
HelperRollsBack(m, how) ==
    /\ how = "clean" => trial[m] # NoTrial
    /\ Completes(m, how)
    /\ IF trial[m] = NoTrial THEN UNCHANGED << loaded, undone >>
       ELSE /\ loaded' = [loaded EXCEPT ![m] = trial[m]]
            /\ undone' = [undone EXCEPT ![m] = IF @ < loaded[m] THEN loaded[m] ELSE @]

(* It fails before it stopped the Hub, or the rollback is refused: the Hub   *)
(* stays on what it has.                                                     *)
HelperFails(m, how) ==
    /\ Completes(m, how)
    /\ UNCHANGED << loaded, undone >>

(* run_managed_components: every Studio asked ends exactly on the release,   *)
(* and says so, or stays as it is.                                           *)
FitsEnd(m, r, outcome) ==
    /\ \A c \in DOMAIN outcome : outcome[c] = "current" => fits[m][c] <= r
    /\ fits' = [fits EXCEPT ![m] =
          [c \in Fittings |-> IF c \in DOMAIN outcome /\ outcome[c] = "current" THEN r ELSE @[c]]]
=============================================================================
