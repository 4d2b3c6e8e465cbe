----------------------------- MODULE ReleaseIntent -----------------------------
(* What a managed release promises, without runs, children, leases or          *)
(* retries: the release GenStudio wants, how far it is, and the newest software *)
(* that has really run.                                                         *)
EXTENDS Integers

CONSTANT Places     \* the components of every Mac

VARIABLES
    goal,       \* the desired release, 0 for none
    phase,      \* idle, published, active, complete, blocked
    scope,      \* the components the release has to bring to its goal
    reached,    \* those it reports to be there
    real        \* the newest release each component has really run

Settled == {"complete", "blocked"}

IntentInit ==
    /\ goal = 0 /\ phase = "idle" /\ scope = {} /\ reached = {}
    /\ real = [p \in Places |-> 0]

(* A release replaces an earlier one that is not under way; what is desired  *)
(* goes back only by a withdrawal.                                           *)
PublishIntent ==
    /\ phase # "active" /\ goal' > goal
    /\ phase' = "published" /\ scope' = {} /\ reached' = {}
WithdrawIntent ==
    /\ phase # "idle"
    /\ goal' = 0 /\ phase' = "idle" /\ scope' = {} /\ reached' = {}

(* An active release reports only what has really run it, and is complete    *)
(* only when all of its scope is; a complete one goes on only for a fleet    *)
(* that grew, and a blocked one never.                                       *)
Works ==
    /\ scope' \subseteq Places /\ reached' \subseteq scope' /\ \A p \in reached' : real'[p] >= goal
    /\ phase' \in {"active"} \cup Settled
    /\ phase' = "complete" => reached' = scope'
ActivateIntent == phase = "published" /\ phase' = "active" /\ reached' = {} /\ Works
Progress == phase = "active" /\ Works
Grow == phase = "complete" /\ phase' = "active" /\ scope \subseteq scope' /\ scope' # scope /\ Works
Rest == phase' = phase /\ UNCHANGED << scope, reached >>

(* What has run has run. *)
Advance == \A p \in Places : real'[p] >= real[p]

IntentNext ==
    /\ Advance
    /\ \/ PublishIntent \/ WithdrawIntent
       \/ goal' = goal /\ (ActivateIntent \/ Progress \/ Grow \/ Rest)

IntentSpec == IntentInit /\ [][IntentNext]_<< goal, phase, scope, reached, real >>
================================================================================
