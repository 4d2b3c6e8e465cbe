---------------------------- MODULE MCHubBroker ----------------------------
(* Instances of HubBroker for TLC. *)
EXTENDS HubBroker, TLC

CONSTANTS b1, i1, i2, s1, s2, m1, m2

OneBatch == i1 :> b1 @@ i2 :> b1
OwnMachines == s1 :> m1 @@ s2 :> m2
SharedMachine == s1 :> m1 @@ s2 :> m1
Interchangeable == Permutations({i1, i2}) \cup Permutations({s1, s2})
(* Without restarts nothing reads the rows again; without Voice a worker's  *)
(* job is read by the task that waits for it only.                          *)
WatchedJobs == [i \in Items |-> [s \in Studios |->
                   IF task[i].studio = s THEN job[i][s] ELSE "none"]]
MemoryOnly == << batch, item, [b \in Batches |-> row[b].kept], lease, busy, ext,
                 maint, pass, task, WatchedJobs, cancelling, recovery >>
SwapStudios == Permutations({s1, s2})
OneMachine == s1 :> m1
OneItem == i1 :> b1
AnyStudio == [b \in Batches |-> Studios]
=============================================================================
