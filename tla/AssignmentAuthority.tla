------------------------ MODULE AssignmentAuthority ------------------------
(***************************************************************************)
(* What a site promises GenStudio about execution assignments.  A job has  *)
(* at most one holder, a (fencing token, attempt) pair, and only a greater *)
(* token replaces it.  An attempt goes from unknown to live to dead, and a *)
(* dead attempt never holds a job again.                                   *)
(***************************************************************************)
EXTENDS Naturals

CONSTANTS Jobs, Attempts, NoAttempt,
          Tokens              \* the fencing tokens GenStudio may issue

VARIABLES holder, status
vars == << holder, status >>

Unheld == [token |-> 0, attempt |-> NoAttempt]

Init == /\ holder = [j \in Jobs |-> Unheld]
        /\ status = [a \in Attempts |-> "unknown"]

(* GenStudio assigns job j to attempt a, or repeats its assignment.         *)
Assign(j, a, t) ==
    /\ status[a] # "dead"
    /\ \/ t > holder[j].token
       \/ holder[j] = [token |-> t, attempt |-> a]
    /\ holder' = [holder EXCEPT ![j] = [token |-> t, attempt |-> a]]
    /\ status' = [status EXCEPT ![a] = "live"]

(* Time passes: the leases of some live attempts run out.                   *)
Lapse ==
    /\ \E S \in SUBSET {a \in Attempts : status[a] = "live"} :
          status' = [a \in Attempts |-> IF a \in S THEN "dead" ELSE status[a]]
    /\ UNCHANGED holder

Next == \/ \E j \in Jobs, a \in Attempts, t \in Tokens : Assign(j, a, t)
        \/ Lapse

Spec == Init /\ [][Next]_vars
=============================================================================
