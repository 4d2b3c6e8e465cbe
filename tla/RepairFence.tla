------------------------------ MODULE RepairFence ------------------------------
(***************************************************************************)
(* What enrollment repair promises, without rows, tickets, journals or     *)
(* messages: an identity is written only under a claim of the site's       *)
(* present identity, a claim is given once and taken back only when its    *)
(* writer is done, and the site's identity is not changed under a claim.   *)
(***************************************************************************)
EXTENDS Naturals

CONSTANT Requests

VARIABLES
    site,       \* the Controller's site identity, counted by its changes
    claimed,    \* requests whose claim is out
    spent,      \* requests whose claim was ever given
    writing     \* requests whose target is between its claim and its outcome

fenceVars == << site, claimed, spent, writing >>

Init == site \in Nat /\ claimed = {} /\ spent = {} /\ writing = {}

Grant(r) ==
    /\ r \notin spent /\ spent' = spent \cup {r} /\ claimed' = claimed \cup {r}
    /\ UNCHANGED << site, writing >>
Begin(r) ==
    /\ r \in claimed /\ writing' = writing \cup {r}
    /\ UNCHANGED << site, claimed, spent >>
Finish(r) == r \in writing /\ writing' = writing \ {r} /\ UNCHANGED << site, claimed, spent >>
TakeBack(r) ==
    /\ r \in claimed \ writing /\ claimed' = claimed \ {r}
    /\ UNCHANGED << site, spent, writing >>
ChangeSite == claimed = {} /\ site' = site + 1 /\ UNCHANGED << claimed, spent, writing >>

Next == ChangeSite \/ \E r \in Requests : Grant(r) \/ Begin(r) \/ Finish(r) \/ TakeBack(r)

Spec == Init /\ [][Next]_fenceVars
=============================================================================
