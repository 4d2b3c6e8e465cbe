----------------------------- MODULE RepairExecutor -----------------------------
(***************************************************************************)
(* The repair executor of an Agent Mac (enrollment_repair_executor.py):    *)
(* its journal, its settings file and the one handler that may replace the *)
(* file.  The handler holds the journal lock throughout and the settings   *)
(* lock from the claim to the end of the replacement.                      *)
(***************************************************************************)
EXTENDS RepairRequests

VARIABLES
    journal,    \* the repair journal of each Mac
    settings,   \* controller_settings.json: the owner's edits and the site it names
    agent,      \* the running apply handler of each Mac
    callback    \* the redemption request of a repair: sent, then answered

executorVars == << journal, settings, agent, callback >>

NoSite == 0
NoRequest == 0

NoJournal == [req |-> NoRequest, state |-> "none", pre |-> [edits |-> 0, site |-> NoSite],
              site |-> NoSite, staged |-> FALSE]
AtRest == [pc |-> "idle", req |-> NoRequest]

ExecutorInit ==
    /\ journal = [m \in Macs |-> NoJournal]
    /\ settings = [m \in Macs |-> [edits |-> 0, site |-> NoSite]]
    /\ agent = [m \in Macs |-> AtRest]
    /\ callback = [r \in Requests |-> "none"]

Words == {"none", "redemption_attempted", "applying", "complete", "never_applied", "needs_review"}
Settings == [edits : Nat, site : Nat]
Journals == [req : Requests \cup {NoRequest}, state : Words, pre : Settings, site : Nat, staged : BOOLEAN]
Handlers == [pc : {"idle", "callback", "staging", "staged", "replaced"}, req : Requests \cup {NoRequest}]
ExecutorTypeOK ==
    /\ journal \in [Macs -> Journals]
    /\ settings \in [Macs -> Settings]
    /\ agent \in [Macs -> Handlers]
    /\ callback \in [Requests -> {"none", "sent", "granted", "refused"}]

Unresolved == {"redemption_attempted", "applying"}
Writing(m) == agent[m].pc \in {"staging", "staged", "replaced"}
Staged(j) == [edits |-> j.pre.edits, site |-> j.site]

(* _expire: at the deadline an attempt that never held a claim is over. *)
Expire(j, late) ==
    IF j.state = "redemption_attempted" /\ late[j.req] THEN [j EXCEPT !.state = "never_applied"] ELSE j

(* _result and _status: what the status route reads; it expires the journal *)
(* only when no handler holds the lock, and knows no other request.         *)
StatusJournal(m, late) == IF agent[m].pc = "idle" THEN Expire(journal[m], late) ELSE journal[m]
StatusWord(m, r, late) ==
    IF journal[m].req = r THEN StatusJournal(m, late).state ELSE "request_not_found"

(* The handler is at rest and the expired journal belongs to no repair that *)
(* is still open: a resolved journal is archived by the next attempt.       *)
Conflict(m, late) == Expire(journal[m], late).state \in Unresolved

(* apply, up to the redemption callback: the settings are read before the   *)
(* journal is written and the ticket is offered back.                       *)
AttemptRedemption(m, r, site) ==
    /\ journal' = [journal EXCEPT ![m] = [req |-> r, state |-> "redemption_attempted",
                                          pre |-> settings[m], site |-> site, staged |-> FALSE]]
    /\ agent' = [agent EXCEPT ![m] = [pc |-> "callback", req |-> r]]
    /\ callback' = [callback EXCEPT ![r] = "sent"]
    /\ UNCHANGED settings

(* The handler stops waiting: a callback under way may still arrive, an     *)
(* answer is never read.                                                    *)
Unread(c) == IF c = "sent" THEN c ELSE "none"
(* The answer of a callback reaches only the handler that waits for it. *)
Answered(m, r, word) ==
    callback' = [callback EXCEPT ![r] = IF agent[m] = [pc |-> "callback", req |-> r] THEN word ELSE "none"]

(* The callback was refused, redirected, answered by another address, or    *)
(* not answered in time: the last keeps the attempt open until it expires.  *)
Ends(m, state) ==
    /\ journal' = [journal EXCEPT ![m] = [journal[m] EXCEPT !.state = state, !.staged = FALSE]]
    /\ agent' = [agent EXCEPT ![m] = AtRest]
    /\ callback' = [callback EXCEPT ![agent[m].req] = Unread(@)]
    /\ UNCHANGED settings
CallbackFails(m, state) ==
    agent[m].pc = "callback" /\ state \in {"redemption_attempted", "needs_review"} /\ Ends(m, state)

(* Mutant of PreimageKept: the settings are not read again under the lock. *)
MutantPreimageKept(m) == TRUE
PreimageKept(m) == settings[m] = journal[m].pre

(* The answer grants the claim; the settings lock is taken for it. *)
Granted(m) == agent[m].pc = "callback" /\ callback[agent[m].req] = "granted"
AcceptClaim(m) ==
    /\ Granted(m) /\ PreimageKept(m)
    /\ journal' = [journal EXCEPT ![m] = [journal[m] EXCEPT !.state = "applying"]]
    /\ agent' = [agent EXCEPT ![m] = [agent[m] EXCEPT !.pc = "staging"]]
    /\ UNCHANGED << settings, callback >>
PreimageChanged(m) == Granted(m) /\ ~PreimageKept(m) /\ Ends(m, "needs_review")
(* SettingsWriterBusy: another managed writer holds the lock. *)
WriterBusy(m) == Granted(m) /\ Ends(m, "never_applied")

(* The staged content is written beside the file and its hash journaled. *)
StageSettings(m) ==
    /\ agent[m].pc = "staging"
    /\ journal' = [journal EXCEPT ![m] = [journal[m] EXCEPT !.staged = TRUE]]
    /\ agent' = [agent EXCEPT ![m] = [agent[m] EXCEPT !.pc = "staged"]]
    /\ UNCHANGED << settings, callback >>

ReplaceSettings(m) ==
    /\ agent[m].pc = "staged" /\ PreimageKept(m)
    /\ settings' = [settings EXCEPT ![m] = Staged(journal[m])]
    /\ agent' = [agent EXCEPT ![m] = [agent[m] EXCEPT !.pc = "replaced"]]
    /\ UNCHANGED << journal, callback >>

(* Read back, then complete. *)
ApplyComplete(m) ==
    /\ agent[m].pc = "replaced" /\ settings[m] = Staged(journal[m])
    /\ Ends(m, "complete")

(* Mutant of Classified: an interrupted apply is taken for never begun. *)
MutantClassified(m) == IF journal[m].state = "applying" THEN "never_applied" ELSE journal[m].state

(* _classify_current: an interrupted apply is judged by the file alone. *)
Classified(m) ==
    IF journal[m].state # "applying" THEN journal[m].state
    ELSE IF journal[m].staged /\ settings[m] = Staged(journal[m]) THEN "complete"
    ELSE IF PreimageKept(m) THEN "never_applied"
    ELSE "needs_review"

(* A step of the replacement raises: the handler classifies at once. *)
ApplyFails(m) == Writing(m) /\ Ends(m, Classified(m))

(* The Agent's process dies and starts again: recover() runs before it      *)
(* serves a request, classifies what was being applied, or expires.         *)
AgentRestart(m, late) ==
    /\ journal' = [journal EXCEPT ![m] = Expire([journal[m] EXCEPT !.state = Classified(m), !.staged = FALSE], late)]
    /\ agent' = [agent EXCEPT ![m] = AtRest]
    /\ callback' = [r \in Requests |-> IF r = agent[m].req THEN Unread(callback[r]) ELSE callback[r]]
    /\ UNCHANGED settings

(* A managed writer of the Mac's own settings (save_settings, setup, join)  *)
(* takes the same lock.                                                     *)
OwnerEdits(m) ==
    /\ ~Writing(m)
    /\ settings' = [settings EXCEPT ![m] = [edits |-> @.edits + 1, site |-> NoSite]]
    /\ UNCHANGED << journal, agent, callback >>
=============================================================================
