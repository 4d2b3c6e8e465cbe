---------------------------- MODULE FleetCredentials ----------------------------
(* The fleet token of a site and who holds it: the Macs that join with the    *)
(* enrollment code (enrollment.py), the owner's "Save & verify", which gives  *)
(* every Mac a new token and changes the Controller's own last (peers.py),    *)
(* and the Controller's cache of what its peers answered, which decides       *)
(* whether work may be sent to them.                                          *)
EXTENDS Naturals

CONSTANTS
    Macs,           \* the other Macs
    Studios,        \* the Studios of each of them, by modality
    Nobody,         \* no Studio
    MaxToken,       \* bound: tokens are 0, the first, to MaxToken
    Offered,        \* the tokens the owner saves
    MaxTrouble      \* bound: outages, lost answers, crashes and late refusals

ASSUME TokenAssumption == MaxToken \in Nat /\ Offered \subseteq 0 .. MaxToken /\ MaxTrouble \in Nat
ASSUME StudioAssumption == Nobody \notin Studios

VARIABLES
    token,      \* .fleet_token of the Controller
    open,       \* whether an enrollment code is active
    registered, \* studios.json: the Macs
    cache,      \* peers._cache
    flight,     \* the refresh that is under way, by Mac
    admissions, \* the Macs whose idle Studios are asked to give memory back (bound: once at a time)
    saving,     \* the runs of sync_fleet_token, by their new token
    report,     \* the Macs that the last one that ended had verified
    agents,     \* the other Macs
    joins,      \* joins under way there
    touched,    \* history: the Macs that somebody else gave a token since they were verified
    refused,    \* history: the Studio of a Mac that refused last, unless it accepted since
    trouble

controllerVars == << token, open, registered, cache, flight, admissions, saving, report >>
macVars == << agents, joins >>
vars == << controllerVars, macVars, touched, refused, trouble >>

(* A token of some other site, or of the Mac alone. *)
Other == MaxToken + 1
Unknown == [kind |-> "none", fresh |-> FALSE, rejected |-> Nobody, token |-> Other]
Expired(entry) == [entry EXCEPT !.kind = "expired", !.fresh = FALSE, !.token = Other]
NoFlight == [stage |-> "out", token |-> Other, held |-> Nobody]
Late == [NoFlight EXCEPT !.stage = "late"]
Idle == [on |-> FALSE, old |-> Other, rows |-> [m \in Macs |-> "out"]]
NoJoin == Other + 1

Init ==
    /\ token = 0 /\ open = TRUE /\ registered = {}
    /\ cache = [m \in Macs |-> Unknown] /\ flight = [m \in Macs |-> NoFlight]
    /\ saving = [t \in Offered |-> Idle] /\ report = {}
    /\ agents = [m \in Macs |-> [site |-> "none", token |-> Other, workers |-> [s \in Studios |-> Other], up |-> TRUE]]
    /\ joins = [m \in Macs |-> NoJoin]
    /\ admissions = {} /\ touched = {} /\ refused = [m \in Macs |-> Nobody] /\ trouble = 0

IsUp(m) == agents[m].up
(* The Mac's Hub takes the token; a Studio read its copy when it started.    *)
Takes(m, t) == agents[m].token = t
Proxies(m, s, t) == Takes(m, t) /\ agents[m].workers[s] = t

Trouble == trouble < MaxTrouble /\ trouble' = trouble + 1
Quiet == UNCHANGED trouble
HubStays == UNCHANGED << token, open, registered, saving, report, admissions >>
PeersStay == UNCHANGED << cache, flight, refused, admissions >>
MacsStay == UNCHANGED << agents, joins, touched >>
AgentBecomes(m, with) == agents' = [agents EXCEPT ![m] = with]

-----------------------------------------------------------------------------
(* What the Controller knows of its peers *)

(* dispatch_ready *)
Ready(m) == cache[m].kind = "connected" /\ cache[m].fresh /\ cache[m].rejected = Nobody
(* _cache.get(machine) is entry: an entry that is replaced or removed makes  *)
(* the answer that is under way worthless, and what it was asked with does   *)
(* not matter any more; where there was none and is none nothing shows.      *)
Outdated(ms) == flight' = [m \in Macs |-> IF m \in ms /\ flight[m] # NoFlight THEN Late ELSE flight[m]]
Replaced(ms) == Outdated({m \in ms : cache[m] # Unknown})
(* Mutant of Voided: the token has no generation, only the entry counts. *)
MutantVoided == Replaced(Macs)
Voided == Outdated(Macs)
Dropped(ms) == [m \in Macs |-> IF m \in ms THEN Unknown ELSE cache[m]]
(* A Mac's quarantine ends without an acceptance. *)
Lifted(ms) == refused' = [m \in Macs |-> IF m \in ms THEN Nobody ELSE refused[m]]
Forget(ms) == cache' = Dropped(ms) /\ Replaced(ms) /\ Lifted(ms) /\ UNCHANGED admissions

Resting == \A m \in Macs : flight[m] = NoFlight
Stale == {m \in registered : ~cache[m].fresh}
Asked == [m \in Macs |-> IF m \notin Stale THEN NoFlight
             ELSE [stage |-> "asked", token |-> token, held |-> cache[m].rejected]]
RefreshBegins ==
    /\ Stale # {} /\ Resting /\ flight' = Asked
    /\ UNCHANGED << cache, refused >> /\ HubStays /\ MacsStay /\ Quiet

StillHeld(m, clears) == IF clears THEN Nobody ELSE flight[m].held
Answer(m, kind, clears) ==
    /\ cache' = [cache EXCEPT ![m] = [kind |-> kind, fresh |-> TRUE, rejected |-> StillHeld(m, clears),
                                      token |-> IF kind = "connected" THEN flight[m].token ELSE Other]]
    /\ flight' = [flight EXCEPT ![m] = NoFlight]
    /\ IF clears /\ flight[m].held = refused[m] THEN Lifted({m}) ELSE UNCHANGED refused

(* The answer to /api/hub/resources: accepted, and then the Studio that      *)
(* refused last is asked; or refused, and then /api/health is.             *)
Accepted(m) ==
    /\ flight[m].stage = "asked" /\ IsUp(m) /\ Takes(m, flight[m].token)
    /\ IF flight[m].held # Nobody THEN flight' = [flight EXCEPT ![m].stage = "probing"] /\ UNCHANGED << cache, refused >>
       ELSE Answer(m, "connected", FALSE)
    /\ HubStays /\ MacsStay /\ Quiet
Refused(m) ==
    /\ flight[m].stage = "asked" /\ IsUp(m) /\ ~Takes(m, flight[m].token)
    /\ flight' = [flight EXCEPT ![m].stage = "refused"]
    /\ UNCHANGED << cache, refused >> /\ HubStays /\ MacsStay /\ Quiet
(* Mutant of Clears: the Studio is not asked for its verdict. *)
MutantClears(m) == FALSE
Clears(m) == Proxies(m, flight[m].held, flight[m].token)
Probed(m) ==
    /\ flight[m].stage = "probing" /\ IsUp(m)
    /\ Answer(m, "connected", Clears(m))
    /\ HubStays /\ MacsStay /\ Quiet
(* _foreign_site *)
Placed(m) ==
    /\ flight[m].stage = "refused" /\ IsUp(m)
    /\ Answer(m, IF agents[m].site = "elsewhere" THEN "foreign_site" ELSE "token_rejected", FALSE)
    /\ HubStays /\ MacsStay /\ Quiet
Awaited(m) == flight[m] \notin {NoFlight, Late}
(* Nobody answers; of a Mac that did refuse the refusal counts. *)
Silence(m) == Answer(m, IF flight[m].stage = "refused" THEN "token_rejected" ELSE "unreachable", FALSE)
Silent(m) ==
    /\ Awaited(m) /\ ~IsUp(m)
    /\ Silence(m) /\ HubStays /\ MacsStay /\ Quiet
AnswerLost(m) ==
    /\ Awaited(m) /\ IsUp(m) /\ Trouble
    /\ Silence(m) /\ HubStays /\ MacsStay
(* store: no answer is kept if the entry or the token is another one by now. *)
AnsweredLate(m) ==
    /\ flight[m] = Late /\ flight' = [flight EXCEPT ![m] = NoFlight]
    /\ UNCHANGED << cache, refused >> /\ HubStays /\ MacsStay /\ Quiet

(* A snapshot is good for PEER_TTL_S. *)
Ages(m) ==
    /\ cache[m].fresh
    /\ cache' = [cache EXCEPT ![m] = Expired(@)]
    /\ UNCHANGED << flight, refused >> /\ HubStays /\ MacsStay /\ Quiet
(* invalidate(rejected=True): a request to a Studio of the Mac, of the       *)
(* scheduler or of a task that polls its job, is answered with 401.          *)
Rejects(m, s) ==
    /\ cache' = [cache EXCEPT ![m] = [Expired(Unknown) EXCEPT !.rejected = s]]
    /\ Outdated({m})
    /\ refused' = [refused EXCEPT ![m] = s]
Rejected(m, s) ==
    /\ m \in registered /\ IsUp(m) /\ ~Proxies(m, s, token)
    /\ Rejects(m, s) /\ HubStays /\ MacsStay /\ Quiet
RejectedLate(m, s) ==
    /\ m \in registered /\ Proxies(m, s, token) /\ Trouble
    /\ Rejects(m, s) /\ HubStays /\ MacsStay

(* A scheduler that found the Mac ready waits until its idle Studios have    *)
(* given memory back; one that ends otherwise leaves no trace.               *)
MemoryAsked(m) ==
    /\ Ready(m) /\ m \notin admissions /\ admissions' = admissions \cup {m}
    /\ UNCHANGED << token, open, registered, saving, report, cache, flight, refused >> /\ MacsStay /\ Quiet
(* Mutant of Invalidated: the entry is dropped whatever it has become. *)
MutantInvalidated(m) == Dropped({m})
(* invalidate: what was quarantined meanwhile is asked afresh, and stays so. *)
Invalidated(m) == IF cache[m].rejected = Nobody THEN Dropped({m}) ELSE [cache EXCEPT ![m] = Expired(@)]
(* The Mac's snapshot is invalidated, and a refresh begins if none runs.     *)
MemoryGiven(m) ==
    /\ m \in admissions /\ admissions' = admissions \ {m}
    /\ UNCHANGED << token, open, registered, saving, report, refused >> /\ MacsStay /\ Quiet
    /\ cache' = Invalidated(m)
    /\ IF Resting THEN flight' = Asked' ELSE Replaced({m})

-----------------------------------------------------------------------------
(* "Save & verify" *)

(* set_fleet_token, and the cache is cleared whatever the token was; another *)
(* token than before also makes every answer that is under way worthless.    *)
SetToken(t) ==
    /\ token' = t /\ cache' = Dropped(Macs) /\ Lifted(Macs) /\ UNCHANGED admissions
    /\ IF t # token THEN Voided ELSE Replaced(Macs)

SaveBegins(t) ==
    /\ ~saving[t].on
    /\ saving' = [saving EXCEPT ![t] = [on |-> TRUE, old |-> token,
                                        rows |-> [m \in Macs |-> IF m \in registered THEN "asked" ELSE "out"]]]
    /\ UNCHANGED << token, open, registered, report >> /\ PeersStay /\ MacsStay /\ Quiet

RowBecomes(t, m, result) ==
    /\ saving' = [saving EXCEPT ![t].rows[m] = result]
    /\ UNCHANGED << token, open, registered, report, joins >> /\ PeersStay
Pending(t, m) == saving[t].on /\ saving[t].rows[m] \in {"asked", "saved"}
Overtakes(t, m) ==
    touched' = IF \E other \in DOMAIN saving \ {t} : saving[other].rows[m] = "verified"
               THEN touched \cup {m} ELSE touched
Saves(t, m) ==
    /\ Pending(t, m) /\ saving[t].rows[m] = "asked" /\ IsUp(m) /\ Takes(m, saving[t].old)
    /\ AgentBecomes(m, [agents[m] EXCEPT !.token = t])
    /\ RowBecomes(t, m, "saved") /\ Overtakes(t, m) /\ Quiet
SaveRefused(t, m) ==
    /\ Pending(t, m) /\ saving[t].rows[m] = "asked" /\ IsUp(m) /\ ~Takes(m, saving[t].old)
    /\ RowBecomes(t, m, "manual") /\ UNCHANGED << agents, touched >> /\ Quiet
(* Mutant of Confirms: what was accepted is not read back. *)
MutantConfirms(t, m) == TRUE
Confirms(t, m) == Takes(m, t)
Verified(t, m) ==
    /\ Pending(t, m) /\ saving[t].rows[m] = "saved" /\ IsUp(m)
    /\ RowBecomes(t, m, IF Confirms(t, m) THEN "verified" ELSE "failed")
    /\ touched' = IF \E other \in DOMAIN saving \ {t} : saving[other].on THEN touched ELSE touched \ {m}
    /\ UNCHANGED agents /\ Quiet
Unreached(t, m) ==
    /\ Pending(t, m) /\ ~IsUp(m)
    /\ RowBecomes(t, m, "unreachable") /\ UNCHANGED << agents, touched >> /\ Quiet
(* The Mac saves the token and the answer is lost. *)
SavedUnheard(t, m) ==
    /\ Pending(t, m) /\ saving[t].rows[m] = "asked" /\ IsUp(m) /\ Takes(m, saving[t].old) /\ Trouble
    /\ AgentBecomes(m, [agents[m] EXCEPT !.token = t])
    /\ RowBecomes(t, m, "unreachable") /\ Overtakes(t, m)
(* local_commit, whatever the Macs answered *)
SaveEnds(t) ==
    /\ saving[t].on /\ \A m \in Macs : ~Pending(t, m)
    /\ SetToken(t)
    /\ saving' = [saving EXCEPT ![t] = Idle] /\ report' = {m \in Macs : saving[t].rows[m] = "verified"}
    /\ UNCHANGED << open, registered, macVars, touched >> /\ Quiet

(* The owner enters the Controller's token on the Mac itself. *)
Pastes(m) ==
    /\ agents[m].token # token
    /\ AgentBecomes(m, [agents[m] EXCEPT !.token = token]) /\ touched' = touched \cup {m}
    /\ UNCHANGED joins /\ HubStays /\ PeersStay /\ Quiet

-----------------------------------------------------------------------------
(* Joining and leaving *)

OpenEnrollment ==
    /\ ~open /\ open' = TRUE
    /\ UNCHANGED << token, registered, saving, report >> /\ PeersStay /\ MacsStay /\ Quiet
CloseEnrollment ==
    /\ open /\ open' = FALSE
    /\ UNCHANGED << token, registered, saving, report >> /\ PeersStay /\ MacsStay /\ Quiet

(* add_user_entries, remove_machine: the Studios of a Mac are one entry. *)
Registers(m) == registered' = registered \cup {m}
Deregisters(m) == registered' = registered \ {m}

Claimed(m) ==
    /\ open /\ IsUp(m) /\ joins[m] = NoJoin /\ Registers(m)
    /\ UNCHANGED << token, open, saving, report, agents, touched >> /\ PeersStay
(* claim_agent_enrollment: the Mac is registered, and told the token. *)
JoinClaims(m) == Claimed(m) /\ joins' = [joins EXCEPT ![m] = token] /\ Quiet
ClaimUnheard(m) == Claimed(m) /\ UNCHANGED joins /\ Trouble
(* configure_joined_agent: the settings first, then the token *)
Joined(m, as) ==
    /\ joins[m] # NoJoin
    /\ AgentBecomes(m, as) /\ joins' = [joins EXCEPT ![m] = NoJoin] /\ touched' = touched \cup {m}
    /\ HubStays /\ PeersStay
JoinSaves(m) == Joined(m, [agents[m] EXCEPT !.site = "here", !.token = joins[m]]) /\ Quiet
JoinCut(m) == Joined(m, [agents[m] EXCEPT !.site = "here"]) /\ Trouble
(* It joins another site, which the Controller is not told. *)
Moves(m) ==
    /\ agents[m].site = "here"
    /\ AgentBecomes(m, [agents[m] EXCEPT !.site = "elsewhere", !.token = Other]) /\ touched' = touched \cup {m}
    /\ UNCHANGED joins /\ HubStays /\ PeersStay /\ Quiet
RemoveMac(m) ==
    /\ m \in registered /\ Deregisters(m) /\ Forget({m})
    /\ UNCHANGED << token, open, saving, report >> /\ MacsStay /\ Quiet

-----------------------------------------------------------------------------
StudioRestarts(m, s) ==
    /\ agents[m].workers[s] # agents[m].token
    /\ AgentBecomes(m, [agents[m] EXCEPT !.workers[s] = agents[m].token])
    /\ UNCHANGED << joins, touched >> /\ HubStays /\ PeersStay /\ Quiet
GoesDown(m) ==
    /\ IsUp(m) /\ Trouble
    /\ AgentBecomes(m, [agents[m] EXCEPT !.up = FALSE])
    /\ UNCHANGED << joins, touched >> /\ HubStays /\ PeersStay
ComesUp(m) ==
    /\ ~IsUp(m)
    /\ AgentBecomes(m, [agents[m] EXCEPT !.up = TRUE])
    /\ UNCHANGED << joins, touched >> /\ HubStays /\ PeersStay /\ Quiet
(* Macs that a save had reached keep the new token. *)
HubRestarts ==
    /\ Trouble
    /\ cache' = Dropped(Macs) /\ flight' = [m \in Macs |-> NoFlight] /\ Lifted(Macs) /\ admissions' = {}
    /\ saving' = [t \in DOMAIN saving |-> Idle] /\ report' = {}
    /\ UNCHANGED << token, open, registered >> /\ MacsStay

Refresh(m) == Accepted(m) \/ Refused(m) \/ Probed(m) \/ Placed(m) \/ Silent(m) \/ AnsweredLate(m)
Saving(t, m) == Saves(t, m) \/ SaveRefused(t, m) \/ Verified(t, m) \/ Unreached(t, m)
Next ==
    \/ RefreshBegins \/ OpenEnrollment \/ CloseEnrollment \/ HubRestarts
    \/ \E m \in Macs :
          \/ Refresh(m) \/ AnswerLost(m) \/ Ages(m) \/ MemoryAsked(m) \/ MemoryGiven(m)
          \/ Pastes(m) \/ JoinClaims(m) \/ ClaimUnheard(m) \/ JoinSaves(m) \/ JoinCut(m) \/ Moves(m)
          \/ RemoveMac(m) \/ GoesDown(m) \/ ComesUp(m)
          \/ \E s \in Studios : Rejected(m, s) \/ RejectedLate(m, s) \/ StudioRestarts(m, s)
    \/ \E t \in Offered :
          \/ SaveBegins(t) \/ SaveEnds(t)
          \/ \E m \in Macs : Saving(t, m) \/ SavedUnheard(t, m)

Spec == Init /\ [][Next]_vars
(* The health poll comes round, and every request is answered or times out. *)
FairSpec ==
    /\ Spec /\ WF_vars(RefreshBegins)
    /\ \A m \in Macs : WF_vars(Refresh(m)) /\ WF_vars(Ages(m))

-----------------------------------------------------------------------------
(* Properties *)

(* A Mac may be sent work only because it answered a request made with the   *)
(* token the Controller has now: an answer to an older token that arrives    *)
(* after a save is not taken for it.                                         *)
AuthorityCurrent == \A m \in Macs : Ready(m) => cache[m].token = token

(* A Mac one of whose Studios refused a request is sent no more until the    *)
(* Studio that refused last has accepted a request made after its refusal,   *)
(* whatever was under way then: a poll, or a preparation whose invalidation  *)
(* comes after it. Not so after a save of the fleet token, of the same one   *)
(* too, the Mac's removal, or a restart of the Hub: each forgets the         *)
(* quarantine with no acceptance; and of several Studios that refused only   *)
(* the last is remembered.                                                   *)
QuarantineHolds == \A m \in Macs : Ready(m) => refused[m] = Nobody

(* What "Save & verify" reports as verified is so when it is over: the Mac   *)
(* takes the Controller's token. Not so where another save that is under way *)
(* (nothing keeps two from overlapping), the Mac's own owner or a join wrote *)
(* its token after the verdict.                                              *)
VerifiedHolds == \A m \in Macs :
    (\A t \in DOMAIN saving : ~saving[t].on) /\ m \in report /\ m \notin touched => Takes(m, token)

(* A registered Mac that takes the Controller's token, and whose Studios     *)
(* do, is sent work again, whatever was refused before.                      *)
Sound(m) == m \in registered /\ IsUp(m) /\ \A s \in Studios : Proxies(m, s, token)
ReadyAgain == \A m \in Macs : Sound(m) ~> Ready(m) \/ ~Sound(m)
=============================================================================
