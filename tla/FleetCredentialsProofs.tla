------------------------ MODULE FleetCredentialsProofs ------------------------
(* Work goes only to a Mac whose answer was obtained with the Controller's    *)
(* present token and whose Studio that refused last has accepted since: for   *)
(* any Macs, Studios, tokens, overlapping saves and troubles. The argument is *)
(* about the cache and the refresh under way alone: an answer may be stored   *)
(* only while it is awaited, every change of the token and of the entry ends  *)
(* that, and a flight begun under quarantine carries it along, as an          *)
(* invalidation of the entry does.                                            *)
EXTENDS FleetCredentials, TLAPS

Kinds == {"none", "expired", "connected", "unreachable", "token_rejected", "foreign_site"}
Stages == {"out", "asked", "probing", "refused", "late"}
Refusers == Studios \cup {Nobody}
Entry == [kind : Kinds, fresh : BOOLEAN, rejected : Refusers, token : Nat]
Flight == [stage : Stages, token : Nat, held : Refusers]

PeersTypeOK ==
    /\ token \in Nat
    /\ cache \in [Macs -> Entry]
    /\ flight \in [Macs -> Flight]
    /\ refused \in [Macs -> Refusers]

(* A snapshot that counts, and an answer that still may count, are of the     *)
(* Controller's token.                                                        *)
SnapshotCurrent(m) == cache[m].kind = "connected" => cache[m].token = token
FlightCurrent(m) == Awaited(m) => flight[m].token = token
(* Who refused last is remembered by the entry, and by an answer that may     *)
(* replace it.                                                                *)
EntryQuarantined(m) == refused[m] # Nobody => cache[m].rejected = refused[m]
FlightQuarantined(m) == refused[m] # Nobody /\ Awaited(m) => flight[m].held = refused[m]

PeerSound(m) ==
    SnapshotCurrent(m) /\ FlightCurrent(m) /\ EntryQuarantined(m) /\ FlightQuarantined(m)
PeersInv == PeersTypeOK /\ \A m \in Macs : PeerSound(m)

PeerVars == << token, cache, flight, refused >>

-----------------------------------------------------------------------------
(* The ways in which a step can touch what the Controller knows of its peers. *)

(* The constants of the cache have their types. *)
LEMMA Shapes ==
    /\ Unknown \in Entry /\ Unknown.kind = "none"
    /\ NoFlight \in Flight /\ Late \in Flight
    /\ Other \in Nat /\ Nobody \in Refusers
<1>1. NoFlight \in Flight /\ Other \in Nat
  BY TokenAssumption DEF NoFlight, Flight, Stages, Other, Refusers
<1>2. Late \in Flight
  BY <1>1 DEF Late, Flight, Stages
<1> QED BY <1>1, <1>2 DEF Unknown, Entry, Kinds, Refusers

(* What the update of an entry keeps. *)
LEMMA ExpiredShape ==
    ASSUME NEW e \in Entry
    PROVE  Expired(e) \in Entry /\ Expired(e).kind = "expired" /\ Expired(e).rejected = e.rejected
<1> DEFINE e1 == [e EXCEPT !.kind = "expired"]
           e2 == [e1 EXCEPT !.fresh = FALSE]
           e3 == [e2 EXCEPT !.token = Other]
<1>1. e1 \in Entry /\ e1.kind = "expired" /\ e1.rejected = e.rejected
  BY DEF Entry, Kinds
<1> HIDE DEF e1
<1>2. e2 \in Entry /\ e2.kind = e1.kind /\ e2.rejected = e1.rejected
  BY <1>1 DEF Entry, Kinds
<1> HIDE DEF e2
<1>3. e3 \in Entry /\ e3.kind = e2.kind /\ e3.rejected = e2.rejected
  BY <1>2, Shapes DEF Entry, Kinds
<1>4. Expired(e) = e3
  BY DEF Expired, e1, e2
<1> QED BY <1>1, <1>2, <1>3, <1>4

LEMMA RefusedShape ==
    ASSUME NEW s \in Studios
    PROVE  LET v == [Expired(Unknown) EXCEPT !.rejected = s]
           IN  v \in Entry /\ v.kind = "expired" /\ v.rejected = s
<1>1. \A e \in Entry : /\ [e EXCEPT !.rejected = s] \in Entry
                      /\ [e EXCEPT !.rejected = s].kind = e.kind
                      /\ [e EXCEPT !.rejected = s].rejected = s
  BY DEF Entry, Kinds, Refusers
<1>2. Expired(Unknown) \in Entry /\ Expired(Unknown).kind = "expired"
  BY Shapes, ExpiredShape
<1> QED BY <1>1, <1>2

(* A step that reads or writes none of it. *)
LEMMA StayLemma == PeersInv /\ UNCHANGED PeerVars => PeersInv'
  BY DEF PeersInv, PeersTypeOK, PeerSound, SnapshotCurrent, FlightCurrent,
         EntryQuarantined, FlightQuarantined, PeerVars, Awaited

(* An answer that is awaited. *)
LEMMA AnswerLemma ==
    ASSUME PeersInv, NEW m \in Macs, NEW kind \in Kinds, NEW clears \in BOOLEAN,
           Awaited(m), Answer(m, kind, clears), UNCHANGED token
    PROVE  PeersInv'
<1> DEFINE entry == [kind |-> kind, fresh |-> TRUE, rejected |-> StillHeld(m, clears),
                     token |-> IF kind = "connected" THEN flight[m].token ELSE Other]
<1>1. /\ flight[m] \in Flight /\ flight' = [flight EXCEPT ![m] = NoFlight]
      /\ cache' = [cache EXCEPT ![m] = entry]
  BY DEF PeersInv, PeersTypeOK, Answer
<1>2. entry \in Entry
  BY <1>1, Shapes DEF Entry, Flight, StillHeld
<1>3. \/ clears /\ flight[m].held = refused[m] /\ refused' = [n \in Macs |-> IF n = m THEN Nobody ELSE refused[n]]
      \/ ~(clears /\ flight[m].held = refused[m]) /\ refused' = refused
  BY DEF Answer, Lifted
<1>4. PeersTypeOK'
  BY <1>1, <1>2, <1>3, Shapes DEF PeersInv, PeersTypeOK
<1>5. ASSUME NEW n \in Macs PROVE PeerSound(n)'
  <2>1. CASE n # m
    <3>1. cache'[n] = cache[n] /\ flight'[n] = flight[n] /\ refused'[n] = refused[n]
      BY <2>1, <1>1, <1>3 DEF PeersInv, PeersTypeOK
    <3> QED BY <3>1 DEF PeersInv, PeerSound, SnapshotCurrent, FlightCurrent,
                        EntryQuarantined, FlightQuarantined, Awaited
  <2>2. CASE n = m
    <3>1. ~Awaited(n)' /\ cache'[n] = entry
      BY <2>2, <1>1 DEF PeersInv, PeersTypeOK, Awaited
    <3>2. /\ entry.kind = kind /\ entry.rejected = StillHeld(m, clears)
          /\ kind = "connected" => entry.token = flight[m].token
      OBVIOUS
    <3>3. flight[m].token = token /\ (refused[m] # Nobody => flight[m].held = refused[m])
      BY DEF PeersInv, PeerSound, FlightCurrent, FlightQuarantined
    <3>4. refused'[n] # Nobody => refused'[n] = refused[m] /\ ~clears
      BY <2>2, <1>3, <3>3 DEF PeersInv, PeersTypeOK
    <3>5. EntryQuarantined(n)'
      BY <3>1, <3>2, <3>3, <3>4 DEF EntryQuarantined, StillHeld
    <3> QED BY <3>1, <3>2, <3>3, <3>5 DEF PeerSound, SnapshotCurrent, FlightCurrent, FlightQuarantined
  <2> QED BY <2>1, <2>2
<1> QED BY <1>4, <1>5 DEF PeersInv

(* A flight is what it was, or late. *)
LEMMA OutdatedLemma ==
    ASSUME PeersTypeOK, NEW ms, Outdated(ms)
    PROVE  /\ flight' \in [Macs -> Flight]
           /\ \A m \in Macs : flight'[m] = flight[m] \/ ~Awaited(m)'
           /\ \A m \in Macs \cap ms : ~Awaited(m)'
<1>1. /\ flight' = [m \in Macs |-> flight'[m]]
      /\ \A m \in Macs : flight'[m] = IF m \in ms /\ flight[m] # NoFlight THEN Late ELSE flight[m]
  BY DEF Outdated
<1>2. \A m \in Macs : flight[m] \in Flight
  BY DEF PeersTypeOK
<1>3. \A m \in Macs : flight'[m] \in Flight
  BY <1>1, <1>2, Shapes
<1> QED BY <1>1, <1>3 DEF Awaited

(* Peers that are forgotten are neither ready nor quarantined. *)
LEMMA ForgetLemma ==
    ASSUME PeersInv, NEW ms, Forget(ms), UNCHANGED token
    PROVE  PeersInv'
<1>1. /\ flight' \in [Macs -> Flight]
      /\ \A m \in Macs : flight'[m] = flight[m] \/ ~Awaited(m)'
  BY OutdatedLemma DEF PeersInv, Forget, Replaced
<1>2. cache' \in [Macs -> Entry] /\ \A m \in Macs : cache'[m] = IF m \in ms THEN Unknown ELSE cache[m]
  BY Shapes DEF PeersInv, PeersTypeOK, Forget, Dropped
<1>3. refused' \in [Macs -> Refusers] /\ \A m \in Macs : refused'[m] = IF m \in ms THEN Nobody ELSE refused[m]
  BY Shapes DEF PeersInv, PeersTypeOK, Forget, Lifted
<1>4. PeersTypeOK'
  BY <1>1, <1>2, <1>3 DEF PeersInv, PeersTypeOK
<1>5. ASSUME NEW m \in Macs PROVE PeerSound(m)'
  BY <1>1, <1>2, <1>3, Shapes DEF PeersInv, PeerSound, SnapshotCurrent, FlightCurrent,
     EntryQuarantined, FlightQuarantined, Awaited
<1> QED BY <1>4, <1>5 DEF PeersInv

(* A new token forgets every peer and outdates every flight; the same token   *)
(* forgets the peers.                                                         *)
LEMMA SetTokenLemma ==
    ASSUME PeersInv, NEW t \in Nat, SetToken(t)
    PROVE  PeersInv'
<1>1. /\ flight' \in [Macs -> Flight]
      /\ \A m \in Macs : flight'[m] = flight[m] \/ ~Awaited(m)'
      /\ t # token => \A m \in Macs : ~Awaited(m)'
  BY OutdatedLemma DEF PeersInv, SetToken, Replaced, Voided
<1>2. cache' \in [Macs -> Entry] /\ \A m \in Macs : cache'[m] = Unknown
  BY Shapes DEF SetToken, Dropped
<1>3. refused' \in [Macs -> Refusers] /\ \A m \in Macs : refused'[m] = Nobody
  BY Shapes DEF SetToken, Lifted
<1>4. PeersTypeOK' /\ token' = t
  BY <1>1, <1>2, <1>3 DEF PeersTypeOK, SetToken
<1>5. ASSUME NEW m \in Macs PROVE PeerSound(m)'
  BY <1>1, <1>2, <1>3, <1>4, Shapes DEF PeersInv, PeerSound, SnapshotCurrent, FlightCurrent,
     EntryQuarantined, FlightQuarantined, Awaited
<1> QED BY <1>4, <1>5 DEF PeersInv

(* A refusal. *)
LEMMA RejectsLemma ==
    ASSUME PeersInv, NEW m \in Macs, NEW s \in Studios, Rejects(m, s), UNCHANGED token
    PROVE  PeersInv'
<1> DEFINE entry == [Expired(Unknown) EXCEPT !.rejected = s]
<1>1. entry \in Entry /\ entry.kind = "expired" /\ entry.rejected = s
  BY RefusedShape
<1>2. cache' = [cache EXCEPT ![m] = entry] /\ refused' = [refused EXCEPT ![m] = s]
  BY DEF Rejects
<1>3. /\ flight' \in [Macs -> Flight]
      /\ \A n \in Macs : flight'[n] = flight[n] \/ ~Awaited(n)'
      /\ ~Awaited(m)'
  BY OutdatedLemma DEF PeersInv, Rejects
<1> HIDE DEF entry
<1>4. PeersTypeOK'
  BY <1>1, <1>2, <1>3 DEF PeersInv, PeersTypeOK, Refusers
<1>5. ASSUME NEW n \in Macs PROVE PeerSound(n)'
  <2>1. CASE n # m
    <3>1. cache'[n] = cache[n] /\ refused'[n] = refused[n]
      BY <2>1, <1>2 DEF PeersInv, PeersTypeOK
    <3> QED BY <3>1, <1>3 DEF PeersInv, PeerSound, SnapshotCurrent, FlightCurrent,
                        EntryQuarantined, FlightQuarantined, Awaited
  <2>2. CASE n = m
    <3>1. cache'[n] = entry /\ refused'[n] = s /\ ~Awaited(n)'
      BY <2>2, <1>2, <1>3 DEF PeersInv, PeersTypeOK
    <3> QED BY <3>1, <1>1 DEF PeerSound, SnapshotCurrent, FlightCurrent,
                        EntryQuarantined, FlightQuarantined
  <2> QED BY <2>1, <2>2
<1> QED BY <1>4, <1>5 DEF PeersInv

-----------------------------------------------------------------------------
LEMMA PeersStart == Init => PeersInv
<1> SUFFICES ASSUME Init PROVE PeersInv
  OBVIOUS
<1>1. PeersTypeOK
  BY Shapes DEF Init, PeersTypeOK
<1>2. ASSUME NEW m \in Macs PROVE PeerSound(m)
  BY Shapes DEF Init, PeerSound, SnapshotCurrent, FlightCurrent, EntryQuarantined,
         FlightQuarantined, Awaited
<1> QED BY <1>1, <1>2 DEF PeersInv

(* Flights that begin have the token and the quarantine of their moment. *)
LEMMA AskedLemma ==
    ASSUME PeersTypeOK
    PROVE  /\ Asked \in [Macs -> Flight]
           /\ \A m \in Macs : \/ Asked[m] = NoFlight
                              \/ Asked[m].token = token /\ Asked[m].held = cache[m].rejected
<1> DEFINE Sent(m) == [stage |-> "asked", token |-> token, held |-> cache[m].rejected]
<1>1. \A m \in Macs : Sent(m) \in Flight /\ Sent(m).token = token /\ Sent(m).held = cache[m].rejected
  <2>1. \A m \in Macs : cache[m].rejected \in Refusers /\ token \in Nat
    BY DEF PeersTypeOK, Entry
  <2> QED BY <2>1 DEF Flight, Stages
<1>2. Asked = [m \in Macs |-> IF m \notin Stale THEN NoFlight ELSE Sent(m)]
  BY DEF Asked
<1> HIDE DEF Sent
<1>3. Asked \in [Macs -> Flight] /\ \A m \in Macs : Asked[m] = NoFlight \/ Asked[m] = Sent(m)
  BY <1>1, <1>2, Shapes
<1> QED BY <1>1, <1>3

LEMMA BeginsLemma == PeersInv /\ RefreshBegins => PeersInv'
<1> SUFFICES ASSUME PeersInv, RefreshBegins PROVE PeersInv'
  OBVIOUS
<1>1. UNCHANGED << token, cache, refused >> /\ flight' = Asked
  BY DEF RefreshBegins, HubStays
<1>2. PeersTypeOK'
  BY <1>1, AskedLemma DEF PeersInv, PeersTypeOK
<1>3. ASSUME NEW m \in Macs PROVE PeerSound(m)'
  BY <1>1, AskedLemma DEF PeersInv, PeerSound, SnapshotCurrent, FlightCurrent,
             EntryQuarantined, FlightQuarantined, Awaited
<1> QED BY <1>2, <1>3 DEF PeersInv

(* The steps of a refresh. *)
LEMMA RefreshLemma ==
    ASSUME PeersInv, NEW m \in Macs, Refresh(m) \/ AnswerLost(m)
    PROVE  PeersInv'
<1>1. UNCHANGED token
  BY DEF Refresh, Accepted, Refused, Probed, Placed, Silent, AnswerLost, AnsweredLate, HubStays
<1>2. \A stage \in Stages \ {"out", "late"} : flight[m].stage = stage => Awaited(m)
  BY DEF Awaited, NoFlight, Late, Stages
<1> DEFINE StageOnly(stage) == flight' = [flight EXCEPT ![m].stage = stage] /\ UNCHANGED << cache, refused >>
<1>3. ASSUME NEW stage \in Stages, StageOnly(stage), Awaited(m) PROVE PeersInv'
  <2>1. /\ flight' \in [Macs -> Flight]
        /\ \A n \in Macs : /\ flight'[n].token = flight[n].token /\ flight'[n].held = flight[n].held
                           /\ n # m => flight'[n] = flight[n]
    BY <1>3 DEF PeersInv, PeersTypeOK, Flight
  <2>2. \A n \in Macs : Awaited(n)' => Awaited(n)
    BY <1>3, <2>1 DEF Awaited
  <2> QED BY <1>1, <1>3, <2>1, <2>2 DEF PeersInv, PeersTypeOK, PeerSound, SnapshotCurrent,
             FlightCurrent, EntryQuarantined, FlightQuarantined
<1>4. CASE Accepted(m)
  <2>1. Awaited(m) /\ (StageOnly("probing") \/ Answer(m, "connected", FALSE))
    BY <1>2, <1>4 DEF Accepted, Stages
  <2>2. CASE StageOnly("probing")
    BY <2>1, <2>2, <1>3 DEF Stages
  <2>3. CASE Answer(m, "connected", FALSE)
    BY <2>1, <2>3, <1>1, AnswerLemma DEF Kinds
  <2> QED BY <2>1, <2>2, <2>3
<1>5. CASE Refused(m)
  <2>1. Awaited(m) /\ StageOnly("refused")
    BY <1>2, <1>5 DEF Refused, Stages
  <2> QED BY <2>1, <1>3 DEF Stages
<1>6. CASE Probed(m)
  <2>1. Awaited(m) /\ Answer(m, "connected", Clears(m)) /\ Clears(m) \in BOOLEAN
    BY <1>2, <1>6 DEF Probed, Clears, Proxies, Takes, Stages
  <2> QED BY <1>1, <2>1, AnswerLemma DEF Kinds
<1>7. CASE Placed(m)
  <2>1. Awaited(m) /\ (Answer(m, "foreign_site", FALSE) \/ Answer(m, "token_rejected", FALSE))
    BY <1>2, <1>7 DEF Placed, Stages
  <2> QED BY <1>1, <2>1, AnswerLemma DEF Kinds
<1>8. CASE Silent(m) \/ AnswerLost(m)
  <2>1. Awaited(m) /\ (Answer(m, "token_rejected", FALSE) \/ Answer(m, "unreachable", FALSE))
    BY <1>8 DEF Silent, AnswerLost, Silence
  <2> QED BY <1>1, <2>1, AnswerLemma DEF Kinds
<1>9. CASE AnsweredLate(m)
  <2>1. flight' = [flight EXCEPT ![m] = NoFlight] /\ UNCHANGED << cache, refused >>
    BY <1>9 DEF AnsweredLate
  <2>2. flight' \in [Macs -> Flight] /\ \A n \in Macs : flight'[n] = flight[n] \/ ~Awaited(n)'
    BY <2>1, Shapes DEF PeersInv, PeersTypeOK, Awaited
  <2> QED BY <1>1, <2>1, <2>2 DEF PeersInv, PeersTypeOK, PeerSound, SnapshotCurrent, FlightCurrent,
             EntryQuarantined, FlightQuarantined, Awaited
<1> QED BY <1>4, <1>5, <1>6, <1>7, <1>8, <1>9 DEF Refresh

(* A snapshot that grows old keeps its quarantine. *)
LEMMA AgesLemma == ASSUME PeersInv, NEW m \in Macs, Ages(m) PROVE PeersInv'
<1>1. cache' = [cache EXCEPT ![m] = Expired(cache[m])] /\ UNCHANGED << token, flight, refused >>
  BY DEF Ages, HubStays
<1>2. /\ Expired(cache[m]) \in Entry /\ Expired(cache[m]).kind = "expired"
      /\ Expired(cache[m]).rejected = cache[m].rejected
  BY ExpiredShape DEF PeersInv, PeersTypeOK
<1>3. PeersTypeOK'
  BY <1>1, <1>2 DEF PeersInv, PeersTypeOK
<1>4. ASSUME NEW n \in Macs PROVE PeerSound(n)'
  <2>1. cache'[n] = IF n = m THEN Expired(cache[m]) ELSE cache[n]
    BY <1>1 DEF PeersInv, PeersTypeOK
  <2> QED BY <1>1, <1>2, <2>1 DEF PeersInv, PeerSound, SnapshotCurrent, FlightCurrent,
             EntryQuarantined, FlightQuarantined, Awaited
<1> QED BY <1>3, <1>4 DEF PeersInv

(* An invalidated entry that was quarantined stays so, in the refresh too     *)
(* that begins.                                                               *)
LEMMA MemoryLemma == ASSUME PeersInv, NEW m \in Macs, MemoryGiven(m) PROVE PeersInv'
<1>1. cache' = Invalidated(m) /\ UNCHANGED << token, refused >>
  BY DEF MemoryGiven
<1>2. /\ Expired(cache[m]) \in Entry /\ Expired(cache[m]).kind = "expired"
      /\ Expired(cache[m]).rejected = cache[m].rejected
  BY ExpiredShape DEF PeersInv, PeersTypeOK
<1>3. /\ cache' \in [Macs -> Entry]
      /\ \A n \in Macs : \/ cache'[n] = cache[n]
                         \/ cache'[n] = Unknown /\ cache[n].rejected = Nobody
                         \/ cache'[n].kind = "expired" /\ cache'[n].rejected = cache[n].rejected
  <2>1. CASE cache[m].rejected = Nobody
    BY <1>1, <2>1, Shapes DEF Invalidated, Dropped, PeersInv, PeersTypeOK
  <2>2. CASE cache[m].rejected # Nobody
    BY <1>1, <1>2, <2>2 DEF Invalidated, PeersInv, PeersTypeOK
  <2> QED BY <2>1, <2>2
<1>4. /\ flight' \in [Macs -> Flight]
      /\ \A n \in Macs : \/ flight'[n] = flight[n]
                         \/ ~Awaited(n)'
                         \/ flight'[n].token = token /\ flight'[n].held = cache'[n].rejected
  <2>1. CASE flight' = Asked'
    <3> DEFINE Sent(n) == [stage |-> "asked", token |-> token, held |-> cache'[n].rejected]
    <3>1. \A n \in Macs : Sent(n) \in Flight /\ Sent(n).token = token /\ Sent(n).held = cache'[n].rejected
      <4>1. \A n \in Macs : cache'[n].rejected \in Refusers /\ token \in Nat
        BY <1>3 DEF PeersInv, PeersTypeOK, Entry
      <4> QED BY <4>1 DEF Flight, Stages
    <3>2. /\ flight' = [n \in Macs |-> flight'[n]]
          /\ \A n \in Macs : flight'[n] = NoFlight \/ flight'[n] = Sent(n)
      BY <1>1, <2>1 DEF Asked
    <3> HIDE DEF Sent
    <3>3. \A n \in Macs : flight'[n] \in Flight
      BY <3>1, <3>2, Shapes
    <3> QED BY <3>1, <3>2, <3>3 DEF Awaited
  <2>2. CASE Replaced({m})
    BY <2>2, OutdatedLemma DEF PeersInv, Replaced
  <2> QED BY <2>1, <2>2 DEF MemoryGiven
<1>5. PeersTypeOK'
  BY <1>1, <1>3, <1>4 DEF PeersInv, PeersTypeOK
<1>6. ASSUME NEW n \in Macs PROVE PeerSound(n)'
  <2>1. SnapshotCurrent(n)' /\ EntryQuarantined(n)'
    BY <1>1, <1>3, Shapes DEF PeersInv, PeerSound, SnapshotCurrent, EntryQuarantined
  <2>2. FlightCurrent(n)' /\ FlightQuarantined(n)'
    BY <1>1, <1>4, <2>1 DEF PeersInv, PeerSound, FlightCurrent, FlightQuarantined, EntryQuarantined, Awaited
  <2> QED BY <2>1, <2>2 DEF PeerSound
<1> QED BY <1>5, <1>6 DEF PeersInv

LEMMA RestartLemma == PeersInv /\ HubRestarts => PeersInv'
<1> SUFFICES ASSUME PeersInv, HubRestarts PROVE PeersInv'
  OBVIOUS
<1>1. PeersTypeOK'
  BY Shapes DEF PeersInv, PeersTypeOK, HubRestarts, Dropped, Lifted
<1>2. ASSUME NEW m \in Macs PROVE PeerSound(m)'
  BY Shapes DEF HubRestarts, PeerSound, SnapshotCurrent, FlightCurrent, EntryQuarantined,
         FlightQuarantined, Awaited, Dropped, Lifted
<1> QED BY <1>1, <1>2 DEF PeersInv

-----------------------------------------------------------------------------
LEMMA PeersStep == PeersInv /\ [Next]_vars => PeersInv'
<1> SUFFICES ASSUME PeersInv, [Next]_vars PROVE PeersInv'
  OBVIOUS
<1> DEFINE Elsewhere == UNCHANGED PeerVars
<1>1. CASE UNCHANGED vars
  BY <1>1, StayLemma DEF vars, controllerVars, PeerVars
<1>2. CASE RefreshBegins \/ HubRestarts
  BY <1>2, BeginsLemma, RestartLemma
<1>3. CASE OpenEnrollment \/ CloseEnrollment
  BY <1>3, StayLemma DEF OpenEnrollment, CloseEnrollment, PeersStay, PeerVars
<1>4. ASSUME NEW m \in Macs, Refresh(m) \/ AnswerLost(m) \/ Ages(m) PROVE PeersInv'
  BY <1>4, RefreshLemma, AgesLemma
<1>5. ASSUME NEW m \in Macs, NEW s \in Studios, Rejected(m, s) \/ RejectedLate(m, s) PROVE PeersInv'
  BY <1>5, RejectsLemma DEF Rejected, RejectedLate, HubStays
<1>6. ASSUME NEW m \in Macs, MemoryAsked(m) \/ MemoryGiven(m) \/ RemoveMac(m) PROVE PeersInv'
  BY <1>6, StayLemma, MemoryLemma, ForgetLemma DEF MemoryAsked, PeerVars, RemoveMac
<1>7. ASSUME NEW m \in Macs, JoinClaims(m) \/ ClaimUnheard(m) PROVE PeersInv'
  BY <1>7, StayLemma DEF JoinClaims, ClaimUnheard, Claimed, PeersStay, PeerVars
<1>8. ASSUME NEW m \in Macs, \/ Pastes(m) \/ JoinSaves(m) \/ JoinCut(m) \/ Moves(m)
                             \/ GoesDown(m) \/ ComesUp(m) \/ \E s \in Studios : StudioRestarts(m, s)
      PROVE  PeersInv'
  BY <1>8, StayLemma DEF Pastes, JoinSaves, JoinCut, Joined, Moves, StudioRestarts, GoesDown,
     ComesUp, PeersStay, HubStays, PeerVars
<1>9. ASSUME NEW t \in Offered, SaveBegins(t) PROVE PeersInv'
  BY <1>9, StayLemma DEF SaveBegins, PeersStay, PeerVars
<1>10. ASSUME NEW t \in Offered, SaveEnds(t) PROVE PeersInv'
  BY <1>10, TokenAssumption, SetTokenLemma DEF SaveEnds
<1>11. ASSUME NEW t \in Offered, NEW m \in Macs, Saving(t, m) \/ SavedUnheard(t, m) PROVE PeersInv'
  BY <1>11, StayLemma DEF Saving, Saves, SaveRefused, Verified, Unreached, SavedUnheard,
     RowBecomes, PeersStay, PeerVars
<1> QED
  BY <1>1, <1>2, <1>3, <1>4, <1>5, <1>6, <1>7, <1>8, <1>9, <1>10, <1>11 DEF Next

(* What the Controller keeps of its peers is sound in every state. *)
LEMMA PeersSound == Spec => []PeersInv
<1>1. Init => PeersInv
  BY PeersStart
<1>2. PeersInv /\ [Next]_vars => PeersInv'
  BY PeersStep
<1> QED BY <1>1, <1>2, PTL DEF Spec

(* peers.py, store and set_fleet_token: no order of saves, polls, refusals,   *)
(* joins and restarts lets an answer to an older token authorise work.        *)
THEOREM TokenIsCurrent == Spec => []AuthorityCurrent
<1>1. PeersInv => AuthorityCurrent
  BY DEF PeersInv, PeerSound, SnapshotCurrent, AuthorityCurrent, Ready
<1> QED BY <1>1, PeersSound, PTL

(* peers.py, invalidate against the refresh under way and broker.py,          *)
(* prepare_machine_memory: no Mac is sent work between a refusal and the next *)
(* acceptance of the Studio that refused last, unless a save, the removal of  *)
(* the Mac or a restart of the Hub has forgotten the refusal.                 *)
THEOREM QuarantineStands == Spec => []QuarantineHolds
<1>1. PeersInv => QuarantineHolds
  BY DEF PeersInv, PeerSound, EntryQuarantined, QuarantineHolds, Ready
<1> QED BY <1>1, PeersSound, PTL

-----------------------------------------------------------------------------
(* What a save has verified. A row that says so, of a Mac that nobody else    *)
(* gave a token since, names a Mac that has it; the save that ends last makes *)
(* the Controller's token the one its rows are about.                         *)
Agent == [site : {"none", "here", "elsewhere"}, token : Nat, workers : [Studios -> Nat], up : BOOLEAN]
Results == {"out", "asked", "saved", "manual", "verified", "failed", "unreachable"}
Save == [on : BOOLEAN, old : Nat, rows : [Macs -> Results]]

SavesTypeOK ==
    /\ token \in Nat
    /\ agents \in [Macs -> Agent] /\ joins \in [Macs -> Nat]
    /\ saving \in [Offered -> Save]

RowHolds(t, m) == saving[t].rows[m] = "verified" /\ m \notin touched => Takes(m, t)
(* Rows belong to a save that is under way.                                   *)
SavesRun == \A t \in Offered, m \in Macs : saving[t].rows[m] = "verified" => saving[t].on
SavesInv ==
    /\ SavesTypeOK /\ SavesRun
    /\ \A t \in Offered, m \in Macs : RowHolds(t, m)
    /\ VerifiedHolds

(* The shapes of a Mac and a save. *)
LEMMA SaveShapes ==
    /\ Idle \in Save /\ Idle.on = FALSE /\ \A m \in Macs : Idle.rows[m] = "out"
    /\ Offered \subseteq Nat /\ Other \in Nat
  BY TokenAssumption DEF Idle, Save, Results, Other

LEMMA AgentShapes ==
    ASSUME NEW a \in Agent, NEW t \in Nat, NEW up \in BOOLEAN
    PROVE  /\ [a EXCEPT !.token = t] \in Agent /\ [a EXCEPT !.token = t].token = t
           /\ \A s \in Studios : [a EXCEPT !.workers[s] = t] \in Agent /\ [a EXCEPT !.workers[s] = t].token = a.token
           /\ [a EXCEPT !.up = up] \in Agent /\ [a EXCEPT !.up = up].token = a.token
           /\ [a EXCEPT !.site = "here"] \in Agent
           /\ [a EXCEPT !.site = "here", !.token = t] \in Agent
           /\ [a EXCEPT !.site = "elsewhere", !.token = t] \in Agent
  BY DEF Agent

(* A step outside the saves: only Macs it notes as touched get a token.       *)
LEMMA OutsideLemma ==
    ASSUME SavesInv, SavesTypeOK', UNCHANGED << token, saving, report >>,
           \A m \in Macs : m \notin touched' =>
               m \notin touched /\ agents'[m].token = agents[m].token
    PROVE  SavesInv'
<1>1. ASSUME NEW t \in Offered, NEW m \in Macs PROVE RowHolds(t, m)'
  BY DEF SavesInv, RowHolds, Takes
<1>2. VerifiedHolds'
  <2> SUFFICES ASSUME NEW m \in Macs, \A t \in DOMAIN saving : ~saving[t].on, m \in report, m \notin touched'
               PROVE  agents'[m].token = token
    BY DEF VerifiedHolds, Takes
  <2> QED BY DEF SavesInv, VerifiedHolds, Takes
<1> QED BY <1>1, <1>2 DEF SavesInv, SavesRun

(* A Mac becomes another one, whose token is noted or the same. *)
LEMMA AgentLemma ==
    ASSUME SavesInv, NEW m \in Macs, NEW a \in Agent, AgentBecomes(m, a),
           joins' \in [Macs -> Nat], UNCHANGED << token, saving, report >>,
           \/ touched' = touched \cup {m}
           \/ UNCHANGED touched /\ a.token = agents[m].token
    PROVE  SavesInv'
<1>1. agents' \in [Macs -> Agent] /\ \A n \in Macs : agents'[n] = IF n = m THEN a ELSE agents[n]
  BY DEF SavesInv, SavesTypeOK, AgentBecomes
<1>2. SavesTypeOK'
  BY <1>1 DEF SavesInv, SavesTypeOK
<1> QED BY <1>1, <1>2, OutsideLemma

(* A row of a save changes, and with it perhaps the token of its Mac.         *)
LEMMA RowLemma ==
    ASSUME SavesInv, NEW t \in Offered, NEW m \in Macs, NEW result \in Results,
           saving[t].on, RowBecomes(t, m, result), agents' \in [Macs -> Agent],
           \A n \in Macs \ {m} : /\ agents'[n] = agents[n]
                                 /\ n \notin touched' => n \notin touched,
           result = "verified" => agents'[m].token = t,
           \A u \in Offered \ {t} :
               saving[u].rows[m] = "verified" /\ m \notin touched'
                 => m \notin touched /\ agents'[m].token = agents[m].token
    PROVE  SavesInv'
<1>1. saving' = [saving EXCEPT ![t] = [saving[t] EXCEPT !.rows = [saving[t].rows EXCEPT ![m] = result]]]
  BY DEF RowBecomes
<1> DEFINE save == [saving[t] EXCEPT !.rows = [saving[t].rows EXCEPT ![m] = result]]
<1>2. saving[t] \in Save /\ saving[t].rows \in [Macs -> Results]
  BY DEF SavesInv, SavesTypeOK, Save
<1>3. [saving[t].rows EXCEPT ![m] = result] \in [Macs -> Results]
  BY <1>2
<1>4. save \in Save /\ save.on = saving[t].on /\ save.rows = [saving[t].rows EXCEPT ![m] = result]
  BY <1>2, <1>3 DEF Save
<1> HIDE DEF save
<1>5. saving' \in [Offered -> Save] /\ saving'[t] = save /\ \A u \in Offered \ {t} : saving'[u] = saving[u]
  BY <1>1, <1>4 DEF SavesInv, SavesTypeOK, save
<1>6. SavesTypeOK'
  BY <1>5 DEF SavesInv, SavesTypeOK, RowBecomes
<1>7. ASSUME NEW u \in Offered, NEW n \in Macs PROVE RowHolds(u, n)'
  <2>1. RowHolds(u, n)
    BY DEF SavesInv
  <2>2. CASE u = t /\ n = m
    <3>1. saving'[u].rows[n] = result
      BY <2>2, <1>2, <1>4, <1>5
    <3> QED BY <2>2, <3>1 DEF RowHolds, Takes
  <2>3. CASE u = t /\ n # m
    <3>1. saving'[u].rows[n] = saving[u].rows[n]
      BY <2>3, <1>2, <1>4, <1>5
    <3> QED BY <2>1, <2>3, <3>1 DEF RowHolds, Takes
  <2>4. CASE u # t /\ n = m
    BY <2>1, <2>4, <1>5 DEF RowHolds, Takes
  <2>5. CASE u # t /\ n # m
    BY <2>1, <2>5, <1>5 DEF RowHolds, Takes
  <2> QED BY <2>2, <2>3, <2>4, <2>5
<1>8. VerifiedHolds'
  <2>1. t \in DOMAIN saving' /\ saving'[t].on
    BY <1>4, <1>5
  <2> QED BY <2>1 DEF VerifiedHolds
<1>9. SavesRun'
  <2> SUFFICES ASSUME NEW u \in Offered, NEW n \in Macs, saving'[u].rows[n] = "verified"
               PROVE  saving'[u].on
    BY DEF SavesRun
  <2>1. CASE u = t
    BY <2>1, <1>4, <1>5
  <2>2. CASE u # t
    BY <2>2, <1>5 DEF SavesInv, SavesRun
  <2> QED BY <2>1, <2>2
<1> QED BY <1>6, <1>7, <1>8, <1>9 DEF SavesInv

LEMMA SavesStart == Init => SavesInv
<1> SUFFICES ASSUME Init PROVE SavesInv
  OBVIOUS
<1>1. SavesTypeOK
  <2>1. [site |-> "none", token |-> Other, workers |-> [s \in Studios |-> Other], up |-> TRUE] \in Agent
    BY SaveShapes DEF Agent
  <2>2. NoJoin \in Nat
    BY SaveShapes DEF NoJoin
  <2> QED BY <2>1, <2>2, SaveShapes DEF Init, SavesTypeOK
<1>2. \A t \in Offered, m \in Macs : RowHolds(t, m)
  BY SaveShapes DEF Init, RowHolds
<1>3. VerifiedHolds
  BY DEF Init, VerifiedHolds
<1>4. SavesRun
  BY SaveShapes DEF Init, SavesRun
<1> QED BY <1>1, <1>2, <1>3, <1>4 DEF SavesInv

(* The Mac takes the new token: others' verdicts on it are noted as overtaken. *)
LEMMA TakenLemma ==
    ASSUME SavesInv, NEW t \in Offered, NEW m \in Macs, NEW result \in Results \ {"verified"},
           saving[t].on, RowBecomes(t, m, result), Overtakes(t, m),
           AgentBecomes(m, [agents[m] EXCEPT !.token = t])
    PROVE  SavesInv'
<1>1. t \in Nat /\ agents[m] \in Agent
  BY SaveShapes DEF SavesInv, SavesTypeOK
<1>2. [agents[m] EXCEPT !.token = t] \in Agent
  BY <1>1, AgentShapes
<1>3. agents' \in [Macs -> Agent] /\ \A n \in Macs \ {m} : agents'[n] = agents[n]
  BY <1>2 DEF SavesInv, SavesTypeOK, AgentBecomes
<1>4. \A n \in Macs : n \notin touched' => n \notin touched
  BY DEF Overtakes
<1>5. \A u \in Offered \ {t} : saving[u].rows[m] = "verified" => m \in touched'
  BY DEF Overtakes, SavesInv, SavesTypeOK
<1> QED BY <1>3, <1>4, <1>5, RowLemma

LEMMA SavingLemma ==
    ASSUME SavesInv, NEW t \in Offered, NEW m \in Macs, Saving(t, m) \/ SavedUnheard(t, m)
    PROVE  SavesInv'
<1>1. CASE Saves(t, m)
  BY <1>1, TakenLemma DEF Saves, Pending, Results
<1>2. CASE SavedUnheard(t, m)
  BY <1>2, TakenLemma DEF SavedUnheard, Pending, Results
<1>3. CASE SaveRefused(t, m)
  <2>1. saving[t].on /\ RowBecomes(t, m, "manual") /\ UNCHANGED << agents, touched >>
    BY <1>3 DEF SaveRefused, Pending
  <2> QED BY <2>1, RowLemma DEF SavesInv, SavesTypeOK, Results
<1>4. CASE Unreached(t, m)
  <2>1. saving[t].on /\ RowBecomes(t, m, "unreachable") /\ UNCHANGED << agents, touched >>
    BY <1>4 DEF Unreached, Pending
  <2> QED BY <2>1, RowLemma DEF SavesInv, SavesTypeOK, Results
<1>5. CASE Verified(t, m)
  <2> DEFINE result == IF Confirms(t, m) THEN "verified" ELSE "failed"
  <2>1. saving[t].on /\ RowBecomes(t, m, result) /\ UNCHANGED agents
    BY <1>5 DEF Verified, Pending
  <2>2. result \in Results /\ (result = "verified" => agents'[m].token = t)
    BY <2>1 DEF Confirms, Takes, Results
  <2>3. \A n \in Macs \ {m} : n \notin touched' => n \notin touched
    BY <1>5 DEF Verified
  <2>4. ASSUME NEW u \in Offered \ {t}, saving[u].rows[m] = "verified", m \notin touched'
        PROVE  m \notin touched /\ agents'[m].token = agents[m].token
    <3>1. saving[u].on
      BY <2>4 DEF SavesInv, SavesRun
    <3>2. UNCHANGED touched
      BY <1>5, <3>1 DEF Verified, SavesInv, SavesTypeOK
    <3> QED BY <2>1, <2>4, <3>2
  <2> HIDE DEF result
  <2>5. agents' \in [Macs -> Agent]
    BY <2>1 DEF SavesInv, SavesTypeOK
  <2> QED BY <2>1, <2>2, <2>3, <2>4, <2>5, RowLemma
<1> QED BY <1>1, <1>2, <1>3, <1>4, <1>5 DEF Saving

LEMMA SaveBeginsLemma == ASSUME SavesInv, NEW t \in Offered, SaveBegins(t) PROVE SavesInv'
<1> DEFINE rows == [m \in Macs |-> IF m \in registered THEN "asked" ELSE "out"]
           save == [on |-> TRUE, old |-> token, rows |-> rows]
<1>1. saving' = [saving EXCEPT ![t] = save] /\ UNCHANGED << token, report, agents, joins, touched >>
  BY DEF SaveBegins, MacsStay
<1>2. save \in Save /\ save.on = TRUE /\ \A m \in Macs : save.rows[m] # "verified"
  BY DEF SavesInv, SavesTypeOK, Save, Results
<1> HIDE DEF save
<1>3. saving' \in [Offered -> Save] /\ \A u \in Offered : saving'[u] = IF u = t THEN save ELSE saving[u]
  BY <1>1, <1>2 DEF SavesInv, SavesTypeOK
<1>4. SavesTypeOK'
  BY <1>1, <1>3 DEF SavesInv, SavesTypeOK
<1>5. \A u \in Offered, m \in Macs : RowHolds(u, m)'
  BY <1>1, <1>2, <1>3 DEF SavesInv, RowHolds, Takes
<1>6. VerifiedHolds'
  BY <1>2, <1>3 DEF VerifiedHolds
<1>7. SavesRun'
  BY <1>2, <1>3 DEF SavesInv, SavesRun
<1> QED BY <1>4, <1>5, <1>6, <1>7 DEF SavesInv

LEMMA SaveEndsLemma == ASSUME SavesInv, NEW t \in Offered, SaveEnds(t) PROVE SavesInv'
<1>1. /\ saving' = [saving EXCEPT ![t] = Idle] /\ token' = t
      /\ report' = {m \in Macs : saving[t].rows[m] = "verified"}
      /\ UNCHANGED << agents, joins, touched >>
  BY DEF SaveEnds, SetToken, macVars
<1>2. saving' \in [Offered -> Save] /\ \A u \in Offered : saving'[u] = IF u = t THEN Idle ELSE saving[u]
  BY <1>1, SaveShapes DEF SavesInv, SavesTypeOK
<1>3. SavesTypeOK'
  BY <1>1, <1>2, SaveShapes DEF SavesInv, SavesTypeOK
<1>4. \A u \in Offered, m \in Macs : RowHolds(u, m)'
  BY <1>1, <1>2, SaveShapes DEF SavesInv, RowHolds, Takes
<1>5. VerifiedHolds'
  BY <1>1 DEF SavesInv, VerifiedHolds, RowHolds, Takes
<1>6. SavesRun'
  BY <1>2, SaveShapes DEF SavesInv, SavesRun
<1> QED BY <1>3, <1>4, <1>5, <1>6 DEF SavesInv

LEMMA SavesRestart == SavesInv /\ HubRestarts => SavesInv'
<1> SUFFICES ASSUME SavesInv, HubRestarts PROVE SavesInv'
  OBVIOUS
<1>1. /\ saving' = [t \in Offered |-> Idle] /\ report' = {}
      /\ UNCHANGED << token, agents, joins, touched >>
  BY DEF HubRestarts, MacsStay, SavesInv, SavesTypeOK
<1>2. SavesTypeOK'
  BY <1>1, SaveShapes DEF SavesInv, SavesTypeOK
<1>3. (\A u \in Offered, m \in Macs : RowHolds(u, m)') /\ VerifiedHolds' /\ SavesRun'
  BY <1>1, SaveShapes DEF RowHolds, VerifiedHolds, SavesRun
<1> QED BY <1>2, <1>3 DEF SavesInv

LEMMA JoinedLemma == ASSUME SavesInv, NEW m \in Macs, JoinSaves(m) \/ JoinCut(m) PROVE SavesInv'
<1>1. agents[m] \in Agent /\ joins[m] \in Nat /\ NoJoin \in Nat
  BY SaveShapes DEF SavesInv, SavesTypeOK, NoJoin
<1>2. ASSUME NEW a \in Agent, Joined(m, a) PROVE SavesInv'
  BY <1>1, <1>2, AgentLemma DEF Joined, HubStays, SavesInv, SavesTypeOK
<1>3. /\ [agents[m] EXCEPT !.site = "here", !.token = joins[m]] \in Agent
      /\ [agents[m] EXCEPT !.site = "here"] \in Agent
  BY <1>1, AgentShapes
<1> QED BY <1>2, <1>3 DEF JoinSaves, JoinCut

LEMMA MacLemma ==
    ASSUME SavesInv, NEW m \in Macs,
           \/ Pastes(m) \/ Moves(m) \/ GoesDown(m) \/ ComesUp(m)
           \/ \E s \in Studios : StudioRestarts(m, s)
    PROVE  SavesInv'
<1>1. agents[m] \in Agent /\ token \in Nat /\ agents[m].token \in Nat /\ Other \in Nat
      /\ joins \in [Macs -> Nat]
  BY SaveShapes DEF SavesInv, SavesTypeOK, Agent
<1>2. UNCHANGED << token, saving, report, joins >>
  BY DEF Pastes, Moves, StudioRestarts, GoesDown, ComesUp, HubStays
<1>3. CASE Pastes(m)
  <2>1. [agents[m] EXCEPT !.token = token] \in Agent
    BY <1>1, AgentShapes
  <2> QED BY <1>1, <1>2, <1>3, <2>1, AgentLemma DEF Pastes
<1>4. CASE Moves(m)
  <2>1. [agents[m] EXCEPT !.site = "elsewhere", !.token = Other] \in Agent
    BY <1>1, AgentShapes
  <2> QED BY <1>1, <1>2, <1>4, <2>1, AgentLemma DEF Moves
<1>5. ASSUME NEW s \in Studios, StudioRestarts(m, s) PROVE SavesInv'
  <2> DEFINE a == [agents[m] EXCEPT !.workers[s] = agents[m].token]
  <2>1. a \in Agent /\ a.token = agents[m].token
    BY <1>1, AgentShapes
  <2>2. AgentBecomes(m, a) /\ UNCHANGED touched
    BY <1>5 DEF StudioRestarts
  <2> HIDE DEF a
  <2> QED BY <1>1, <1>2, <2>1, <2>2, AgentLemma
<1>6. CASE GoesDown(m)
  <2> DEFINE a == [agents[m] EXCEPT !.up = FALSE]
  <2>1. a \in Agent /\ a.token = agents[m].token
    BY <1>1, AgentShapes
  <2>2. AgentBecomes(m, a) /\ UNCHANGED touched
    BY <1>6 DEF GoesDown
  <2> HIDE DEF a
  <2> QED BY <1>1, <1>2, <2>1, <2>2, AgentLemma
<1>7. CASE ComesUp(m)
  <2> DEFINE a == [agents[m] EXCEPT !.up = TRUE]
  <2>1. a \in Agent /\ a.token = agents[m].token
    BY <1>1, AgentShapes
  <2>2. AgentBecomes(m, a) /\ UNCHANGED touched
    BY <1>7 DEF ComesUp
  <2> HIDE DEF a
  <2> QED BY <1>1, <1>2, <2>1, <2>2, AgentLemma
<1> QED BY <1>3, <1>4, <1>5, <1>6, <1>7

(* A step that concerns neither saves nor what the Macs hold. *)
LEMMA AsideLemma ==
    ASSUME SavesInv, UNCHANGED << token, saving, report, agents, touched >>, joins' \in [Macs -> Nat]
    PROVE  SavesInv'
  BY DEF SavesInv, SavesTypeOK, SavesRun, RowHolds, VerifiedHolds, Takes

LEMMA SavesStep == SavesInv /\ [Next]_vars => SavesInv'
<1> SUFFICES ASSUME SavesInv, [Next]_vars PROVE SavesInv'
  OBVIOUS
<1>1. joins \in [Macs -> Nat] /\ token \in Nat
  BY DEF SavesInv, SavesTypeOK
<1>2. CASE UNCHANGED vars
  BY <1>1, <1>2, AsideLemma DEF vars, controllerVars, macVars
<1>3. CASE RefreshBegins \/ OpenEnrollment \/ CloseEnrollment
  BY <1>1, <1>3, AsideLemma DEF RefreshBegins, OpenEnrollment, CloseEnrollment, HubStays, MacsStay
<1>4. ASSUME NEW m \in Macs, Refresh(m) \/ AnswerLost(m) PROVE SavesInv'
  BY <1>1, <1>4, AsideLemma DEF Refresh, Accepted, Refused, Probed, Placed, Silent, AnswerLost, AnsweredLate,
     HubStays, MacsStay
<1>5. ASSUME NEW m \in Macs, \/ Ages(m) \/ MemoryAsked(m) \/ MemoryGiven(m) \/ RemoveMac(m)
                             \/ \E s \in Studios : Rejected(m, s) \/ RejectedLate(m, s)
      PROVE  SavesInv'
  BY <1>1, <1>5, AsideLemma DEF Ages, Rejected, RejectedLate, MemoryAsked, MemoryGiven, RemoveMac,
     HubStays, MacsStay
<1>6. ASSUME NEW m \in Macs, JoinClaims(m) PROVE SavesInv'
  <2>1. joins' \in [Macs -> Nat]
    BY <1>1, <1>6 DEF JoinClaims
  <2> QED BY <1>6, <2>1, AsideLemma DEF JoinClaims, Claimed
<1>7. ASSUME NEW m \in Macs, ClaimUnheard(m) PROVE SavesInv'
  BY <1>1, <1>7, AsideLemma DEF ClaimUnheard, Claimed
<1> QED
  BY <1>2, <1>3, <1>4, <1>5, <1>6, <1>7, JoinedLemma, MacLemma, SavingLemma, SaveBeginsLemma,
     SaveEndsLemma, SavesRestart DEF Next

(* peers.py, sync_fleet_token: "verified" stays true until somebody else      *)
(* writes the Mac's token, however saves overlap, Macs fail or Hubs restart.  *)
THEOREM VerdictStands == Spec => []VerifiedHolds
<1>1. Init => SavesInv
  BY SavesStart
<1>2. SavesInv /\ [Next]_vars => SavesInv'
  BY SavesStep
<1>3. SavesInv => VerifiedHolds
  BY DEF SavesInv
<1> QED BY <1>1, <1>2, <1>3, PTL DEF Spec
=============================================================================
