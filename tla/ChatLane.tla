------------------------------- MODULE ChatLane -------------------------------
(***************************************************************************)
(* The Chat queue (chat_jobs.py): a batch is a list of packs, a pack asks  *)
(* one Chat Studio for a set of scenes and keeps the results it already    *)
(* has between tries.  As in the transcription queue every code segment    *)
(* between two awaits saves what it changed, so `stored' and `listed' are  *)
(* all that memory and the row can differ in.                              *)
(***************************************************************************)
EXTENDS MachineLeases

CONSTANTS
    Talks, Packs,       \* batches and the indexes of their packs
    Scenes,             \* the scene ids of a pack
    Writers, WriterHost, \* Chat Studios and the Mac each runs on
    Fenced,             \* the batches GenStudio assigned with a lease
    MaxPackTries        \* MAX_TRIES

ASSUME ChatAssumption ==
    /\ Packs \subseteq Nat /\ WriterHost \in [Writers -> Machines]
    /\ Fenced \subseteq Talks /\ Scenes # {}
    /\ MaxPackTries \in Nat \ {0}

VARIABLES
    talk,       \* the batch objects
    asks,       \* _run_pack on each Studio
    packHandle, \* _pack_tasks
    engaged,    \* busy_studios
    round       \* dispatch_once's locals

chatVars == << talk, asks, packHandle, engaged, round >>

PackTerminal == {"done", "partial", "error", "cancelled"}
NoTalk == [listed |-> FALSE, stored |-> FALSE]
NoAsk == [pc |-> "none"]
NoRound == [pc |-> "idle"]

NewPack == [state |-> "queued", tries |-> 0, results |-> {}, waiting |-> FALSE]
Present(b) == talk[b].listed \/ talk[b].stored
AllEnded(b) == \A i \in Packs : talk[b].packs[i].state \in PackTerminal
Overdue(b) == talk[b].lease \in {"lapsed", "late renewal"}
PackOwner(b, i) == << "chat", b, i >>
Referenced(b) == (\E s \in Writers : asks[s].pc # "none" /\ asks[s].b = b)
                 \/ (round.pc # "idle" /\ round.b = b)

(* _expire_genstudio_batch *)
ExpiredTalk(t) ==
    [t EXCEPT !.cancelled = TRUE,
              !.packs = [i \in Packs |-> IF @[i].state \in {"queued", "running"}
                             THEN [@[i] EXCEPT !.state = "cancelled", !.waiting = FALSE] ELSE @[i]]]

ChatInit ==
    /\ talk = [b \in Talks |-> NoTalk]
    /\ asks = [s \in Writers |-> NoAsk]
    /\ packHandle = [b \in Talks |-> [i \in Packs |-> Nobody]]
    /\ engaged = {} /\ round = NoRound

(* create_batch *)
CreateTalk(b) ==
    /\ talk[b] = NoTalk
    /\ talk' = [talk EXCEPT ![b] =
           [listed |-> TRUE, stored |-> TRUE, cancelled |-> FALSE,
            lease |-> IF b \in Fenced THEN "valid" ELSE "none",
            packs |-> [i \in Packs |-> NewPack]]]
    /\ UNCHANGED << asks, packHandle, engaged, round, machineVars >>

TalkLapses(b) ==
    /\ Present(b) /\ talk[b].lease = "valid"
    /\ \E l \in {"lapsed", "late renewal"} : talk' = [talk EXCEPT ![b].lease = l]
    /\ UNCHANGED << asks, packHandle, engaged, round, machineVars >>

(* renew_execution_lease *)
RenewTalk(b) ==
    /\ Present(b) /\ talk[b].lease = "late renewal"
    /\ talk' = [talk EXCEPT ![b].lease = "valid", ![b].listed = TRUE, ![b].stored = TRUE]
    /\ UNCHANGED << asks, packHandle, engaged, round, machineVars >>

(* The delay before the next try of a pack passes (retry_at). *)
DelayEnds(b, i) ==
    /\ Present(b) /\ talk[b].packs[i].waiting
    /\ talk' = [talk EXCEPT ![b].packs[i].waiting = FALSE]
    /\ UNCHANGED << asks, packHandle, engaged, round, machineVars >>

-----------------------------------------------------------------------------
(* _eligible_studios *)
Usable(s) == /\ s \notin engaged /\ s \notin drained /\ ~MachineBusy(WriterHost[s])

Open(b) == talk[b].listed /\ ~talk[b].cancelled
Due(b) == {i \in Packs : talk[b].packs[i].state = "queued" /\ ~talk[b].packs[i].waiting}

(* has_dispatchable_work, memory evidence missing. *)
ChatWork(m) ==
    /\ \E b \in Talks : Open(b) /\ ~Overdue(b) /\ Due(b) # {}
    /\ \E s \in Writers : WriterHost[s] = m /\ Usable(s)

RoundExpire(b) ==
    /\ round.pc = "idle" /\ Open(b) /\ Overdue(b)
    /\ talk' = [talk EXCEPT ![b] = [ExpiredTalk(talk[b]) EXCEPT !.stored = TRUE]]
    /\ UNCHANGED << asks, packHandle, engaged, round, machineVars >>

(* dispatch_once: the first due pack of a batch, the Studios found eligible *)
(* at an await, the turn of the Mac, the memory check and the start.        *)
RoundPick(b) ==
    /\ round.pc = "idle" /\ Open(b) /\ ~Overdue(b)
    /\ \E i \in Due(b) : /\ \A k \in Due(b) : i <= k
                         /\ round' = [pc |-> "list", b |-> b, i |-> i]
    /\ UNCHANGED << talk, asks, packHandle, engaged, machineVars >>

RoundList ==
    /\ round.pc = "list"
    /\ round' = [pc |-> "look", b |-> round.b, i |-> round.i, left |-> {s \in Writers : Usable(s)}]
    /\ UNCHANGED << talk, asks, packHandle, engaged, machineVars >>

RoundLook(s) ==
    /\ round.pc = "look" /\ s \in round.left
    /\ round' = [pc |-> "ask", b |-> round.b, i |-> round.i, left |-> round.left \ {s}, s |-> s]
    /\ UNCHANGED << talk, asks, packHandle, engaged, machineVars >>

RoundExhausted ==
    /\ round.pc = "look" /\ round.left = {} /\ round' = NoRound
    /\ UNCHANGED << talk, asks, packHandle, engaged, machineVars >>

NextWriter == round' = [pc |-> "look", b |-> round.b, i |-> round.i, left |-> round.left]

RoundAsk(transcriptionWaits) ==
    /\ round.pc = "ask"
    /\ IF MayDispatch(WriterHost[round.s], "chat", WriterHost[round.s] \in transcriptionWaits)
       THEN round' = [round EXCEPT !.pc = "admit"] ELSE NextWriter
    /\ UNCHANGED << talk, asks, packHandle, engaged, machineVars >>

RoundStart ==
    /\ round.pc = "admit" /\ Acquirable(WriterHost[round.s])
    /\ LET b == round.b  i == round.i  s == round.s IN
       /\ Acquire(WriterHost[s], PackOwner(b, i))
       /\ PassTurn(WriterHost[s], "chat")
       /\ talk' = [talk EXCEPT ![b].packs[i].state = "running", ![b].packs[i].waiting = FALSE,
                               ![b].packs[i].tries = @ + 1, ![b].stored = TRUE]
       /\ asks' = [asks EXCEPT ![s] = [pc |-> "created", b |-> b, i |-> i, cancel |-> FALSE]]
       /\ packHandle' = [packHandle EXCEPT ![b][i] = s]
       /\ engaged' = engaged \cup {s}
    /\ round' = NoRound
    /\ UNCHANGED << media, drained, circuit >>

RoundBlocked ==
    /\ round.pc = "admit"
    /\ PassTurn(WriterHost[round.s], "chat") /\ NextWriter
    /\ UNCHANGED << talk, asks, packHandle, engaged, lease, media, drained, circuit >>

RoundLost ==
    /\ round.pc = "admit" /\ NextWriter
    /\ UNCHANGED << talk, asks, packHandle, engaged, machineVars >>

-----------------------------------------------------------------------------
(* The finally clause of _run_pack. *)
Finish(s, t) ==
    LET b == asks[s].b  i == asks[s].i IN
    /\ talk' = [talk EXCEPT ![b] = [t EXCEPT !.stored = TRUE]]
    /\ engaged' = engaged \ {s}
    /\ Release(WriterHost[s], PackOwner(b, i))
    /\ packHandle' = [packHandle EXCEPT ![b][i] = Nobody]
    /\ asks' = [asks EXCEPT ![s] = NoAsk]
    /\ UNCHANGED << round, turn, media, drained, circuit >>

TheTalk(s) == talk[asks[s].b]
ThePack(s) == TheTalk(s).packs[asks[s].i]
WithPack(s, p) == [TheTalk(s) EXCEPT !.packs[asks[s].i] = p]
TryBack(n) == IF n > 0 THEN n - 1 ELSE 0
GaveUp(p) == [p EXCEPT !.state = IF p.results # {} THEN "partial" ELSE "error"]
Again(s, p) == p.tries < MaxPackTries /\ ~TheTalk(s).cancelled

(* Mutant of PackFailed: the next try starts from an empty pack. *)
MutantPackFailed(s, p, transient) ==
    WithPack(s, IF transient /\ Again(s, p)
                THEN [p EXCEPT !.state = "queued", !.waiting = TRUE, !.results = {}] ELSE GaveUp(p))

(* except Exception: a delayed retry, or what was gathered. *)
PackFailed(s, p, transient) ==
    WithPack(s, IF transient /\ Again(s, p)
                THEN [p EXCEPT !.state = "queued", !.waiting = TRUE] ELSE GaveUp(p))

AskStart(s) ==
    /\ asks[s].pc = "created" /\ ~asks[s].cancel
    /\ \/ Overdue(asks[s].b) /\ Finish(s, ExpiredTalk(TheTalk(s)))
       \/ /\ ~Overdue(asks[s].b)
          /\ Finish(s, WithPack(s, [ThePack(s) EXCEPT !.state = "queued", !.tries = TryBack(@)]))
       \/ /\ ~Overdue(asks[s].b)
          /\ asks' = [asks EXCEPT ![s].pc = "post"]
          /\ UNCHANGED << talk, packHandle, engaged, round, machineVars >>

(* An answer with some of the scenes that were still missing. *)
AskAnswered(s) ==
    /\ asks[s].pc = "post" /\ ~asks[s].cancel
    /\ IF Overdue(asks[s].b) THEN Finish(s, ExpiredTalk(TheTalk(s)))
       ELSE \E got \in SUBSET (Scenes \ ThePack(s).results) :
               LET p == [ThePack(s) EXCEPT !.results = @ \cup got] IN
               Finish(s, WithPack(s, CASE p.results = Scenes -> [p EXCEPT !.state = "done"]
                                       [] p.results # Scenes /\ Again(s, p) -> [p EXCEPT !.state = "queued"]
                                       [] OTHER -> GaveUp(p)))

(* A transport failure or empty answer is transient, missing usage evidence *)
(* is final, and too little memory asks the idle Studios of the Mac first.  *)
AskFails(s) ==
    /\ asks[s].pc = "post" /\ ~asks[s].cancel
    /\ \/ \E transient \in BOOLEAN : Finish(s, PackFailed(s, ThePack(s), transient))
       \/ /\ asks' = [asks EXCEPT ![s].pc = "handoff"]
          /\ UNCHANGED << talk, packHandle, engaged, round, machineVars >>

AskHandoff(s) ==
    /\ asks[s].pc = "handoff" /\ ~asks[s].cancel
    /\ \E transient \in BOOLEAN :
           Finish(s, PackFailed(s, [ThePack(s) EXCEPT !.tries = TryBack(@)], transient))

AskCancelled(s) ==
    /\ asks[s].pc # "none" /\ asks[s].cancel
    /\ CASE asks[s].pc = "post" -> Finish(s, WithPack(s, [ThePack(s) EXCEPT !.state = "cancelled"]))
         [] asks[s].pc = "handoff" -> Finish(s, TheTalk(s))
         [] OTHER -> /\ asks' = [asks EXCEPT ![s] = NoAsk]
                     /\ UNCHANGED << talk, packHandle, engaged, round, machineVars >>

-----------------------------------------------------------------------------
(* cancel_batch *)
CancelTalk(b) ==
    /\ Present(b) /\ (talk[b].listed \/ ~Referenced(b))
    /\ talk' = [talk EXCEPT ![b].cancelled = TRUE, ![b].listed = TRUE, ![b].stored = TRUE,
                  ![b].packs = [i \in Packs |-> IF @[i].state = "queued"
                                   THEN [@[i] EXCEPT !.state = "cancelled"] ELSE @[i]]]
    /\ asks' = [s \in Writers |->
           IF \E i \in Packs : packHandle[b][i] = s /\ talk[b].packs[i].state = "running"
                               /\ asks[s].pc # "none"
           THEN [asks[s] EXCEPT !.cancel = TRUE] ELSE asks[s]]
    /\ UNCHANGED << packHandle, engaged, round, machineVars >>

(* Mutant of RetriedPacks: whatever is not done is asked for again. *)
MutantRetriedPacks(b) == {i \in Packs : talk[b].packs[i].state # "done"}

(* retry_batch: the packs that still miss scenes. *)
RetriedPacks(b) == {i \in Packs : talk[b].packs[i].state \in {"partial", "error"}}
RetryTalk(b) ==
    /\ Present(b) /\ (talk[b].listed \/ ~Referenced(b))
    /\ RetriedPacks(b) # {}
    /\ talk' = [talk EXCEPT ![b].cancelled = FALSE, ![b].listed = TRUE, ![b].stored = TRUE,
                  ![b].packs = [i \in Packs |-> IF i \in RetriedPacks(b)
                      THEN [@[i] EXCEPT !.state = "queued", !.tries = 0, !.waiting = FALSE] ELSE @[i]]]
    /\ UNCHANGED << asks, packHandle, engaged, round, machineVars >>

(* remove_batch and clear_terminal *)
RemoveTalk(b) ==
    /\ Present(b) /\ AllEnded(b)
    /\ talk' = [talk EXCEPT ![b].listed = FALSE, ![b].stored = FALSE]
    /\ packHandle' = [packHandle EXCEPT ![b] = [i \in Packs |-> Nobody]]
    /\ UNCHANGED << asks, engaged, round, machineVars >>

(* stop *)
StoppedTalk(b) ==
    [talk[b] EXCEPT !.stored = @ \/ \E s \in Writers : asks[s].pc \in {"post", "handoff"} /\ asks[s].b = b,
        !.packs = [i \in Packs |->
            IF \E s \in Writers : asks[s].pc = "post" /\ asks[s].b = b /\ asks[s].i = i
            THEN [@[i] EXCEPT !.state = IF talk[b].cancelled THEN "cancelled" ELSE "queued"]
            ELSE @[i]]]

(* restore_batches *)
RestoredTalk(t) ==
    CASE ~t.stored -> NoTalk
      [] t.stored /\ \A i \in Packs : t.packs[i].state \in PackTerminal -> [t EXCEPT !.listed = FALSE]
      [] OTHER -> IF t.lease \in {"lapsed", "late renewal"}
                  THEN [ExpiredTalk(t) EXCEPT !.listed = TRUE]
                  ELSE [t EXCEPT !.listed = TRUE,
                          !.packs = [i \in Packs |-> IF @[i].state = "running"
                              THEN [@[i] EXCEPT !.state = "queued", !.waiting = FALSE] ELSE @[i]]]

ChatRestart(graceful) ==
    /\ talk' = [b \in Talks |-> IF talk[b] = NoTalk THEN NoTalk
                                ELSE RestoredTalk(IF graceful THEN StoppedTalk(b) ELSE talk[b])]
    /\ asks' = [s \in Writers |-> NoAsk]
    /\ packHandle' = [b \in Talks |-> [i \in Packs |-> Nobody]]
    /\ engaged' = {} /\ round' = NoRound
=============================================================================
