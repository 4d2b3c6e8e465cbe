-------------------------- MODULE SharedVoicesProofs --------------------------
(* A Studio whose copy is shown as removed has none and gets none again: for  *)
(* any Studios, edits and troubles. A row says "deleted" only after the       *)
(* answer to the one request the Hub waited for; what was sent to that Studio *)
(* before is then old, and what is sent from then on is a deletion.           *)
EXTENDS SharedVoices, TLAPS

Statuses == {"none", "sync", "synced", "delete", "deleted", "pending", "failed"}
Request == [studio : Studios, edition : Nat, heard : BOOLEAN, old : BOOLEAN]
Passes == [kind : {"sync", "delete"}, owner : {"task", "round"}, of : SUBSET Studios]

VoicesTypeOK ==
    /\ master \in Nat
    /\ rows \in [Studios -> Statuses]
    /\ tomb \in [on : BOOLEAN, rows : [Studios -> Statuses]]
    /\ pass \in {NoPass} \cup Passes
    /\ requests \subseteq Request
    /\ studios \in [Studios -> [registered : BOOLEAN, up : BOOLEAN, copy : Nat]]
    /\ astray \in [late : SUBSET Studios, away : SUBSET Studios, cut : BOOLEAN]

(* The Hub waits only for requests of the pass that holds the lock, for one   *)
(* at each Studio, and a pass that removes sends nothing else.                *)
Expected(r) == r.heard => /\ pass # NoPass /\ r.studio \in pass.of /\ ~r.old
                          /\ pass.kind = "delete" => r.edition = 0
OneEach == \A q, r \in requests : q.heard /\ r.heard /\ q.studio = r.studio => q = r

(* A buried voice has no directory, and while a pass still sends it nothing   *)
(* has been removed, unless the Hub ended between tombstone and directory.    *)
BuriedOnce == tomb.on => master = 0 \/ astray.cut
NothingRemoved == tomb.on /\ pass.kind = "sync" => astray.cut \/ \A s \in Studios : tomb.rows[s] # "deleted"

(* Where a copy was removed, what could bring one back is old.                *)
Removed(s) == tomb.on /\ tomb.rows[s] = "deleted"
Barren(s) == studios[s].copy = 0 /\ \A r \in requests : r.studio = s /\ r.edition # 0 => r.old
StaysGone(s) == Removed(s) => astray.cut \/ s \in astray.late \/ Barren(s)

VoicesInv ==
    /\ VoicesTypeOK
    /\ \A r \in requests : Expected(r)
    /\ OneEach /\ BuriedOnce /\ NothingRemoved
    /\ \A s \in Studios : StaysGone(s)

-----------------------------------------------------------------------------
(* What happens to requests                                                   *)

LEMMA GivenUpLemma ==
    ASSUME NEW set \in SUBSET Request
    PROVE  /\ GivenUp(set) \subseteq Request
           /\ \A q \in GivenUp(set) : /\ ~q.heard
                                      /\ \E r \in set : q.studio = r.studio /\ q.edition = r.edition /\ q.old = r.old
<1> DEFINE Off(r) == [r EXCEPT !.heard = FALSE]
<1>1. \A r \in Request : /\ Off(r) \in Request /\ Off(r).heard = FALSE
                         /\ Off(r).studio = r.studio /\ Off(r).edition = r.edition /\ Off(r).old = r.old
  BY DEF Request
<1>2. GivenUp(set) = {Off(r) : r \in set}
  BY DEF GivenUp
<1> HIDE DEF Off
<1> QED BY <1>1, <1>2

LEMMA GoneLemma ==
    ASSUME requests \subseteq Request, NEW r \in requests
    PROVE  /\ Gone(r) \subseteq Request
           /\ \A q \in Gone(r) :
                 /\ q.heard => q \in requests \ {r}
                 /\ \E p \in requests \ {r} :
                       /\ q.studio = p.studio /\ q.edition = p.edition /\ q.heard = p.heard
                       /\ p.old => q.old
                       /\ p.studio = r.studio /\ ~p.heard => q.old
<1> DEFINE Aged(p) == [p EXCEPT !.old = p.old \/ (p.studio = r.studio /\ ~p.heard)]
<1>1. ASSUME NEW p \in Request
      PROVE  /\ Aged(p) \in Request /\ Aged(p).studio = p.studio /\ Aged(p).edition = p.edition
             /\ Aged(p).heard = p.heard /\ Aged(p).old = (p.old \/ (p.studio = r.studio /\ ~p.heard))
  BY DEF Request
<1>2. ASSUME NEW p \in Request, p.heard PROVE Aged(p) = p
  <2>1. Aged(p) = [p EXCEPT !.old = p.old]
    BY <1>2 DEF Request
  <2> QED BY <2>1 DEF Request
<1>3. Gone(r) = {Aged(p) : p \in requests \ {r}}
  BY DEF Gone
<1> HIDE DEF Aged
<1>4. Gone(r) \subseteq Request
  BY <1>1, <1>3
<1>5. ASSUME NEW q \in Gone(r)
      PROVE  /\ q.heard => q \in requests \ {r}
             /\ \E p \in requests \ {r} :
                   /\ q.studio = p.studio /\ q.edition = p.edition /\ q.heard = p.heard
                   /\ p.old => q.old
                   /\ p.studio = r.studio /\ ~p.heard => q.old
  <2>1. PICK p \in requests \ {r} : q = Aged(p)
    BY <1>3
  <2>2. p \in Request
    OBVIOUS
  <2>3. q.heard => q = p
    BY <2>1, <2>2, <1>1, <1>2
  <2>4. /\ q.studio = p.studio /\ q.edition = p.edition /\ q.heard = p.heard
        /\ p.old => q.old
        /\ p.studio = r.studio /\ ~p.heard => q.old
    BY <2>1, <2>2, <1>1
  <2> QED BY <2>3, <2>4
<1> QED BY <1>4, <1>5

(* The copy of one Studio becomes what a request of it says. *)
LEMMA ServesLemma ==
    ASSUME VoicesTypeOK, NEW r \in requests, Serves(r)
    PROVE  /\ studios' \in [Studios -> [registered : BOOLEAN, up : BOOLEAN, copy : Nat]]
           /\ \A s \in Studios : studios'[s].copy = IF s = r.studio THEN r.edition ELSE studios[s].copy
<1> DEFINE with(s) == [studios[s] EXCEPT !.copy = r.edition]
<1>1. r \in Request /\ r.studio \in Studios /\ r.edition \in Nat
  BY DEF VoicesTypeOK, Request
<1>2. with(r.studio) \in [registered : BOOLEAN, up : BOOLEAN, copy : Nat] /\ with(r.studio).copy = r.edition
  BY <1>1 DEF VoicesTypeOK
<1>3. studios' = [studios EXCEPT ![r.studio] = with(r.studio)]
  BY DEF Serves
<1> HIDE DEF with
<1> QED BY <1>1, <1>2, <1>3 DEF VoicesTypeOK

-----------------------------------------------------------------------------
(* The kinds of steps                                                         *)

VoiceVars == << master, rows, tomb, pass, requests, studios, astray >>

LEMMA StayLemma == VoicesInv /\ UNCHANGED VoiceVars => VoicesInv'
  BY DEF VoicesInv, VoicesTypeOK, Expected, OneEach, BuriedOnce, NothingRemoved, Removed, Barren,
         StaysGone, VoiceVars

(* A voice is made or edited only where none is buried. *)
LEMMA EditionLemma ==
    ASSUME VoicesInv, master' \in Nat, tomb.on => astray.cut,
           UNCHANGED << rows, tomb, pass, requests, studios, astray >>
    PROVE  VoicesInv'
<1>1. VoicesTypeOK' /\ (\A r \in requests' : Expected(r)') /\ OneEach' /\ NothingRemoved'
      /\ \A s \in Studios : StaysGone(s)'
  BY DEF VoicesInv, VoicesTypeOK, Expected, OneEach, NothingRemoved, Removed, Barren, StaysGone
<1>2. BuriedOnce'
  BY DEF BuriedOnce
<1> QED BY <1>1, <1>2 DEF VoicesInv

(* Studios that go, come, join and leave keep their copies. *)
LEMMA StudioLemma ==
    ASSUME VoicesInv, NEW s \in Studios, GoesDown(s) \/ ComesUp(s) \/ Joins(s) \/ Leaves(s)
    PROVE  VoicesInv'
<1> DEFINE Shape == [registered : BOOLEAN, up : BOOLEAN, copy : Nat]
<1>1. UNCHANGED << master, rows, tomb, pass, requests >>
  BY DEF GoesDown, ComesUp, Joins, Leaves
<1>2. /\ studios' \in [Studios -> Shape]
      /\ \A t \in Studios : studios'[t].copy = studios[t].copy
  <2> DEFINE up(b) == [studios[s] EXCEPT !.up = b]
             known(b) == [studios[s] EXCEPT !.registered = b]
  <2>1. \E b \in BOOLEAN : \E x \in {up(b), known(b)} : studios' = [studios EXCEPT ![s] = x]
    BY DEF GoesDown, ComesUp, Joins, Leaves
  <2>2. studios \in [Studios -> Shape]
    BY DEF VoicesInv, VoicesTypeOK
  <2>3. \A b \in BOOLEAN : \A x \in {up(b), known(b)} : x \in Shape /\ x.copy = studios[s].copy
    BY <2>2
  <2> HIDE DEF up, known
  <2>4. PICK b \in BOOLEAN : \E x \in {up(b), known(b)} : studios' = [studios EXCEPT ![s] = x]
    BY <2>1
  <2>5. PICK x \in {up(b), known(b)} : studios' = [studios EXCEPT ![s] = x]
    BY <2>4
  <2>6. x \in Shape /\ x.copy = studios[s].copy
    BY <2>3
  <2> HIDE DEF Shape
  <2>7. studios' \in [Studios -> Shape]
    BY <2>2, <2>5, <2>6
  <2>8. ASSUME NEW t \in Studios PROVE studios'[t].copy = studios[t].copy
    <3>1. CASE t = s
      BY <3>1, <2>2, <2>5, <2>6
    <3>2. CASE t # s
      BY <3>2, <2>2, <2>5
    <3> QED BY <3>1, <3>2
  <2> QED BY <2>7, <2>8
<1>3. /\ astray' \in [late : SUBSET Studios, away : SUBSET Studios, cut : BOOLEAN]
      /\ astray'.late = astray.late /\ astray'.cut = astray.cut
  <2>1. astray' = astray \/ astray' = [astray EXCEPT !.away = astray.away \cup {s}]
    BY DEF GoesDown, ComesUp, Joins, Leaves, Quiet
  <2> QED BY <2>1 DEF VoicesInv, VoicesTypeOK
<1>4. VoicesTypeOK'
  BY <1>1, <1>2, <1>3 DEF VoicesInv, VoicesTypeOK
<1>5. (\A r \in requests' : Expected(r)') /\ OneEach' /\ BuriedOnce' /\ NothingRemoved'
  BY <1>1, <1>3 DEF VoicesInv, Expected, OneEach, BuriedOnce, NothingRemoved
<1>6. \A t \in Studios : StaysGone(t)'
  BY <1>1, <1>2, <1>3 DEF VoicesInv, StaysGone, Removed, Barren
<1> QED BY <1>4, <1>5, <1>6 DEF VoicesInv

-----------------------------------------------------------------------------
(* Deletions and passes that begin                                            *)

LEMMA BuriedLemma ==
    ASSUME VoicesTypeOK
    PROVE  /\ Buried \in [on : BOOLEAN, rows : [Studios -> Statuses]] /\ Buried.on
           /\ tomb.on => Buried = tomb
           /\ ~tomb.on => \A s \in Studios : Buried.rows[s] # "deleted"
  BY DEF Buried, VoicesTypeOK, Statuses

LEMMA NobodyLemma == Nobody \in [Studios -> Statuses]
  BY DEF Nobody, Statuses

(* prepare_delete, whole or cut short: nothing is shown as removed that was   *)
(* not, and who sent the voice is cancelled or will find it gone.             *)
LEMMA BuryLemma ==
    ASSUME VoicesInv, tomb' \in {tomb, Buried}, rows' \in {rows, Nobody},
           master' \in {master, 0}, UNCHANGED studios,
           astray' \in [late : SUBSET Studios, away : SUBSET Studios, cut : BOOLEAN],
           astray'.late = astray.late, astray.cut => astray'.cut,
           tomb'.on => tomb.on \/ master' = 0 \/ astray'.cut,
           \/ UNCHANGED << pass, requests >>
           \/ pass' = NoPass /\ requests' = GivenUp(requests)
    PROVE  VoicesInv'
<1>1. VoicesTypeOK
  BY DEF VoicesInv
<1>2. /\ tomb' \in [on : BOOLEAN, rows : [Studios -> Statuses]]
      /\ \A s \in Studios : Removed(s)' => Removed(s)
  BY <1>1, BuriedLemma DEF VoicesTypeOK, Removed
<1>3. requests' \subseteq Request
  BY <1>1, GivenUpLemma DEF VoicesTypeOK
<1>4. VoicesTypeOK'
  BY <1>1, <1>2, <1>3, NobodyLemma DEF VoicesTypeOK
<1>5. \A q \in requests' : \/ q \in requests /\ UNCHANGED << pass, requests >>
                           \/ /\ ~q.heard
                              /\ \E r \in requests : q.studio = r.studio /\ q.edition = r.edition /\ q.old = r.old
  BY <1>1, GivenUpLemma DEF VoicesTypeOK
<1>6. (\A r \in requests' : Expected(r)') /\ OneEach'
  <2>1. (\A r \in requests : Expected(r)) /\ OneEach
    BY DEF VoicesInv
  <2> QED BY <2>1, <1>5 DEF Expected, OneEach
<1>7. BuriedOnce'
  BY DEF VoicesInv, BuriedOnce
<1>8. NothingRemoved'
  <2>1. NothingRemoved
    BY DEF VoicesInv
  <2>2. SUFFICES ASSUME tomb'.on, pass'.kind = "sync", ~astray'.cut, NEW s \in Studios,
                        tomb'.rows[s] = "deleted"
                 PROVE  FALSE
    BY DEF NothingRemoved
  <2>3. tomb.on /\ tomb.rows[s] = "deleted"
    BY <2>2, <1>2 DEF Removed
  <2>4. pass' = pass
    BY <2>2 DEF NoPass
  <2> QED BY <2>1, <2>2, <2>3, <2>4 DEF NothingRemoved
<1>9. ASSUME NEW s \in Studios PROVE StaysGone(s)'
  <2>1. Barren(s) => Barren(s)'
    BY <1>5 DEF Barren
  <2> QED BY <1>2, <2>1 DEF VoicesInv, StaysGone
<1> QED BY <1>4, <1>6, <1>7, <1>8, <1>9 DEF VoicesInv

LEMMA SentLemma ==
    ASSUME VoicesTypeOK, NEW kind \in {"sync", "delete"}, NEW of \in SUBSET Studios
    PROVE  /\ Sent(kind, of) \in [Studios -> Statuses]
           /\ \A s \in Studios : kind = "delete" /\ Sent(kind, of)[s] = "deleted" => Removed(s)
<1>1. Buried.rows \in [Studios -> Statuses] /\ rows \in [Studios -> Statuses]
  BY BuriedLemma DEF VoicesTypeOK
<1>2. ASSUME NEW s \in Studios
      PROVE  /\ Sent(kind, of)[s] \in Statuses
             /\ kind = "delete" /\ Sent(kind, of)[s] = "deleted" => Buried.rows[s] = "deleted"
  BY <1>1 DEF Sent, Statuses
<1>3. \A s \in Studios : Buried.rows[s] = "deleted" => Removed(s)
  BY BuriedLemma DEF Removed
<1>4. Sent(kind, of) = [s \in Studios |-> Sent(kind, of)[s]]
  BY DEF Sent
<1> QED BY <1>2, <1>3, <1>4

(* What a pass sends when it begins: nobody else is waited for.               *)
LEMMA BeginsLemma ==
    ASSUME VoicesInv, Free, NEW kind \in {"sync", "delete"}, NEW owner \in {"task", "round"},
           NEW of \in SUBSET Studios, Begins(kind, owner, of)
    PROVE  /\ pass' \in Passes /\ pass'.kind = kind
           /\ requests' \subseteq Request
           /\ \A r \in requests' : Expected(r)'
           /\ OneEach'
           /\ \A r \in requests' : r \in requests \/ (kind = "delete" => r.edition = 0)
<1> DEFINE up == {s \in of : IsUp(s)}
           sent == IF kind = "sync" THEN master ELSE 0
           new(s) == [studio |-> s, edition |-> sent, heard |-> TRUE, old |-> FALSE]
<1>1. requests' = requests \cup {new(s) : s \in up}
  BY DEF Begins
<1>2. pass' = [kind |-> kind, owner |-> owner, of |-> up] /\ up \subseteq Studios
  BY DEF Begins
<1>3. pass' \in Passes /\ pass'.kind = kind /\ pass'.of = up /\ pass' # NoPass
  BY <1>2 DEF Passes, NoPass
<1>4. sent \in Nat /\ (kind = "delete" => sent = 0)
  BY DEF VoicesInv, VoicesTypeOK
<1>5. \A s \in up : /\ new(s) \in Request /\ new(s).studio = s /\ new(s).edition = sent
                    /\ new(s).heard /\ ~new(s).old
  BY <1>2, <1>4 DEF Request
<1>6. \A r \in requests : ~r.heard /\ r \in Request
  BY DEF VoicesInv, VoicesTypeOK, Expected, Free
<1> HIDE DEF new, sent, up
<1>7. requests' \subseteq Request
  BY <1>1, <1>5, <1>6
<1>8. \A r \in requests' : Expected(r)'
  BY <1>1, <1>3, <1>4, <1>5, <1>6 DEF Expected
<1>9. OneEach'
  BY <1>1, <1>5, <1>6 DEF OneEach
<1> QED BY <1>1, <1>3, <1>4, <1>5, <1>7, <1>8, <1>9

LEMMA SyncStartsLemma ==
    ASSUME VoicesInv, NEW owner \in {"task", "round"}, NEW of \in SUBSET Studios, SyncStarts(owner, of)
    PROVE  VoicesInv'
<1>1. Free /\ Begins("sync", owner, of) /\ rows' = Sent("sync", of) /\ master # 0
      /\ UNCHANGED << master, tomb, studios, astray >>
  BY DEF SyncStarts, Quiet
<1>2. VoicesTypeOK
  BY DEF VoicesInv
<1>3. rows' \in [Studios -> Statuses]
  BY <1>1, <1>2, SentLemma
<1>4. /\ pass' \in Passes /\ requests' \subseteq Request
      /\ (\A r \in requests' : Expected(r)') /\ OneEach'
  BY <1>1, BeginsLemma
<1>5. VoicesTypeOK'
  BY <1>1, <1>2, <1>3, <1>4 DEF VoicesTypeOK
<1>6. tomb.on => astray.cut
  BY <1>1 DEF VoicesInv, BuriedOnce
<1>7. BuriedOnce' /\ NothingRemoved' /\ \A s \in Studios : StaysGone(s)'
  BY <1>1, <1>6 DEF BuriedOnce, NothingRemoved, StaysGone, Removed
<1> QED BY <1>4, <1>5, <1>7 DEF VoicesInv

LEMMA DeleteStartsLemma ==
    ASSUME VoicesInv, NEW owner \in {"task", "round"}, NEW of \in SUBSET Studios, DeleteStarts(owner, of)
    PROVE  VoicesInv'
<1>1. Free /\ Begins("delete", owner, of) /\ tomb' = [on |-> TRUE, rows |-> Sent("delete", of)]
      /\ UNCHANGED << studios, astray >>
      /\ master' = (IF tomb.on THEN master ELSE 0) /\ rows' \in {rows, Nobody}
  BY DEF DeleteStarts, Quiet
<1>2. VoicesTypeOK
  BY DEF VoicesInv
<1>3. /\ Sent("delete", of) \in [Studios -> Statuses]
      /\ \A s \in Studios : Sent("delete", of)[s] = "deleted" => Removed(s)
  BY <1>2, SentLemma
<1>4. /\ pass' \in Passes /\ pass'.kind = "delete" /\ requests' \subseteq Request
      /\ (\A r \in requests' : Expected(r)') /\ OneEach'
      /\ \A r \in requests' : r \in requests \/ r.edition = 0
  BY <1>1, BeginsLemma
<1>5. VoicesTypeOK'
  BY <1>1, <1>2, <1>3, <1>4, NobodyLemma DEF VoicesTypeOK
<1>6. BuriedOnce' /\ NothingRemoved'
  BY <1>1, <1>4 DEF VoicesInv, BuriedOnce, NothingRemoved
<1>7. ASSUME NEW s \in Studios PROVE StaysGone(s)'
  <2>1. Removed(s)' => Removed(s)
    BY <1>1, <1>3 DEF Removed
  <2>2. Barren(s) => Barren(s)'
    BY <1>1, <1>4 DEF Barren
  <2> QED BY <1>1, <2>1, <2>2 DEF VoicesInv, StaysGone
<1> QED BY <1>4, <1>5, <1>6, <1>7 DEF VoicesInv

-----------------------------------------------------------------------------
(* Answers, and what is served late                                           *)

(* A Studio serves a request: what was given up before is old from then on,   *)
(* and where nothing grows nothing grows again, but for an old request.       *)
LEMMA FruitlessLemma ==
    ASSUME VoicesInv, NEW r \in requests, Serves(r), NEW s \in Studios, Barren(s),
           s # r.studio \/ r.edition = 0,
           \A q \in requests' : \E p \in Gone(r) : q.studio = p.studio /\ q.edition = p.edition /\ q.old = p.old
    PROVE  Barren(s)'
<1>1. requests \subseteq Request /\ VoicesTypeOK
  BY DEF VoicesInv, VoicesTypeOK
<1>2. studios'[s].copy = 0
  BY <1>1, ServesLemma DEF Barren
<1>3. ASSUME NEW q \in requests', q.studio = s, q.edition # 0 PROVE q.old
  <2>1. PICK p \in Gone(r) : q.studio = p.studio /\ q.edition = p.edition /\ q.old = p.old
    OBVIOUS
  <2>2. \E o \in requests : p.studio = o.studio /\ p.edition = o.edition /\ (o.old => p.old)
    BY <1>1, GoneLemma
  <2> QED BY <1>3, <2>1, <2>2 DEF Barren
<1> QED BY <1>2, <1>3 DEF Barren

LEMMA AnswerLemma ==
    ASSUME VoicesTypeOK, NEW s \in Studios, NEW status \in Statuses, Answer(s, status)
    PROVE  /\ rows' \in [Studios -> Statuses] /\ tomb' \in [on : BOOLEAN, rows : [Studios -> Statuses]]
           /\ tomb'.on = tomb.on
           /\ pass.kind = "sync" => tomb' = tomb
           /\ \A t \in Studios : t # s => tomb'.rows[t] = tomb.rows[t]
           /\ pass.kind # "sync" => tomb'.rows[s] = status
<1>1. CASE pass.kind = "sync"
  BY <1>1 DEF Answer, VoicesTypeOK
<1>2. CASE pass.kind # "sync"
  <2>1. tomb' = [tomb EXCEPT !.rows = [tomb.rows EXCEPT ![s] = status]] /\ rows' = rows
    BY <1>2 DEF Answer
  <2>2. tomb.rows \in [Studios -> Statuses]
    BY DEF VoicesTypeOK
  <2>3. [tomb.rows EXCEPT ![s] = status] \in [Studios -> Statuses]
    BY <2>2
  <2> QED BY <1>2, <2>1, <2>2, <2>3 DEF VoicesTypeOK
<1> QED BY <1>1, <1>2

(* A pass that goes on without the Studio s.                                  *)
LEMMA GoesOnLemma ==
    ASSUME VoicesTypeOK, ~Free, NEW s, pass' = [pass EXCEPT !.of = @ \ {s}]
    PROVE  /\ pass' \in Passes /\ pass' # NoPass /\ pass'.kind = pass.kind /\ pass'.of = pass.of \ {s}
           /\ pass.kind \in {"sync", "delete"}
<1>1. pass \in Passes
  BY DEF Free, VoicesTypeOK
<1>2. pass' \in Passes /\ pass'.kind = pass.kind /\ pass'.of = pass.of \ {s}
  BY <1>1 DEF Passes
<1>3. pass' # NoPass
  BY <1>2 DEF Passes, NoPass
<1> QED BY <1>1, <1>2, <1>3 DEF Passes

LEMMA AnsweredLemma ==
    ASSUME VoicesInv, NEW s \in Studios, Answered(s)
    PROVE  VoicesInv'
<1>1. ~Free /\ Waits(s) /\ Answer(s, Verdict) /\ pass' = [pass EXCEPT !.of = @ \ {s}]
      /\ UNCHANGED << master, astray >>
  BY DEF Answered, Quiet
<1>2. PICK r \in Heard(s) : Serves(r) /\ requests' = Gone(r)
  BY DEF Answered
<1>3. r \in requests /\ r.studio = s /\ r.heard
  BY DEF Heard
<1>4. VoicesTypeOK /\ requests \subseteq Request /\ (\A q \in requests : Expected(q)) /\ OneEach
  BY DEF VoicesInv, VoicesTypeOK
<1>5. /\ pass' \in Passes /\ pass' # NoPass /\ pass'.kind = pass.kind /\ pass'.of = pass.of \ {s}
      /\ pass.kind \in {"sync", "delete"}
  BY <1>1, <1>4, GoesOnLemma
<1>6. Verdict \in Statuses
  BY DEF Verdict, Statuses
<1>7. /\ rows' \in [Studios -> Statuses] /\ tomb' \in [on : BOOLEAN, rows : [Studios -> Statuses]]
      /\ tomb'.on = tomb.on
      /\ pass.kind = "sync" => tomb' = tomb
      /\ \A t \in Studios : t # s => tomb'.rows[t] = tomb.rows[t]
  BY <1>1, <1>4, <1>6, AnswerLemma
<1>8. /\ requests' \subseteq Request
      /\ \A q \in requests' : q.heard => q \in requests \ {r}
  BY <1>2, <1>3, <1>4, GoneLemma
<1>9. VoicesTypeOK'
  BY <1>1, <1>2, <1>3, <1>4, <1>5, <1>7, <1>8, ServesLemma DEF VoicesTypeOK
<1>10. \A q \in requests' : q.heard => q.studio # s
  BY <1>3, <1>4, <1>8 DEF OneEach
<1>11. (\A q \in requests' : Expected(q)') /\ OneEach'
  BY <1>4, <1>5, <1>8, <1>10 DEF Expected, OneEach
<1>12. BuriedOnce' /\ NothingRemoved'
  BY <1>1, <1>5, <1>7 DEF VoicesInv, BuriedOnce, NothingRemoved
<1>13. ASSUME NEW t \in Studios PROVE StaysGone(t)'
  <2>1. CASE pass.kind = "sync"
    <3>1. Removed(t)' => astray'.cut
      BY <1>1, <1>7, <2>1 DEF VoicesInv, NothingRemoved, Removed
    <3> QED BY <3>1 DEF StaysGone
  <2>2. CASE pass.kind = "delete" /\ t # s
    <3>1. Removed(t)' => Removed(t)
      BY <1>7, <2>2 DEF Removed
    <3>2. Barren(t) => Barren(t)'
      BY <1>2, <1>3, <2>2, FruitlessLemma
    <3> QED BY <1>1, <3>1, <3>2 DEF VoicesInv, StaysGone
  <2>3. CASE pass.kind = "delete" /\ t = s
    <3>1. r.edition = 0
      BY <1>3, <1>4, <2>3 DEF Expected
    <3>2. studios'[s].copy = 0
      BY <1>2, <1>3, <1>4, <3>1, ServesLemma
    <3>3. ASSUME NEW q \in requests', q.studio = s PROVE q.old
      <4>1. PICK p \in requests \ {r} :
                /\ q.studio = p.studio /\ q.heard = p.heard
                /\ p.studio = r.studio /\ ~p.heard => q.old
        BY <1>2, <1>3, <1>4, GoneLemma
      <4> QED BY <1>3, <1>10, <3>3, <4>1
    <3> QED BY <2>3, <3>2, <3>3 DEF StaysGone, Barren
  <2> QED BY <1>5, <2>1, <2>2, <2>3
<1> QED BY <1>9, <1>11, <1>12, <1>13 DEF VoicesInv

LEMMA NoAnswerLemma ==
    ASSUME VoicesInv, NEW s \in Studios, Unanswered(s) \/ RefusedBy(s)
    PROVE  VoicesInv'
<1> DEFINE mute(r) == IF r \in Heard(s) THEN [r EXCEPT !.heard = FALSE] ELSE r
<1>1. ~Free /\ pass' = [pass EXCEPT !.of = @ \ {s}] /\ UNCHANGED << master, studios, astray >>
      /\ (Answer(s, "pending") \/ Answer(s, "failed"))
  BY DEF Unanswered, RefusedBy
<1>2. requests' = {mute(r) : r \in requests} \/ requests' = requests \ Heard(s)
  BY DEF Unanswered, RefusedBy
<1>3. VoicesTypeOK /\ requests \subseteq Request /\ (\A q \in requests : Expected(q)) /\ OneEach
  BY DEF VoicesInv, VoicesTypeOK
<1>4. /\ pass' \in Passes /\ pass' # NoPass /\ pass'.kind = pass.kind /\ pass'.of = pass.of \ {s}
      /\ pass.kind \in {"sync", "delete"}
  BY <1>1, <1>3, GoesOnLemma
<1>5. /\ rows' \in [Studios -> Statuses] /\ tomb' \in [on : BOOLEAN, rows : [Studios -> Statuses]]
      /\ \A t \in Studios : Removed(t)' => Removed(t)
  BY <1>1, <1>3, <1>4, AnswerLemma DEF Statuses, Removed
<1>6. tomb'.on = tomb.on
  BY <1>1, <1>3, AnswerLemma DEF Statuses
<1>7. ASSUME NEW r \in requests
      PROVE  /\ mute(r) \in Request /\ mute(r).studio = r.studio /\ mute(r).edition = r.edition
             /\ mute(r).old = r.old
             /\ mute(r).heard => mute(r) = r /\ r.studio # s
  BY <1>3 DEF Request, Heard
<1> HIDE DEF mute
<1>8. \A q \in requests \ Heard(s) : ~q.heard \/ q.studio # s
  BY DEF Heard
<1>9. ASSUME NEW q \in requests'
      PROVE  /\ q \in Request
             /\ q.heard => q \in requests /\ q.studio # s
             /\ \E r \in requests : q.studio = r.studio /\ q.edition = r.edition /\ q.old = r.old
  <2>1. CASE requests' = {mute(r) : r \in requests}
    BY <1>7, <2>1
  <2>2. CASE requests' = requests \ Heard(s)
    BY <1>3, <1>8, <2>2
  <2> QED BY <1>2, <2>1, <2>2
<1>10. VoicesTypeOK'
  BY <1>1, <1>3, <1>4, <1>5, <1>9 DEF VoicesTypeOK
<1>11. (\A q \in requests' : Expected(q)') /\ OneEach'
  BY <1>3, <1>4, <1>9 DEF Expected, OneEach
<1>12. BuriedOnce' /\ NothingRemoved'
  BY <1>1, <1>4, <1>5, <1>6 DEF VoicesInv, BuriedOnce, NothingRemoved, Removed
<1>13. ASSUME NEW t \in Studios PROVE StaysGone(t)'
  <2>1. Barren(t) => Barren(t)'
    BY <1>1, <1>9 DEF Barren
  <2> QED BY <1>1, <1>5, <2>1 DEF VoicesInv, StaysGone
<1> QED BY <1>10, <1>11, <1>12, <1>13 DEF VoicesInv

LEMMA AbortsLemma ==
    ASSUME VoicesInv, NEW s \in Studios, Aborts(s)
    PROVE  VoicesInv'
<1>1. pass.kind = "sync" /\ pass' = NoPass /\ UNCHANGED << master, rows, tomb, astray >>
  BY DEF Aborts, Quiet
<1>2. PICK r \in Heard(s) : Serves(r) /\ requests' = GivenUp(Gone(r))
  BY DEF Aborts
<1>3. r \in requests /\ VoicesTypeOK /\ requests \subseteq Request
  BY DEF Heard, VoicesInv, VoicesTypeOK
<1>4. Gone(r) \subseteq Request
  BY <1>3, GoneLemma
<1>5. requests' \subseteq Request /\ \A q \in requests' : ~q.heard
  BY <1>2, <1>4, GivenUpLemma
<1>6. VoicesTypeOK'
  BY <1>1, <1>2, <1>3, <1>5, ServesLemma DEF VoicesTypeOK
<1>7. (\A q \in requests' : Expected(q)') /\ OneEach' /\ BuriedOnce'
  BY <1>1, <1>5 DEF VoicesInv, Expected, OneEach, BuriedOnce
<1>8. NothingRemoved'
  BY <1>1 DEF NothingRemoved, NoPass
<1>9. \A t \in Studios : StaysGone(t)'
  BY <1>1 DEF VoicesInv, NothingRemoved, StaysGone, Removed
<1> QED BY <1>6, <1>7, <1>8, <1>9 DEF VoicesInv

(* What is served late comes from an old request, or is no copy, wherever one *)
(* was removed.                                                               *)
LEMMA ServedLateLemma ==
    ASSUME VoicesInv, NEW r \in requests, ServedLate(r)
    PROVE  VoicesInv'
<1>1. ~r.heard /\ Serves(r) /\ requests' = Gone(r) /\ UNCHANGED << master, rows, tomb, pass >>
      /\ astray' = (IF r.old THEN [astray EXCEPT !.late = @ \cup {r.studio}] ELSE astray)
  BY DEF ServedLate
<1>2. VoicesTypeOK /\ requests \subseteq Request /\ r \in Request /\ (\A q \in requests : Expected(q)) /\ OneEach
  BY DEF VoicesInv, VoicesTypeOK
<1>3. /\ astray' \in [late : SUBSET Studios, away : SUBSET Studios, cut : BOOLEAN]
      /\ astray'.cut = astray.cut /\ astray.late \subseteq astray'.late
      /\ r.old => r.studio \in astray'.late
  BY <1>1, <1>2 DEF VoicesTypeOK, Request
<1>4. /\ requests' \subseteq Request
      /\ \A q \in requests' : q.heard => q \in requests
  BY <1>1, <1>2, GoneLemma
<1>5. VoicesTypeOK'
  BY <1>1, <1>2, <1>3, <1>4, ServesLemma DEF VoicesTypeOK
<1>6. (\A q \in requests' : Expected(q)') /\ OneEach' /\ BuriedOnce' /\ NothingRemoved'
  BY <1>1, <1>2, <1>3, <1>4 DEF VoicesInv, Expected, OneEach, BuriedOnce, NothingRemoved
<1>7. ASSUME NEW t \in Studios PROVE StaysGone(t)'
  <2>1. Removed(t)' => Removed(t)
    BY <1>1 DEF Removed
  <2>2. Barren(t) => Barren(t)' \/ t \in astray'.late
    <3>1. CASE t = r.studio /\ r.edition # 0
      BY <1>3, <3>1 DEF Barren
    <3>2. CASE t # r.studio \/ r.edition = 0
      BY <1>1, <3>2, FruitlessLemma
    <3> QED BY <3>1, <3>2
  <2> QED BY <1>3, <2>1, <2>2 DEF VoicesInv, StaysGone
<1> QED BY <1>5, <1>6, <1>7 DEF VoicesInv

(* Requests that are dropped, and passes that end.                            *)
LEMMA DroppedLemma ==
    ASSUME VoicesInv, UNCHANGED << master, rows, tomb, studios, astray >>,
           \/ requests' = requests /\ pass' = NoPass /\ pass.of = {} /\ ~Free
           \/ UNCHANGED pass /\ \E r \in requests : ~r.heard /\ requests' = requests \ {r}
    PROVE  VoicesInv'
<1>1. requests' \subseteq requests /\ pass' \in {pass, NoPass}
  OBVIOUS
<1>2. VoicesTypeOK' /\ OneEach' /\ BuriedOnce' /\ NothingRemoved' /\ \A s \in Studios : StaysGone(s)'
  BY <1>1 DEF VoicesInv, VoicesTypeOK, OneEach, BuriedOnce, NothingRemoved, StaysGone, Removed, Barren, NoPass
<1>3. \A r \in requests' : Expected(r)'
  BY <1>1 DEF VoicesInv, Expected
<1> QED BY <1>2, <1>3 DEF VoicesInv

-----------------------------------------------------------------------------
(* The theorem                                                                *)

LEMMA VoicesInit == Init => VoicesInv
<1> SUFFICES ASSUME Init PROVE VoicesInv
  OBVIOUS
<1>1. /\ master = 0 /\ rows = Nobody /\ tomb = [on |-> FALSE, rows |-> Nobody] /\ pass = NoPass /\ requests = {}
      /\ studios \in [Studios -> [registered : BOOLEAN, up : {TRUE}, copy : {0}]]
      /\ astray = [late |-> {}, away |-> {}, cut |-> FALSE]
  BY DEF Init
<1>2. studios \in [Studios -> [registered : BOOLEAN, up : BOOLEAN, copy : Nat]]
  <2> DEFINE First == [registered : BOOLEAN, up : {TRUE}, copy : {0}]
             Shape == [registered : BOOLEAN, up : BOOLEAN, copy : Nat]
  <2>1. ASSUME NEW x \in First PROVE x \in Shape
    <3>1. x = [registered |-> x.registered, up |-> x.up, copy |-> x.copy]
      OBVIOUS
    <3>2. x.registered \in BOOLEAN /\ x.up \in {TRUE} /\ x.copy \in {0}
      OBVIOUS
    <3>3. x.up \in BOOLEAN
      BY <3>2, Zenon
    <3>4. x.copy \in Nat
      BY <3>2
    <3> QED BY <3>1, <3>2, <3>3, <3>4
  <2>2. studios \in [Studios -> First]
    BY <1>1
  <2> HIDE DEF First, Shape
  <2>3. studios \in [Studios -> Shape]
    BY <2>1, <2>2
  <2> QED BY <2>3 DEF Shape
<1>3. VoicesTypeOK
  BY <1>1, <1>2, NobodyLemma DEF VoicesTypeOK
<1> QED BY <1>1, <1>3 DEF VoicesInv, OneEach, BuriedOnce, NothingRemoved, StaysGone, Removed

LEMMA AskedLemma == VoicesInv /\ Asked => VoicesInv'
<1> SUFFICES ASSUME VoicesInv, Asked PROVE VoicesInv'
  OBVIOUS
<1>1. VoicesTypeOK
  BY DEF VoicesInv
<1>2. CASE Create
  BY <1>1, <1>2, EditionLemma DEF Create, Quiet
<1>3. CASE Edit
  <2>1. master # 0 /\ master' = master + 1 /\ UNCHANGED << rows, tomb, pass, requests, studios, astray >>
    BY <1>3 DEF Edit, Quiet
  <2>2. tomb.on => astray.cut
    BY <2>1 DEF VoicesInv, BuriedOnce
  <2> QED BY <1>1, <2>1, <2>2, EditionLemma DEF VoicesTypeOK
<1>4. CASE AskSync \/ AskDelete
  BY <1>4, StayLemma DEF AskSync, AskDelete, Quiet, VoiceVars
<1>5. CASE Delete
  <2>1. /\ tomb' = Buried /\ master' = 0 /\ rows' = Nobody /\ UNCHANGED << studios, astray >>
        /\ \/ UNCHANGED << pass, requests >>
           \/ pass' = NoPass /\ requests' = GivenUp(requests)
    BY <1>5 DEF Delete, PrepareDelete, Quiet
  <2> QED BY <1>1, <2>1, BuryLemma DEF VoicesTypeOK
<1> QED BY <1>2, <1>3, <1>4, <1>5 DEF Asked

LEMMA PassLemma == VoicesInv /\ Pass => VoicesInv'
<1> SUFFICES ASSUME VoicesInv, Pass PROVE VoicesInv'
  OBVIOUS
<1>1. Targets \subseteq Studios /\ tasks.round.of \cap Targets \subseteq Studios
  BY DEF Targets
<1>2. CASE TaskSyncs
  BY <1>1, <1>2, SyncStartsLemma DEF TaskSyncs
<1>3. CASE TaskDeletes
  BY <1>1, <1>3, DeleteStartsLemma DEF TaskDeletes
<1>4. CASE RoundSyncs
  BY <1>1, <1>4, SyncStartsLemma DEF RoundSyncs
<1>5. CASE RoundDeletes
  BY <1>1, <1>5, DeleteStartsLemma DEF RoundDeletes
<1>6. CASE RoundFindsNothing
  BY <1>6, StayLemma DEF RoundFindsNothing, Quiet, VoiceVars
<1> QED BY <1>2, <1>3, <1>4, <1>5, <1>6 DEF Pass

LEMMA RestartLemma == VoicesInv /\ (HubRestarts \/ DeleteCut) => VoicesInv'
<1> SUFFICES ASSUME VoicesInv, HubRestarts \/ DeleteCut PROVE VoicesInv'
  OBVIOUS
<1>1. PICK cut \in BOOLEAN : Forgets(cut) /\ (tomb' = tomb \/ (tomb' = Buried /\ cut))
  BY DEF HubRestarts, DeleteCut
<1>2. /\ pass' = NoPass /\ requests' = GivenUp(requests) /\ UNCHANGED << master, rows, studios >>
      /\ astray' = [astray EXCEPT !.cut = @ \/ cut]
  BY <1>1 DEF Forgets
<1>3. astray \in [late : SUBSET Studios, away : SUBSET Studios, cut : BOOLEAN]
  BY DEF VoicesInv, VoicesTypeOK
<1>4. /\ astray' \in [late : SUBSET Studios, away : SUBSET Studios, cut : BOOLEAN]
      /\ astray'.late = astray.late /\ astray'.cut = (astray.cut \/ cut)
  BY <1>2, <1>3
<1> QED BY <1>1, <1>2, <1>4, BuryLemma

LEMMA VoicesStep == VoicesInv /\ [Next]_vars => VoicesInv'
<1> SUFFICES ASSUME VoicesInv, [Next]_vars PROVE VoicesInv'
  OBVIOUS
<1>1. CASE Asked
  BY <1>1, AskedLemma
<1>2. CASE Pass
  BY <1>2, PassLemma
<1>3. CASE \E due \in BOOLEAN : Reconcile(due)
  BY <1>3, StayLemma DEF Reconcile, Quiet, VoiceVars
<1>4. CASE \E due \in BOOLEAN : PassEnds(due)
  BY <1>4, DroppedLemma DEF PassEnds, Quiet
<1>5. ASSUME NEW s \in Studios, Answered(s) \/ Unanswered(s) \/ RefusedBy(s) \/ Aborts(s) PROVE VoicesInv'
  BY <1>5, AnsweredLemma, NoAnswerLemma, AbortsLemma
<1>6. ASSUME NEW s \in Studios, GoesDown(s) \/ ComesUp(s) \/ Joins(s) \/ Leaves(s) PROVE VoicesInv'
  BY <1>6, StudioLemma
<1>7. ASSUME NEW r \in requests, ServedLate(r) PROVE VoicesInv'
  BY <1>7, ServedLateLemma
<1>8. ASSUME NEW r \in requests, NeverServed(r) PROVE VoicesInv'
  BY <1>8, DroppedLemma DEF NeverServed, Quiet
<1>9. CASE HubRestarts \/ DeleteCut
  BY <1>9, RestartLemma
<1>10. CASE UNCHANGED vars
  BY <1>10, StayLemma DEF vars, VoiceVars
<1> QED BY <1>1, <1>2, <1>3, <1>4, <1>5, <1>6, <1>7, <1>8, <1>9, <1>10 DEF Next

(* A Studio whose row in the tombstone says that the copy was removed has     *)
(* none: no pass, retry or restart of the Hub brings it back, however many    *)
(* Studios, edits and lost requests there are (shared_voices.py).             *)
THEOREM RemovedForGood == Spec => []DeletedIsGone
<1>1. VoicesInv => DeletedIsGone
  BY DEF VoicesInv, DeletedIsGone, StaysGone, Removed, Barren
<1> QED BY <1>1, VoicesInit, VoicesStep, PTL DEF Spec
=============================================================================
