--------------------------- MODULE GenStudioFence ---------------------------
(***************************************************************************)
(* GenStudio's execution assignments (app/backend/execution_identity.py)   *)
(* and the batch they create or replay (broker._submit_batch_locked,       *)
(* broker.renew_execution_lease).  GenStudio issues increasing fencing     *)
(* tokens, idempotency keys and renewable leases; the Hub keeps three      *)
(* SQLite tables and one batch per assignment.                             *)
(*                                                                         *)
(* prepare and renew_lease are one transaction each (BEGIN IMMEDIATE); a   *)
(* refusal raises inside it, rolls it back and changes nothing, so it is   *)
(* no step.  A submission then looks up or saves its batch, and binds it,  *)
(* in separate commits; the submission lock serialises submissions, not    *)
(* renewals.  Every batch change here is saved at once: a crash loses the  *)
(* requests under way and nothing else.                                    *)
(***************************************************************************)
EXTENDS Naturals, FiniteSets

CONSTANTS
    Jobs, Attempts, Keys,   \* genstudio_job_id, genstudio_attempt_id, idempotency_hash
    Payloads,               \* payload_hash
    LocalBatches,           \* batch ids
    MaxToken,               \* bound of the model: tokens GenStudio issues
    Horizon,                \* bound of the model: the last instant
    MaxRenewals,            \* bound of the model: renewals under way at once
    NoJob, NoAttempt, NoKey, NoPayload, NoBatch

ASSUME DistinctAssumption ==
    /\ NoJob \notin Jobs /\ NoAttempt \notin Attempts /\ NoKey \notin Keys
    /\ NoPayload \notin Payloads /\ NoBatch \notin LocalBatches
ASSUME BoundAssumption == MaxToken \in Nat /\ Horizon \in Nat /\ MaxRenewals \in Nat

VARIABLES
    now,        \* time.time()
    fence,      \* genstudio_fences, by job
    attempt,    \* genstudio_attempt_fences, by attempt
    key,        \* genstudio_idempotency, by job and key
    batch,      \* the local batches
    submission, \* the submission holding _submit_lock
    renewals    \* renewals validated but not yet applied to their batch

vars == << now, fence, attempt, key, batch, submission, renewals >>

-----------------------------------------------------------------------------
(* Token 0 is an absent row; lease 0 is NULL, no lease. *)
Request == [ job: Jobs, attempt: Attempts, key: Keys, payload: Payloads,
             token: 1..MaxToken, lease: 0..(Horizon + 1) ]
FenceRow == [ token: Nat, attempt: Attempts \cup {NoAttempt},
              key: Keys \cup {NoKey}, payload: Payloads \cup {NoPayload} ]
AttemptRow == [ token: Nat, job: Jobs \cup {NoJob}, key: Keys \cup {NoKey},
                payload: Payloads \cup {NoPayload}, lease: Nat ]
KeyRow == [ attempt: Attempts \cup {NoAttempt}, payload: Payloads \cup {NoPayload},
            batch: LocalBatches \cup {NoBatch} ]

(* A batch remembers its clientRequestId, derived from job, attempt and key, *)
(* the fingerprint of its envelope, and the evidence token and lease.        *)
Batch == [ state: {"none", "active", "ended", "cleared"},
           job: Jobs \cup {NoJob}, attempt: Attempts \cup {NoAttempt},
           key: Keys \cup {NoKey}, payload: Payloads \cup {NoPayload},
           printed: Nat,            \* the lease inside request_fingerprint
           token: Nat, lease: Nat ]

NoFence == [ token |-> 0, attempt |-> NoAttempt, key |-> NoKey, payload |-> NoPayload ]
NoAttemptRow == [ token |-> 0, job |-> NoJob, key |-> NoKey, payload |-> NoPayload,
                  lease |-> 0 ]
NoKeyRow == [ attempt |-> NoAttempt, payload |-> NoPayload, batch |-> NoBatch ]
EmptyBatch == [ state |-> "none", job |-> NoJob, attempt |-> NoAttempt, key |-> NoKey,
                payload |-> NoPayload, printed |-> 0, token |-> 0, lease |-> 0 ]

Submission == [ step: {"prepared", "registered"}, request: Request,
                batch: LocalBatches \cup {NoBatch} ]
Renewal == [ attempt: Attempts, lease: Nat, batch: LocalBatches \cup {NoBatch} ]

TypeOK ==
    /\ now \in Nat
    /\ fence \in [Jobs -> FenceRow]
    /\ attempt \in [Attempts -> AttemptRow]
    /\ key \in [Jobs -> [Keys -> KeyRow]]
    /\ batch \in [LocalBatches -> Batch]
    /\ submission \subseteq Submission
    /\ renewals \subseteq Renewal

Lapsed(lease) == lease # 0 /\ lease <= now     \* lease_expired

Init ==
    /\ now = 0
    /\ fence = [j \in Jobs |-> NoFence]
    /\ attempt = [a \in Attempts |-> NoAttemptRow]
    /\ key = [j \in Jobs |-> [k \in Keys |-> NoKeyRow]]
    /\ batch = [b \in LocalBatches |-> EmptyBatch]
    /\ submission = {} /\ renewals = {}

-----------------------------------------------------------------------------
(* execution_identity.prepare.                                              *)

(* Mutant of FenceAdmits: a stale token is not refused. *)
FenceAdmitsStale(r) ==
    r.token = fence[r.job].token => r.attempt = fence[r.job].attempt
FenceAdmits(r) ==
    LET f == fence[r.job] IN
    \/ r.token > f.token
    \/ f = [ token |-> r.token, attempt |-> r.attempt, key |-> r.key,
             payload |-> r.payload ]
(* Mutant of AttemptAdmits: an attempt may move to another assignment. *)
AttemptAdmitsOther(r) ==
    LET a == attempt[r.attempt] IN
    a.token = 0 \/ (r.token >= a.token /\ ~Lapsed(a.lease))
AttemptAdmits(r) ==
    LET a == attempt[r.attempt] IN
    \/ a.token = 0
    \/ /\ r.token >= a.token
       /\ a.job = r.job /\ a.key = r.key /\ a.payload = r.payload
       /\ ~Lapsed(a.lease)
KeyAdmits(r) ==
    LET k == key[r.job][r.key] IN
    \/ k.attempt = NoAttempt
    \/ k.attempt = r.attempt /\ k.payload = r.payload

(* The rows after an admitted request: a greater token replaces the job's   *)
(* fence; in the row of a known attempt it replaces token and lease (a NULL *)
(* lease too), the same token only the lease it carries.                    *)
PreparedFence(r) ==
    IF r.token > fence[r.job].token
    THEN [ token |-> r.token, attempt |-> r.attempt, key |-> r.key, payload |-> r.payload ]
    ELSE fence[r.job]
PreparedAttempt(r) ==
    LET a == attempt[r.attempt] IN
    IF a.token = 0
    THEN [ token |-> r.token, job |-> r.job, key |-> r.key, payload |-> r.payload,
           lease |-> r.lease ]
    ELSE IF r.token > a.token THEN [a EXCEPT !.token = r.token, !.lease = r.lease]
    ELSE IF r.lease # 0 THEN [a EXCEPT !.lease = r.lease] ELSE a
PreparedKey(r) ==
    LET k == key[r.job][r.key] IN
    IF k.attempt = NoAttempt THEN [k EXCEPT !.attempt = r.attempt, !.payload = r.payload]
    ELSE k

Prepare(r) ==
    /\ submission = {}
    /\ ~Lapsed(r.lease)
    /\ FenceAdmits(r) /\ AttemptAdmits(r) /\ KeyAdmits(r)
    /\ fence' = [fence EXCEPT ![r.job] = PreparedFence(r)]
    /\ attempt' = [attempt EXCEPT ![r.attempt] = PreparedAttempt(r)]
    /\ key' = [key EXCEPT ![r.job][r.key] = PreparedKey(r)]
    /\ submission' = {[step |-> "prepared", request |-> r, batch |-> NoBatch]}
    /\ UNCHANGED << now, batch, renewals >>

-----------------------------------------------------------------------------
(* broker._submit_batch_locked after prepare.                               *)

Kept(b) == batch[b].state \in {"active", "ended"}

(* The batches submitted under the request's clientRequestId: batch_requests *)
(* remembers the cleared ones too.                                           *)
Named(r) == {b \in LocalBatches : /\ batch[b].state # "none"
                                  /\ batch[b].job = r.job /\ batch[b].attempt = r.attempt
                                  /\ batch[b].key = r.key}
(* Mutant of SameClient: only batches whose row is kept are searched. *)
SameClientKept(r) == {b \in Named(r) : Kept(b)}
SameClient(r) == Named(r)
SamePrint(b, r) == batch[b].payload = r.payload /\ batch[b].printed = r.lease

RegisterNew(s) ==
    /\ s.step = "prepared" /\ SameClient(s.request) = {}
    /\ \E b \in LocalBatches :
          /\ batch[b].state = "none"
          /\ batch' = [batch EXCEPT ![b] =
                [ state |-> "active", job |-> s.request.job, attempt |-> s.request.attempt,
                  key |-> s.request.key, payload |-> s.request.payload,
                  printed |-> s.request.lease, token |-> s.request.token,
                  lease |-> s.request.lease ]]
          /\ submission' = {[s EXCEPT !.step = "registered", !.batch = b]}
    /\ UNCHANGED << now, fence, attempt, key, renewals >>

(* The newest fence is kept as evidence on a batch that is not cleared.     *)
RegisterReplay(s) ==
    /\ s.step = "prepared"
    /\ \E b \in SameClient(s.request) :
          /\ SamePrint(b, s.request)
          /\ batch' = IF Kept(b) /\ s.request.token > batch[b].token
                      THEN [batch EXCEPT ![b].token = s.request.token,
                                         ![b].lease = s.request.lease]
                      ELSE batch
          /\ submission' = {[s EXCEPT !.step = "registered", !.batch = b]}
    /\ UNCHANGED << now, fence, attempt, key, renewals >>

(* "clientRequestId was already used for a different batch": nothing binds. *)
RegisterConflict(s) ==
    /\ s.step = "prepared"
    /\ \E b \in SameClient(s.request) : ~SamePrint(b, s.request)
    /\ submission' = {}
    /\ UNCHANGED << now, fence, attempt, key, batch, renewals >>

(* bind_local_batch. *)
Bind(s) ==
    /\ s.step = "registered"
    /\ key' = [key EXCEPT ![s.request.job][s.request.key].batch = s.batch]
    /\ submission' = {}
    /\ UNCHANGED << now, fence, attempt, batch, renewals >>

-----------------------------------------------------------------------------
(* execution_identity.renew_lease: the current token of a live attempt.     *)
Renewable(a, t) ==
    LET row == attempt[a] IN
    /\ row.token = t
    /\ fence[row.job].token = t /\ fence[row.job].attempt = a
    /\ row.lease # 0 /\ ~Lapsed(row.lease)

RenewFence(a, t, l) ==
    LET row == attempt[a] IN
    /\ Cardinality(renewals) < MaxRenewals
    /\ l > now
    /\ Renewable(a, t)
    /\ attempt' = [attempt EXCEPT ![a].lease = l]
    /\ renewals' = renewals \cup
          {[attempt |-> a, lease |-> l, batch |-> key[row.job][row.key].batch]}
    /\ UNCHANGED << now, fence, key, batch, submission >>

(* broker.renew_execution_lease: the bound batch, or one of the attempt's   *)
(* that is in memory, as every active one is.                               *)
RenewBatch(n) ==
    /\ n \in renewals
    /\ renewals' = renewals \ {n}
    /\ IF n.batch # NoBatch /\ Kept(n.batch)
       THEN batch' = [batch EXCEPT ![n.batch].lease = n.lease]
       ELSE \/ \E b \in LocalBatches : /\ Kept(b) /\ batch[b].attempt = n.attempt
                                       /\ batch' = [batch EXCEPT ![b].lease = n.lease]
            \/ /\ \A b \in LocalBatches :
                     batch[b].attempt = n.attempt => batch[b].state # "active"
               /\ UNCHANGED batch
    /\ UNCHANGED << now, fence, attempt, key, submission >>

-----------------------------------------------------------------------------
(* The batch reaches its end (finished, cancelled, or fenced because its    *)
(* lease ran out), and its history may then be cleared.                     *)
Finish(b) ==
    /\ batch[b].state = "active"
    /\ batch' = [batch EXCEPT ![b].state = "ended"]
    /\ UNCHANGED << now, fence, attempt, key, submission, renewals >>
Clear(b) ==
    /\ batch[b].state = "ended"
    /\ batch' = [batch EXCEPT ![b].state = "cleared"]
    /\ UNCHANGED << now, fence, attempt, key, submission, renewals >>

Tick ==
    /\ now < Horizon
    /\ now' = now + 1
    /\ UNCHANGED << fence, attempt, key, batch, submission, renewals >>

Crash ==
    /\ submission # {} \/ renewals # {}
    /\ submission' = {} /\ renewals' = {}
    /\ UNCHANGED << now, fence, attempt, key, batch >>

Next ==
    \/ \E r \in Request : Prepare(r)
    \/ \E s \in submission : RegisterNew(s) \/ RegisterReplay(s)
                             \/ RegisterConflict(s) \/ Bind(s)
    \/ \E a \in Attempts, t \in 1..MaxToken, l \in 1..(Horizon + 1) : RenewFence(a, t, l)
    \/ \E n \in renewals : RenewBatch(n)
    \/ \E b \in LocalBatches : Finish(b) \/ Clear(b)
    \/ Tick \/ Crash

Spec == Init /\ [][Next]_vars

-----------------------------------------------------------------------------
(* Only the attempt that holds its job's fence can have its lease changed:  *)
(* a superseded attempt can neither renew nor resubmit its way back.        *)
OnlyHolderExtends ==
    [][\A a \in Attempts :
         attempt[a].token # 0 /\ attempt'[a].lease # attempt[a].lease
           => fence'[attempt[a].job].attempt = a]_vars

(* Once an attempt's lease has run out nothing moves it again: neither a    *)
(* renewal nor a resubmission revives the attempt.                          *)
LeaseNeverRevived ==
    [][\A a \in Attempts : Lapsed(attempt[a].lease) => attempt'[a] = attempt[a]]_vars

(* However submissions are retried, and whatever crash falls between the    *)
(* fence, the batch and the binding, a job and idempotency key have at most *)
(* one local batch, the cleared ones included: work is not done twice.      *)
OneBatchPerAssignment ==
    \A b, c \in LocalBatches :
        /\ batch[b].state # "none" /\ batch[c].state # "none"
        /\ batch[b].job = batch[c].job /\ batch[b].key = batch[c].key
        => b = c

(* A batch's evidence never claims a newer fence than the Hub observed, and *)
(* belongs to the assignment its attempt was accepted for.                  *)
EvidenceBehindFence ==
    \A b \in LocalBatches : batch[b].state # "none" =>
        LET a == attempt[batch[b].attempt] IN
        /\ 0 < batch[b].token /\ batch[b].token <= a.token
        /\ a.job = batch[b].job /\ a.key = batch[b].key /\ a.payload = batch[b].payload

(* A bound idempotency key leads to the batch of that very assignment, so a *)
(* renewal reaches the right batch.                                         *)
BindingSound ==
    \A j \in Jobs, k \in Keys : key[j][k].batch # NoBatch =>
        LET b == batch[key[j][k].batch] IN
        /\ b.state # "none" /\ b.job = j /\ b.key = k
        /\ b.attempt = key[j][k].attempt

(* broker.py: "it must not turn an otherwise exact idempotent replay into a *)
(* conflict".  An admitted resubmission of the same payload by the same     *)
(* attempt, under a newer fence, is answered with the existing batch.       *)
ReplayNeverConflicts ==
    \A s \in submission : s.step = "prepared" =>
        \A b \in SameClient(s.request) :
            s.request.token > batch[b].token => SamePrint(b, s.request)

(* The assignment tables implement the promise made to GenStudio.           *)
Holder == [j \in Jobs |-> [token |-> fence[j].token, attempt |-> fence[j].attempt]]
Status == [a \in Attempts |-> IF attempt[a].token = 0 THEN "unknown"
                              ELSE IF Lapsed(attempt[a].lease) THEN "dead" ELSE "live"]
Authority == INSTANCE AssignmentAuthority WITH Tokens <- 1..MaxToken,
                 holder <- Holder, status <- Status
ImplementsAuthority == Authority!Init /\ [][Authority!Next]_(Authority!vars)
=============================================================================
