------------------------ MODULE GenStudioFenceProofs ------------------------
(***************************************************************************)
(* Proofs about GenStudioFence, for any jobs, attempts, keys, payloads and *)
(* batches, any number of tokens, renewals and instants.                   *)
(***************************************************************************)
EXTENDS GenStudioFence, TLAPS

(* An unknown attempt has no lease, a known one its job and key. *)
RowsFilled ==
    \A a \in Attempts : IF attempt[a].token = 0 THEN attempt[a].lease = 0
                        ELSE attempt[a].job \in Jobs /\ attempt[a].key \in Keys

(* A batch belongs to a real assignment, the one its key was given to. *)
BatchesNamed ==
    \A b \in LocalBatches : batch[b].state # "none" =>
        /\ batch[b].job \in Jobs /\ batch[b].attempt \in Attempts /\ batch[b].key \in Keys
        /\ key[batch[b].job][batch[b].key].attempt = batch[b].attempt

(* A submission past prepare is the assignment its rows describe, and once  *)
(* registered holds a batch of that assignment.                             *)
SubmissionFenced ==
    \A s \in submission :
        LET r == s.request
            a == attempt[r.attempt]
        IN  /\ r.token <= a.token
            /\ a.job = r.job /\ a.key = r.key /\ a.payload = r.payload
            /\ key[r.job][r.key].attempt = r.attempt
            /\ s.step = "registered" =>
                  /\ s.batch \in LocalBatches /\ batch[s.batch].state # "none"
                  /\ batch[s.batch].job = r.job /\ batch[s.batch].attempt = r.attempt
                  /\ batch[s.batch].key = r.key

Evidence == /\ RowsFilled /\ BatchesNamed /\ SubmissionFenced
            /\ EvidenceBehindFence /\ BindingSound /\ OneBatchPerAssignment
IInv == TypeOK /\ Evidence

-----------------------------------------------------------------------------
(* Types.                                                                   *)

LEMMA PreparedTyped ==
    ASSUME TypeOK, NEW r \in Request
    PROVE  /\ PreparedFence(r) \in FenceRow
           /\ PreparedAttempt(r) \in AttemptRow
           /\ PreparedKey(r) \in KeyRow
  <1>1. /\ fence[r.job] \in FenceRow /\ attempt[r.attempt] \in AttemptRow
        /\ key[r.job][r.key] \in KeyRow
        /\ r.job \in Jobs /\ r.attempt \in Attempts /\ r.key \in Keys
        /\ r.payload \in Payloads /\ r.token \in Nat /\ r.lease \in Nat
    BY BoundAssumption DEF TypeOK, Request
  <1>2. PreparedFence(r) \in FenceRow
    BY <1>1 DEF PreparedFence, FenceRow
  <1>3. PreparedAttempt(r) \in AttemptRow
    BY <1>1 DEF PreparedAttempt, AttemptRow
  <1>4. PreparedKey(r) \in KeyRow
    BY <1>1 DEF PreparedKey, KeyRow
  <1> QED BY <1>2, <1>3, <1>4

LEMMA InitTyped == Init => TypeOK
  BY DEF Init, TypeOK, NoFence, FenceRow, NoAttemptRow, AttemptRow, NoKeyRow, KeyRow,
         EmptyBatch, Batch

LEMMA NextTyped == TypeOK /\ RowsFilled /\ [Next]_vars => TypeOK'
  <1> SUFFICES ASSUME TypeOK, RowsFilled, [Next]_vars PROVE TypeOK'
    OBVIOUS
  <1>0. /\ now \in Nat /\ fence \in [Jobs -> FenceRow] /\ attempt \in [Attempts -> AttemptRow]
        /\ key \in [Jobs -> [Keys -> KeyRow]] /\ batch \in [LocalBatches -> Batch]
        /\ submission \subseteq Submission /\ renewals \subseteq Renewal
        /\ Horizon \in Nat /\ MaxToken \in Nat
    BY BoundAssumption DEF TypeOK
  <1>1. ASSUME NEW r \in Request, Prepare(r)
        PROVE  TypeOK'
    <2>1. r.job \in Jobs /\ r.attempt \in Attempts /\ r.key \in Keys
      BY DEF Request
    <2>2. [step |-> "prepared", request |-> r, batch |-> NoBatch] \in Submission
      BY DEF Submission
    <2> QED BY <1>0, <1>1, <2>1, <2>2, PreparedTyped DEF Prepare, TypeOK
  <1>2. ASSUME NEW s \in submission, RegisterNew(s)
        PROVE  TypeOK'
    <2>1. s \in Submission /\ s.request \in Request
      BY <1>0 DEF Submission
    <2>2. /\ s.request.job \in Jobs /\ s.request.attempt \in Attempts
          /\ s.request.key \in Keys /\ s.request.payload \in Payloads
          /\ s.request.token \in Nat /\ s.request.lease \in Nat
      BY <1>0, <2>1 DEF Request
    <2>3. PICK b \in LocalBatches :
            /\ batch' = [batch EXCEPT ![b] =
                [ state |-> "active", job |-> s.request.job, attempt |-> s.request.attempt,
                  key |-> s.request.key, payload |-> s.request.payload,
                  printed |-> s.request.lease, token |-> s.request.token,
                  lease |-> s.request.lease ]]
            /\ submission' = {[s EXCEPT !.step = "registered", !.batch = b]}
      BY <1>2 DEF RegisterNew
    <2>4. batch' \in [LocalBatches -> Batch]
      BY <1>0, <2>2, <2>3 DEF Batch
    <2>5. submission' \subseteq Submission
      BY <2>1, <2>3 DEF Submission
    <2> QED BY <1>0, <1>2, <2>4, <2>5 DEF RegisterNew, TypeOK
  <1>3. ASSUME NEW s \in submission, RegisterReplay(s)
        PROVE  TypeOK'
    <2>1. s \in Submission /\ s.request \in Request
      BY <1>0 DEF Submission
    <2>2. s.request.token \in Nat /\ s.request.lease \in Nat
      BY <1>0, <2>1 DEF Request
    <2>3. PICK b \in LocalBatches :
            /\ batch' = IF Kept(b) /\ s.request.token > batch[b].token
                        THEN [batch EXCEPT ![b].token = s.request.token,
                                           ![b].lease = s.request.lease]
                        ELSE batch
            /\ submission' = {[s EXCEPT !.step = "registered", !.batch = b]}
      BY <1>3 DEF RegisterReplay, SameClient, Named
    <2>4. [batch EXCEPT ![b].token = s.request.token, ![b].lease = s.request.lease]
            \in [LocalBatches -> Batch]
      <3>1. [batch[b] EXCEPT !.token = s.request.token, !.lease = s.request.lease] \in Batch
        BY <1>0, <2>2 DEF Batch
      <3> QED BY <1>0, <3>1
    <2>5. batch' \in [LocalBatches -> Batch]
      BY <1>0, <2>3, <2>4
    <2>6. submission' \subseteq Submission
      BY <2>1, <2>3 DEF Submission
    <2> QED BY <1>0, <1>3, <2>5, <2>6 DEF RegisterReplay, TypeOK
  <1>4. ASSUME NEW s \in submission, RegisterConflict(s)
        PROVE  TypeOK'
    BY <1>0, <1>4 DEF RegisterConflict, TypeOK
  <1>5. ASSUME NEW s \in submission, Bind(s)
        PROVE  TypeOK'
    <2>1. s \in Submission /\ s.request.job \in Jobs /\ s.request.key \in Keys
      BY <1>0 DEF Submission, Request
    <2>2. s.batch \in LocalBatches \cup {NoBatch}
      BY <2>1 DEF Submission
    <2>3. key' \in [Jobs -> [Keys -> KeyRow]]
      <3>0. key[s.request.job][s.request.key] \in KeyRow
        BY <1>0, <2>1
      <3>1. [key[s.request.job][s.request.key] EXCEPT !.batch = s.batch] \in KeyRow
        BY <2>2, <3>0 DEF KeyRow
      <3>2. [key[s.request.job] EXCEPT ![s.request.key].batch = s.batch] \in [Keys -> KeyRow]
        BY <1>0, <2>1, <3>1
      <3>3. key' = [key EXCEPT ![s.request.job] =
                                 [key[s.request.job] EXCEPT ![s.request.key].batch = s.batch]]
        BY <1>5 DEF Bind
      <3> QED BY <1>0, <2>1, <3>2, <3>3
    <2> QED BY <1>0, <1>5, <2>3 DEF Bind, TypeOK
  <1>6. ASSUME NEW a \in Attempts, NEW t \in 1..MaxToken, NEW l \in 1..(Horizon + 1),
               RenewFence(a, t, l)
        PROVE  TypeOK'
    <2>1. l \in Nat
      BY <1>0
    <2>2. attempt[a].job \in Jobs /\ attempt[a].key \in Keys
      BY <1>0, <1>6 DEF RenewFence, Renewable, RowsFilled
    <2>3. key[attempt[a].job][attempt[a].key].batch \in LocalBatches \cup {NoBatch}
      BY <1>0, <2>2 DEF KeyRow
    <2>4. renewals' \subseteq Renewal
      BY <1>0, <1>6, <2>1, <2>3 DEF RenewFence, Renewal
    <2>5. attempt' \in [Attempts -> AttemptRow]
      BY <1>0, <1>6, <2>1 DEF RenewFence, AttemptRow
    <2> QED BY <1>0, <1>6, <2>4, <2>5 DEF RenewFence, TypeOK
  <1>7. ASSUME NEW n \in renewals, RenewBatch(n)
        PROVE  TypeOK'
    <2>1. n.lease \in Nat /\ n.batch \in LocalBatches \cup {NoBatch}
      BY <1>0 DEF Renewal
    <2>2. \A b \in LocalBatches : [batch EXCEPT ![b].lease = n.lease] \in [LocalBatches -> Batch]
      BY <1>0, <2>1 DEF Batch
    <2>3. batch' \in [LocalBatches -> Batch]
      BY <1>0, <1>7, <2>1, <2>2 DEF RenewBatch
    <2> QED BY <1>0, <1>7, <2>3 DEF RenewBatch, TypeOK
  <1>8. ASSUME NEW b \in LocalBatches, Finish(b) \/ Clear(b)
        PROVE  TypeOK'
    <2>1. \A state \in {"ended", "cleared"} : [batch[b] EXCEPT !.state = state] \in Batch
      BY <1>0 DEF Batch
    <2>2. batch' \in [LocalBatches -> Batch]
      BY <1>0, <1>8, <2>1 DEF Finish, Clear
    <2> QED BY <1>0, <1>8, <2>2 DEF Finish, Clear, TypeOK
  <1>9. CASE Tick \/ Crash
    BY <1>0, <1>9 DEF Tick, Crash, TypeOK
  <1>10. CASE UNCHANGED vars
    BY <1>10 DEF vars, TypeOK
  <1> QED BY <1>1, <1>2, <1>3, <1>4, <1>5, <1>6, <1>7, <1>8, <1>9, <1>10 DEF Next

-----------------------------------------------------------------------------
(* The evidence.                                                            *)

LEMMA PrepareKeeps ==
    ASSUME IInv, NEW r \in Request, Prepare(r)
    PROVE  Evidence'
  <1> DEFINE pa == PreparedAttempt(r)
             pk == PreparedKey(r)
  <1>0. /\ attempt \in [Attempts -> AttemptRow] /\ key \in [Jobs -> [Keys -> KeyRow]]
        /\ batch \in [LocalBatches -> Batch] /\ NoAttempt \notin Attempts
        /\ r.job \in Jobs /\ r.attempt \in Attempts /\ r.key \in Keys
        /\ r.token \in Nat \ {0}
    BY DistinctAssumption, BoundAssumption DEF IInv, TypeOK, Request
  <1>1. /\ attempt' = [attempt EXCEPT ![r.attempt] = pa]
        /\ key' = [key EXCEPT ![r.job][r.key] = pk]
        /\ submission' = {[step |-> "prepared", request |-> r, batch |-> NoBatch]}
        /\ batch' = batch /\ AttemptAdmits(r) /\ KeyAdmits(r)
    BY DEF Prepare
  <1>2. /\ pa.token >= r.token /\ pa.token >= attempt[r.attempt].token
        /\ pa.job = r.job /\ pa.key = r.key /\ pa.payload = r.payload
        /\ attempt[r.attempt].token # 0 =>
              /\ attempt[r.attempt].job = r.job /\ attempt[r.attempt].key = r.key
              /\ attempt[r.attempt].payload = r.payload
    <2>1. attempt[r.attempt] \in AttemptRow
      BY <1>0
    <2> QED BY <1>0, <1>1, <2>1 DEF PreparedAttempt, AttemptAdmits, AttemptRow
  <1>3. /\ pk.attempt = r.attempt /\ pk.batch = key[r.job][r.key].batch
        /\ key[r.job][r.key].attempt \in {NoAttempt, r.attempt}
    <2>1. key[r.job][r.key] \in KeyRow
      BY <1>0
    <2> QED BY <1>0, <1>1, <2>1 DEF PreparedKey, KeyAdmits, KeyRow
  <1> HIDE DEF pa, pk
  <1>4. /\ attempt'[r.attempt] = pa /\ \A a \in Attempts \ {r.attempt} : attempt'[a] = attempt[a]
        /\ key'[r.job][r.key] = pk
        /\ \A j \in Jobs, k \in Keys : j # r.job \/ k # r.key => key'[j][k] = key[j][k]
    BY <1>0, <1>1
  <1>5. RowsFilled'
    BY <1>0, <1>2, <1>4 DEF IInv, Evidence, RowsFilled, AttemptRow
  <1>6. BatchesNamed'
    BY <1>0, <1>1, <1>3, <1>4 DEF IInv, Evidence, BatchesNamed
  <1>7. SubmissionFenced'
    BY <1>0, <1>1, <1>2, <1>3, <1>4 DEF SubmissionFenced
  <1>8. EvidenceBehindFence'
    <2>1. ASSUME NEW b \in LocalBatches, batch[b].state # "none"
          PROVE  LET a == attempt'[batch[b].attempt] IN
                 /\ 0 < batch[b].token /\ batch[b].token <= a.token
                 /\ a.job = batch[b].job /\ a.key = batch[b].key
                 /\ a.payload = batch[b].payload
      <3>1. /\ batch[b].attempt \in Attempts /\ batch[b].token \in Nat
            /\ attempt[batch[b].attempt].token \in Nat /\ attempt'[batch[b].attempt].token \in Nat
            /\ pa.token \in Nat
        BY <1>0, <1>4, <2>1, PreparedTyped DEF IInv, Evidence, BatchesNamed, Batch, AttemptRow, pa
      <3> QED BY <1>0, <1>2, <1>4, <2>1, <3>1 DEF IInv, Evidence, EvidenceBehindFence
    <2> QED BY <1>1, <2>1 DEF EvidenceBehindFence
  <1>9. BindingSound'
    BY <1>0, <1>1, <1>3, <1>4 DEF IInv, Evidence, BindingSound, BatchesNamed, TypeOK, KeyRow
  <1>10. OneBatchPerAssignment'
    BY <1>1 DEF IInv, Evidence, OneBatchPerAssignment
  <1> QED BY <1>5, <1>6, <1>7, <1>8, <1>9, <1>10 DEF Evidence

LEMMA RegisterNewKeeps ==
    ASSUME IInv, NEW s \in submission, RegisterNew(s)
    PROVE  Evidence'
  <1> DEFINE r == s.request
  <1>0. /\ batch \in [LocalBatches -> Batch] /\ s \in Submission
        /\ r.job \in Jobs /\ r.attempt \in Attempts /\ r.key \in Keys
        /\ r.token \in Nat \ {0} /\ r.lease \in Nat
        /\ key \in [Jobs -> [Keys -> KeyRow]]
    BY BoundAssumption DEF IInv, TypeOK, Submission, Request
  <1>1. PICK b \in LocalBatches :
          /\ batch[b].state = "none"
          /\ batch' = [batch EXCEPT ![b] =
                [ state |-> "active", job |-> r.job, attempt |-> r.attempt,
                  key |-> r.key, payload |-> r.payload, printed |-> r.lease,
                  token |-> r.token, lease |-> r.lease ]]
          /\ submission' = {[s EXCEPT !.step = "registered", !.batch = b]}
    BY DEF RegisterNew
  <1>2. SameClient(r) = {} /\ UNCHANGED << attempt, key >>
    BY DEF RegisterNew
  <1>3. /\ r.token <= attempt[r.attempt].token
        /\ attempt[r.attempt].job = r.job /\ attempt[r.attempt].key = r.key
        /\ attempt[r.attempt].payload = r.payload
        /\ key[r.job][r.key].attempt = r.attempt
    BY DEF IInv, Evidence, SubmissionFenced
  <1>4. /\ batch'[b].state = "active" /\ batch'[b].job = r.job /\ batch'[b].key = r.key
        /\ batch'[b].attempt = r.attempt /\ batch'[b].payload = r.payload
        /\ batch'[b].token = r.token
        /\ \A c \in LocalBatches \ {b} : batch'[c] = batch[c]
    BY <1>0, <1>1
  <1>5. RowsFilled'
    BY <1>2 DEF IInv, Evidence, RowsFilled
  <1>6. BatchesNamed'
    BY <1>0, <1>2, <1>3, <1>4 DEF IInv, Evidence, BatchesNamed
  <1>7. SubmissionFenced'
    <2>1. \A n \in submission' : n.request = r /\ n.batch = b
      BY <1>0, <1>1 DEF Submission
    <2> HIDE DEF r
    <2> QED BY <1>2, <1>3, <1>4, <2>1 DEF SubmissionFenced
  <1>8. EvidenceBehindFence'
    BY <1>0, <1>2, <1>3, <1>4 DEF IInv, Evidence, EvidenceBehindFence
  <1>9. BindingSound'
    <2>1. \A j \in Jobs, k \in Keys : key[j][k].batch # NoBatch => key[j][k].batch \in LocalBatches
      BY <1>0 DEF KeyRow
    <2> QED BY <1>1, <1>2, <1>4, <2>1 DEF IInv, Evidence, BindingSound
  <1>10. OneBatchPerAssignment'
    <2>1. \A c \in LocalBatches :
             batch[c].state # "none" => batch[c].job # r.job \/ batch[c].key # r.key
      BY <1>2, <1>3 DEF SameClient, Named, IInv, Evidence, BatchesNamed
    <2> QED BY <1>1, <1>4, <2>1 DEF IInv, Evidence, OneBatchPerAssignment
  <1> QED BY <1>5, <1>6, <1>7, <1>8, <1>9, <1>10 DEF Evidence

LEMMA RegisterReplayKeeps ==
    ASSUME IInv, NEW s \in submission, RegisterReplay(s)
    PROVE  Evidence'
  <1> DEFINE r == s.request
  <1>0. /\ batch \in [LocalBatches -> Batch] /\ s \in Submission
        /\ r.token \in Nat \ {0} /\ key \in [Jobs -> [Keys -> KeyRow]]
    BY BoundAssumption DEF IInv, TypeOK, Submission, Request
  <1>1. PICK b \in SameClient(r) :
          /\ batch' = IF Kept(b) /\ r.token > batch[b].token
                      THEN [batch EXCEPT ![b].token = r.token, ![b].lease = r.lease]
                      ELSE batch
          /\ submission' = {[s EXCEPT !.step = "registered", !.batch = b]}
    BY DEF RegisterReplay
  <1>2. UNCHANGED << attempt, key >>
    BY DEF RegisterReplay
  <1>3. /\ b \in LocalBatches /\ batch[b].state # "none" /\ batch[b].job = r.job
        /\ batch[b].attempt = r.attempt /\ batch[b].key = r.key
    BY DEF SameClient, Named
  <1>4. /\ r.token <= attempt[r.attempt].token
        /\ attempt[r.attempt].job = r.job /\ attempt[r.attempt].key = r.key
        /\ attempt[r.attempt].payload = r.payload
        /\ key[r.job][r.key].attempt = r.attempt
    BY DEF IInv, Evidence, SubmissionFenced
  <1>5. \A c \in LocalBatches :
           /\ batch'[c].state = batch[c].state /\ batch'[c].job = batch[c].job
           /\ batch'[c].attempt = batch[c].attempt /\ batch'[c].key = batch[c].key
           /\ batch'[c].payload = batch[c].payload
           /\ batch'[c].token = batch[c].token \/ (c = b /\ batch'[c].token = r.token)
    BY <1>0, <1>1, <1>3 DEF Batch
  <1>6. RowsFilled' /\ BatchesNamed'
    BY <1>2, <1>5 DEF IInv, Evidence, RowsFilled, BatchesNamed
  <1>7. SubmissionFenced'
    <2>1. \A n \in submission' : n.request = r /\ n.batch = b
      BY <1>0, <1>1 DEF Submission
    <2> HIDE DEF r
    <2> QED BY <1>2, <1>3, <1>4, <1>5, <2>1 DEF SubmissionFenced
  <1>8. EvidenceBehindFence'
    BY <1>0, <1>2, <1>3, <1>4, <1>5 DEF IInv, Evidence, EvidenceBehindFence
  <1>9. BindingSound'
    <2>1. \A j \in Jobs, k \in Keys : key[j][k].batch # NoBatch => key[j][k].batch \in LocalBatches
      BY <1>0 DEF KeyRow
    <2> QED BY <1>2, <1>5, <2>1 DEF IInv, Evidence, BindingSound
  <1>10. OneBatchPerAssignment'
    BY <1>5 DEF IInv, Evidence, OneBatchPerAssignment
  <1> QED BY <1>6, <1>7, <1>8, <1>9, <1>10 DEF Evidence

LEMMA BindKeeps ==
    ASSUME IInv, NEW s \in submission, Bind(s)
    PROVE  Evidence'
  <1> DEFINE j == s.request.job
             k == s.request.key
  <1>0. /\ key \in [Jobs -> [Keys -> KeyRow]] /\ j \in Jobs /\ k \in Keys
    BY DEF IInv, TypeOK, Submission, Request
  <1>1. /\ key' = [key EXCEPT ![j][k].batch = s.batch] /\ submission' = {}
        /\ UNCHANGED << attempt, batch >> /\ s.step = "registered"
    BY DEF Bind
  <1>2. /\ s.batch \in LocalBatches /\ batch[s.batch].state # "none"
        /\ batch[s.batch].job = j /\ batch[s.batch].attempt = s.request.attempt
        /\ batch[s.batch].key = k /\ key[j][k].attempt = s.request.attempt
    BY <1>1 DEF IInv, Evidence, SubmissionFenced
  <1> HIDE DEF j, k
  <1>3. /\ key'[j][k].batch = s.batch
        /\ \A m \in Jobs, n \in Keys : /\ key'[m][n].attempt = key[m][n].attempt
                                       /\ m # j \/ n # k => key'[m][n] = key[m][n]
    BY <1>0, <1>1 DEF KeyRow
  <1>4. BindingSound'
    BY <1>1, <1>2, <1>3 DEF IInv, Evidence, BindingSound
  <1>5. BatchesNamed'
    BY <1>1, <1>3 DEF IInv, Evidence, BatchesNamed
  <1>6. RowsFilled' /\ SubmissionFenced'
    BY <1>1 DEF IInv, Evidence, RowsFilled, SubmissionFenced
  <1>7. EvidenceBehindFence' /\ OneBatchPerAssignment'
    BY <1>1 DEF IInv, Evidence, EvidenceBehindFence, OneBatchPerAssignment
  <1> QED BY <1>4, <1>5, <1>6, <1>7 DEF Evidence

LEMMA RenewFenceKeeps ==
    ASSUME IInv, NEW a \in Attempts, NEW t \in 1..MaxToken, NEW l, RenewFence(a, t, l)
    PROVE  Evidence'
  <1>1. /\ attempt' = [attempt EXCEPT ![a].lease = l]
        /\ UNCHANGED << key, batch, submission >> /\ attempt[a].token = t
    BY DEF RenewFence, Renewable
  <1>2. \A c \in Attempts :
           /\ attempt'[c].token = attempt[c].token /\ attempt'[c].job = attempt[c].job
           /\ attempt'[c].key = attempt[c].key /\ attempt'[c].payload = attempt[c].payload
           /\ c # a => attempt'[c] = attempt[c]
    BY <1>1 DEF IInv, TypeOK, AttemptRow
  <1>3. RowsFilled'
    <2>1. attempt[a].token # 0
      BY <1>1, BoundAssumption
    <2> QED BY <1>2, <2>1 DEF IInv, Evidence, RowsFilled
  <1>4. BatchesNamed' /\ BindingSound' /\ OneBatchPerAssignment'
    BY <1>1 DEF IInv, Evidence, BatchesNamed, BindingSound, OneBatchPerAssignment
  <1>5. SubmissionFenced'
    <2>1. \A s \in submission : s.request.attempt \in Attempts
      BY DEF IInv, TypeOK, Submission, Request
    <2> QED BY <1>1, <1>2, <2>1 DEF IInv, Evidence, SubmissionFenced
  <1>6. EvidenceBehindFence'
    BY <1>1, <1>2 DEF IInv, Evidence, EvidenceBehindFence, BatchesNamed
  <1> QED BY <1>3, <1>4, <1>5, <1>6 DEF Evidence

(* Steps that change at most the lease, or the end, of a batch, or forget a *)
(* submission.                                                              *)
LEMMA AsideKeeps ==
    ASSUME IInv, UNCHANGED << attempt, key >>, submission' \in {submission, {}},
           \A b \in LocalBatches :
              /\ batch'[b].state = "none" <=> batch[b].state = "none"
              /\ batch'[b].job = batch[b].job /\ batch'[b].attempt = batch[b].attempt
              /\ batch'[b].key = batch[b].key /\ batch'[b].payload = batch[b].payload
              /\ batch'[b].token = batch[b].token
    PROVE  Evidence'
  <1>1. RowsFilled' /\ BatchesNamed' /\ OneBatchPerAssignment'
    BY DEF IInv, Evidence, RowsFilled, BatchesNamed, OneBatchPerAssignment
  <1>2. SubmissionFenced'
    BY DEF IInv, Evidence, SubmissionFenced
  <1>3. EvidenceBehindFence'
    BY DEF IInv, Evidence, EvidenceBehindFence
  <1>4. BindingSound'
    BY DEF IInv, Evidence, BindingSound, TypeOK, KeyRow
  <1> QED BY <1>1, <1>2, <1>3, <1>4 DEF Evidence

LEMMA InitInv == Init => IInv
  <1> SUFFICES ASSUME Init PROVE IInv
    OBVIOUS
  <1>1. Evidence
    BY DEF Init, Evidence, RowsFilled, BatchesNamed, SubmissionFenced, EvidenceBehindFence,
           BindingSound, OneBatchPerAssignment, NoAttemptRow, NoKeyRow, EmptyBatch
  <1> QED BY <1>1, InitTyped DEF IInv

LEMMA NextInv == IInv /\ [Next]_vars => IInv'
  <1> SUFFICES ASSUME IInv, [Next]_vars PROVE IInv'
    OBVIOUS
  <1>1. TypeOK'
    BY NextTyped DEF IInv, Evidence
  <1>2. batch \in [LocalBatches -> Batch]
    BY DEF IInv, TypeOK
  <1>3. Evidence'
    <2>1. ASSUME NEW n \in renewals, RenewBatch(n)
          PROVE  Evidence'
      <3>1. \/ batch' = batch
            \/ \E b \in LocalBatches : batch' = [batch EXCEPT ![b].lease = n.lease]
        <4>1. n.batch \in LocalBatches \cup {NoBatch}
          BY DEF IInv, TypeOK, Renewal
        <4> QED BY <2>1, <4>1 DEF RenewBatch
      <3>2. UNCHANGED << attempt, key, submission >>
        BY <2>1 DEF RenewBatch
      <3> QED BY <1>2, <3>1, <3>2, AsideKeeps DEF Batch
    <2>2. ASSUME NEW b \in LocalBatches, Finish(b) \/ Clear(b)
          PROVE  Evidence'
      <3>1. PICK state \in {"ended", "cleared"} : batch' = [batch EXCEPT ![b].state = state]
        BY <2>2 DEF Finish, Clear
      <3>2. UNCHANGED << attempt, key, submission >> /\ batch[b].state # "none"
        BY <2>2 DEF Finish, Clear
      <3> QED BY <1>2, <3>1, <3>2, AsideKeeps DEF Batch
    <2>3. CASE UNCHANGED << attempt, key, batch >> /\ submission' \in {submission, {}}
      BY <2>3, AsideKeeps
    <2> QED BY <2>1, <2>2, <2>3, PrepareKeeps, RegisterNewKeeps, RegisterReplayKeeps,
               BindKeeps, RenewFenceKeeps
            DEF Next, RegisterConflict, Tick, Crash, vars
  <1> QED BY <1>1, <1>3 DEF IInv

LEMMA InvHolds == Spec => []IInv
  BY InitInv, NextInv, PTL DEF Spec

-----------------------------------------------------------------------------
(* The tables hold only what their readers expect. *)
THEOREM TypeCorrect == Spec => []TypeOK
  <1>1. IInv => TypeOK
    BY DEF IInv
  <1> QED BY <1>1, InvHolds, PTL

(* Retries, replays and crashes never give an assignment two batches. *)
THEOREM WorkOnce == Spec => []OneBatchPerAssignment
  <1>1. IInv => OneBatchPerAssignment
    BY DEF IInv, Evidence
  <1> QED BY <1>1, InvHolds, PTL

(* The evidence a batch carries never runs ahead of the fence, and names    *)
(* the assignment it was accepted for.                                      *)
THEOREM EvidenceSound == Spec => []EvidenceBehindFence
  <1>1. IInv => EvidenceBehindFence
    BY DEF IInv, Evidence
  <1> QED BY <1>1, InvHolds, PTL

(* A bound key leads to the batch of its own assignment. *)
THEOREM BindingHolds == Spec => []BindingSound
  <1>1. IInv => BindingSound
    BY DEF IInv, Evidence
  <1> QED BY <1>1, InvHolds, PTL

-----------------------------------------------------------------------------
(* Leases.  Only these two steps change an attempt's row. *)
LEMMA AttemptChanges ==
    ASSUME [Next]_vars, attempt' # attempt
    PROVE  \/ \E r \in Request : Prepare(r)
           \/ \E a \in Attempts, t \in 1..MaxToken, l \in 1..(Horizon + 1) :
                 RenewFence(a, t, l)
  BY DEF Next, RegisterNew, RegisterReplay, RegisterConflict, Bind, RenewBatch, Finish,
         Clear, Tick, Crash, vars

(* An attempt whose lease ran out is beyond renewal and resubmission. *)
THEOREM NoRevival == Spec => LeaseNeverRevived
  <1>1. ASSUME IInv, [Next]_vars, NEW a \in Attempts, Lapsed(attempt[a].lease)
        PROVE  attempt'[a] = attempt[a]
    <2>1. attempt \in [Attempts -> AttemptRow]
      BY <1>1 DEF IInv, TypeOK
    <2>2. ASSUME NEW r \in Request, Prepare(r)
          PROVE  attempt'[a] = attempt[a]
      <3>1. attempt[a].token # 0
        BY <1>1 DEF IInv, Evidence, RowsFilled, Lapsed
      <3>2. r.attempt # a
        BY <1>1, <2>2, <3>1 DEF Prepare, AttemptAdmits
      <3> QED BY <2>1, <2>2, <3>2 DEF Prepare
    <2>3. ASSUME NEW c \in Attempts, NEW t \in 1..MaxToken, NEW l, RenewFence(c, t, l)
          PROVE  attempt'[a] = attempt[a]
      <3>1. c # a
        BY <1>1, <2>3 DEF RenewFence, Renewable
      <3> QED BY <2>1, <2>3, <3>1 DEF RenewFence
    <2> QED BY <1>1, <2>2, <2>3, AttemptChanges
  <1>2. IInv /\ [Next]_vars
          => [\A a \in Attempts : Lapsed(attempt[a].lease) => attempt'[a] = attempt[a]]_vars
    BY <1>1
  <1> QED BY <1>2, InvHolds, PTL DEF Spec, LeaseNeverRevived

(* A superseded attempt can neither renew nor resubmit its way back. *)
THEOREM HolderOnly == Spec => OnlyHolderExtends
  <1>1. ASSUME IInv, [Next]_vars, NEW a \in Attempts,
               attempt[a].token # 0, attempt'[a].lease # attempt[a].lease
        PROVE  fence'[attempt[a].job].attempt = a
    <2>1. /\ attempt \in [Attempts -> AttemptRow] /\ fence \in [Jobs -> FenceRow]
          /\ attempt[a].job \in Jobs
      BY <1>1 DEF IInv, TypeOK, Evidence, RowsFilled
    <2>2. ASSUME NEW r \in Request, Prepare(r)
          PROVE  fence'[attempt[a].job].attempt = a
      <3>1. r.attempt = a
        BY <1>1, <2>1, <2>2 DEF Prepare
      <3>2. attempt[a].job = r.job
        BY <1>1, <2>2, <3>1 DEF Prepare, AttemptAdmits
      <3>3. PreparedFence(r).attempt = r.attempt
        BY <2>1, <2>2, BoundAssumption DEF Prepare, FenceAdmits, PreparedFence, Request,
           FenceRow
      <3> QED BY <2>1, <2>2, <3>1, <3>2, <3>3 DEF Prepare
    <2>3. ASSUME NEW c \in Attempts, NEW t \in 1..MaxToken, NEW l, RenewFence(c, t, l)
          PROVE  fence'[attempt[a].job].attempt = a
      <3>1. c = a
        BY <1>1, <2>1, <2>3 DEF RenewFence
      <3> QED BY <2>3, <3>1 DEF RenewFence, Renewable
    <2>4. attempt' # attempt
      BY <1>1
    <2> QED BY <1>1, <2>2, <2>3, <2>4, AttemptChanges
  <1>2. IInv /\ [Next]_vars
          => [\A a \in Attempts :
                attempt[a].token # 0 /\ attempt'[a].lease # attempt[a].lease
                  => fence'[attempt[a].job].attempt = a]_vars
    BY <1>1
  <1> QED BY <1>2, InvHolds, PTL DEF Spec, OnlyHolderExtends

-----------------------------------------------------------------------------
(* Refinement.                                                              *)

LEMMA PrepareAssigns ==
    ASSUME IInv, NEW r \in Request, Prepare(r)
    PROVE  Authority!Assign(r.job, r.attempt, r.token)
  <1>0. /\ attempt \in [Attempts -> AttemptRow] /\ fence \in [Jobs -> FenceRow]
        /\ r.job \in Jobs /\ r.attempt \in Attempts /\ r.token \in Nat \ {0}
        /\ r.lease \in Nat
    BY BoundAssumption DEF IInv, TypeOK, Request
  <1>1. /\ fence' = [fence EXCEPT ![r.job] = PreparedFence(r)]
        /\ attempt' = [attempt EXCEPT ![r.attempt] = PreparedAttempt(r)]
        /\ now' = now /\ FenceAdmits(r) /\ AttemptAdmits(r) /\ ~Lapsed(r.lease)
    BY DEF Prepare
  <1>2. Status[r.attempt] # "dead"
    BY <1>0, <1>1 DEF Status, AttemptAdmits
  <1>3. \/ r.token > Holder[r.job].token
        \/ Holder[r.job] = [token |-> r.token, attempt |-> r.attempt]
    BY <1>0, <1>1 DEF Holder, FenceAdmits
  <1>4. Holder' = [Holder EXCEPT ![r.job] = [token |-> r.token, attempt |-> r.attempt]]
    <2>1. /\ PreparedFence(r).token = r.token /\ PreparedFence(r).attempt = r.attempt
      BY <1>0, <1>1 DEF PreparedFence, FenceAdmits
    <2> QED BY <1>0, <1>1, <2>1 DEF Holder
  <1>5. Status' = [Status EXCEPT ![r.attempt] = "live"]
    <2>1. attempt[r.attempt] \in AttemptRow
      BY <1>0
    <2>2. PreparedAttempt(r).token # 0 /\ ~Lapsed(PreparedAttempt(r).lease)
      BY <1>0, <1>1, <2>1 DEF PreparedAttempt, AttemptAdmits, AttemptRow
    <2> QED BY <1>0, <1>1, <2>2 DEF Status, Lapsed
  <1> QED BY <1>2, <1>3, <1>4, <1>5 DEF Authority!Assign

LEMMA RenewStutters ==
    ASSUME IInv, NEW a \in Attempts, NEW t \in 1..MaxToken, NEW l \in 1..(Horizon + 1),
           RenewFence(a, t, l)
    PROVE  Holder' = Holder /\ Status' = Status
  <1>1. /\ attempt \in [Attempts -> AttemptRow] /\ now \in Nat
        /\ attempt' = [attempt EXCEPT ![a].lease = l] /\ UNCHANGED << now, fence >>
        /\ l > now /\ attempt[a].token # 0 /\ ~Lapsed(attempt[a].lease)
    BY BoundAssumption DEF IInv, TypeOK, RenewFence, Renewable
  <1>2. /\ attempt'[a].token = attempt[a].token /\ attempt'[a].lease = l
        /\ \A c \in Attempts \ {a} : attempt'[c] = attempt[c]
    BY <1>1 DEF AttemptRow
  <1>3. ~Lapsed(l)'
    BY <1>1, BoundAssumption DEF Lapsed
  <1> QED BY <1>1, <1>2, <1>3 DEF Holder, Status, Lapsed

LEMMA TickLapses ==
    ASSUME IInv, Tick
    PROVE  Authority!Lapse
  <1>1. /\ attempt \in [Attempts -> AttemptRow] /\ now \in Nat
        /\ now' = now + 1 /\ UNCHANGED << fence, attempt >>
    BY DEF IInv, TypeOK, Tick
  <1>2. \A a \in Attempts : attempt[a].lease \in Nat
    BY <1>1 DEF AttemptRow
  <1> DEFINE S == {a \in Attempts : Status[a] = "live" /\ Lapsed(attempt[a].lease)'}
  <1>3. S \in SUBSET {a \in Attempts : Status[a] = "live"}
    OBVIOUS
  <1>4. ASSUME NEW a \in Attempts
        PROVE  Status'[a] = IF a \in S THEN "dead" ELSE Status[a]
    BY <1>1, <1>2 DEF Status, Lapsed
  <1>5. Status' = [a \in Attempts |-> IF a \in S THEN "dead" ELSE Status[a]]
    BY <1>4 DEF Status
  <1>6. Holder' = Holder
    BY <1>1 DEF Holder
  <1> QED BY <1>3, <1>5, <1>6 DEF Authority!Lapse

(* The three tables keep the promise of AssignmentAuthority: one holder per *)
(* job, replaced only by a greater token, and no dead attempt comes back.   *)
THEOREM Refinement == Spec => ImplementsAuthority
  <1>1. Init => Authority!Init
    BY DEF Init, Authority!Init, Authority!Unheld, Holder, Status, NoFence, NoAttemptRow
  <1>2. IInv /\ [Next]_vars => [Authority!Next]_(Authority!vars)
    <2> SUFFICES ASSUME IInv, [Next]_vars
                 PROVE  Authority!Next \/ (Holder' = Holder /\ Status' = Status)
      BY DEF Authority!vars
    <2>1. ASSUME NEW r \in Request, Prepare(r)
          PROVE  Authority!Next
      <3>1. r.job \in Jobs /\ r.attempt \in Attempts /\ r.token \in 1..MaxToken
        BY DEF Request
      <3> QED BY <2>1, <3>1, PrepareAssigns DEF Authority!Next
    <2>2. CASE Tick
      BY <2>2, TickLapses DEF Authority!Next
    <2>3. CASE UNCHANGED << now, fence, attempt >>
      BY <2>3 DEF Holder, Status, Lapsed
    <2> QED BY <2>1, <2>2, <2>3, RenewStutters
            DEF Next, RegisterNew, RegisterReplay, RegisterConflict, Bind, RenewBatch,
                Finish, Clear, Crash, vars
  <1> QED BY <1>1, <1>2, InvHolds, PTL DEF Spec, ImplementsAuthority
=============================================================================
