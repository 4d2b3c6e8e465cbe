--------------------------- MODULE HubBrokerProofs ---------------------------
(***************************************************************************)
(* Proofs about HubBroker, for any batches, items, Studios and machines.   *)
(***************************************************************************)
EXTENDS HubBroker, TLAPS

(* The inductive invariant of the leases. *)
Excl == BusyMatchesTasks /\ MachineExclusive /\ SnapshotIsIdle /\ QueuedIsIdle
IInv == TypeOK /\ Excl

ItemMap == [Items -> ItemRecord]
BatchMap == [Batches -> BatchRecord]

-----------------------------------------------------------------------------
(* Item and batch updates keep their types.                                 *)

LEMMA StateTyped ==
    ASSUME NEW it \in ItemMap, NEW i \in Items, NEW s \in ItemStates
    PROVE  [it EXCEPT ![i].state = s] \in ItemMap
  BY DEF ItemMap, ItemRecord

LEMMA OwnedTyped ==
    ASSUME NEW it \in ItemMap, NEW i \in Items, NEW s \in ItemStates
    PROVE  [it EXCEPT ![i].state = s, ![i].owned = TRUE] \in ItemMap
  BY DEF ItemMap, ItemRecord

LEMMA PredNat == ASSUME NEW n \in Nat PROVE Pred(n) \in Nat
  BY DEF Pred

LEMMA SeenTyped ==
    ASSUME item \in ItemMap, NEW i \in Items, NEW reported \in BOOLEAN
    PROVE  Seen(i, reported) \in ItemMap
  BY DEF ItemMap, ItemRecord, Seen

LEMMA ExpiredTyped ==
    ASSUME NEW it \in ItemMap, NEW b \in Batches, batch \in BatchMap
    PROVE  /\ ExpiredItems(b, it) \in ItemMap
           /\ ExpiredBatch(b) \in BatchMap
  BY DEF ItemMap, BatchMap, ItemRecord, BatchRecord, ExpiredItems, ExpiredBatch, ItemStates,
         TerminalStates

LEMMA SaveTyped ==
    ASSUME TypeOK, NEW b \in Batches, NEW bt \in BatchMap, NEW it \in ItemMap,
           Save(b, bt, it)
    PROVE  row' \in [Batches -> RowRecord] /\ rowItem' \in ItemMap
  BY DEF TypeOK, Save, SaveRow, SaveItems, BatchMap, ItemMap, BatchRecord, RowRecord

LEMMA WriteThroughTyped ==
    ASSUME TypeOK, NEW i \in Items, NEW it, WriteThrough(i, it)
    PROVE  row' \in [Batches -> RowRecord] /\ rowItem' \in ItemMap
  <1>1. BatchOf[i] \in Batches
    BY ShapeAssumption
  <1>2. [item EXCEPT ![i].started = TRUE] \in ItemMap /\ batch \in BatchMap
    BY DEF TypeOK, ItemMap, BatchMap, ItemRecord
  <1>3. CASE it[i].started /\ ~item[i].started
    BY <1>1, <1>2, <1>3, SaveTyped DEF WriteThrough
  <1>4. CASE ~(it[i].started /\ ~item[i].started)
    BY <1>4 DEF WriteThrough, Unsaved, TypeOK, ItemMap
  <1> QED BY <1>3, <1>4

LEMMA FinishTyped ==
    ASSUME TypeOK, NEW b \in Batches, NEW bt \in BatchMap, NEW it \in ItemMap,
           MaybeFinish(b, bt, it)
    PROVE  /\ batch' \in BatchMap /\ item' = it
           /\ row' \in [Batches -> RowRecord] /\ rowItem' \in ItemMap
  <1>1. Finished(b, bt, it) \in BatchMap
    BY DEF Finished, BatchMap, BatchRecord
  <1> QED BY <1>1, SaveTyped DEF MaybeFinish

-----------------------------------------------------------------------------
(* A step that starts and ends no task, leases nothing and queues nothing   *)
(* keeps the exclusion.                                                     *)
Quiet ==
    /\ \A k \in Items : /\ Live(k)' <=> Live(k)
                        /\ Live(k) => task'[k].studio = task[k].studio
    /\ \A k \in Items : item'[k].state = "queued" => item[k].state = "queued"
    /\ busy' = busy /\ pass' = pass

LEMMA QuietKeeps ==
    ASSUME Excl, Quiet, pass.queued \subseteq Items, ext' \subseteq ext
    PROVE  Excl'
  <1>1. BusyMatchesTasks'
    BY DEF Excl, Quiet, BusyMatchesTasks
  <1>2. MachineExclusive'
    BY DEF Excl, Quiet, MachineExclusive
  <1>3. SnapshotIsIdle'
    BY DEF Excl, Quiet, SnapshotIsIdle
  <1>4. QueuedIsIdle'
    BY DEF Excl, Quiet, QueuedIsIdle
  <1> QED BY <1>1, <1>2, <1>3, <1>4 DEF Excl

LEMMA LeaveKeeps ==
    ASSUME IInv, NEW i \in Items, Live(i), NEW bt \in BatchMap, NEW it \in ItemMap,
           \A k \in Items \ {i} : it[k].state = "queued" => item[k].state = "queued",
           Leave(i, bt, it), UNCHANGED taskFrame
    PROVE  IInv'
  <1> DEFINE hooked == [it EXCEPT ![i].notified = TRUE]
  <1>0. BatchOf[i] \in Batches /\ hooked \in ItemMap
    BY ShapeAssumption DEF ItemMap, ItemRecord
  <1> DEFINE Gone == [task EXCEPT ![i] = NoTask]
             Hooked == [task EXCEPT ![i] = [NoTask EXCEPT !.pc = "hook"]]
  <1>1. /\ item' \in ItemMap /\ batch' \in BatchMap
        /\ row' \in [Batches -> RowRecord] /\ rowItem' \in ItemMap
        /\ \A k \in Items : item'[k].state = it[k].state
        /\ task' = Gone \/ task' = Hooked
        /\ busy' = busy \ {task[i].studio}
    <2>1. CASE /\ task' = Hooked /\ item' = hooked /\ batch' = bt
               /\ WriteThrough(i, it)
      <3>1. \A k \in Items : hooked[k].state = it[k].state
        BY DEF ItemMap, ItemRecord
      <3> QED BY <1>0, <2>1, <3>1, WriteThroughTyped DEF Leave, IInv, Release
    <2>2. CASE task' = Gone /\ MaybeFinish(BatchOf[i], bt, it)
      BY <1>0, <2>2, FinishTyped DEF Leave, IInv, Release
    <2> QED BY <2>1, <2>2 DEF Leave
  <1>2. /\ task' \in [Items -> TaskRecord]
        /\ ~Live(i)'
        /\ \A k \in Items \ {i} : task'[k] = task[k]
    <2>1. task \in [Items -> TaskRecord]
      BY DEF IInv, TypeOK
    <2>2. NoTask \in TaskRecord /\ NoTask.pc \notin BusyPCs
      BY DEF NoTask, TaskRecord, BusyPCs, Errors
    <2>3. /\ [NoTask EXCEPT !.pc = "hook"] \in TaskRecord
          /\ [NoTask EXCEPT !.pc = "hook"].pc \notin BusyPCs
      BY DEF NoTask, TaskRecord, BusyPCs, Errors
    <2> QED BY <1>1, <2>1, <2>2, <2>3 DEF Live
  <1>3. TypeOK'
    BY <1>1, <1>2 DEF IInv, TypeOK, taskFrame, ItemMap, BatchMap
  <1>4. \A k \in Items \ {i} : Live(k)' <=> Live(k)
    BY <1>2 DEF Live
  <1>5. BusyMatchesTasks'
    BY <1>1, <1>2, <1>4 DEF IInv, Excl, BusyMatchesTasks
  <1>6. MachineExclusive'
    BY <1>1 DEF IInv, Excl, MachineExclusive, taskFrame
  <1>7. SnapshotIsIdle'
    <2>1. pass' = pass /\ pass.queued \subseteq Items
      BY DEF taskFrame, IInv, TypeOK, PassRecord
    <2> QED BY <2>1, <1>2, <1>4 DEF IInv, Excl, SnapshotIsIdle
  <1>8. QueuedIsIdle'
    BY <1>1, <1>2, <1>4 DEF IInv, Excl, QueuedIsIdle
  <1> QED BY <1>3, <1>5, <1>6, <1>7, <1>8 DEF IInv, Excl

(* Item maps with the states of the current one. *)
Same == {it \in ItemMap : \A k \in Items : it[k].state = item[k].state}

LEMMA ProceedKeeps ==
    ASSUME IInv, NEW i \in Items, Live(i), NEW t \in TaskRecord,
           t.pc \in BusyPCs, t.studio = task[i].studio, task' = [task EXCEPT ![i] = t],
           item' \in ItemMap, batch' \in BatchMap,
           \A k \in Items : item'[k].state = "queued" => item[k].state = "queued",
           row' \in [Batches -> RowRecord], rowItem' \in ItemMap,
           busy' = busy, UNCHANGED taskFrame
    PROVE  IInv'
  <1>1. task \in [Items -> TaskRecord] /\ pass.queued \subseteq Items
    BY DEF IInv, TypeOK, PassRecord
  <1>2. TypeOK'
    BY <1>1 DEF IInv, TypeOK, taskFrame, ItemMap, BatchMap
  <1>3. \A k \in Items : task'[k].studio = task[k].studio /\ (Live(k)' <=> Live(k))
    BY <1>1 DEF Live
  <1>4. Excl' BY <1>1, <1>3, QuietKeeps DEF Quiet, taskFrame, IInv
  <1> QED BY <1>2, <1>4 DEF IInv

LEMMA PcTyped ==
    ASSUME TypeOK, NEW i \in Items, NEW pc \in BusyPCs
    PROVE  [task[i] EXCEPT !.pc = pc] \in TaskRecord
  BY DEF TypeOK, TaskRecord

LEMMA WaitKeeps ==
    ASSUME IInv, NEW i \in Items, Live(i), NEW it \in Same, NEW pc \in BusyPCs,
           Wait(i, pc, it), UNCHANGED taskFrame
    PROVE  IInv'
  <1> DEFINE t == [task[i] EXCEPT !.pc = pc]
  <1>1. /\ t \in TaskRecord /\ t.pc \in BusyPCs /\ t.studio = task[i].studio
        /\ task' = [task EXCEPT ![i] = t]
    BY PcTyped DEF IInv, TypeOK, TaskRecord, Wait
  <1>2. row' \in [Batches -> RowRecord] /\ rowItem' \in ItemMap
    BY WriteThroughTyped DEF Wait, IInv
  <1>3. /\ item' \in ItemMap /\ batch' \in BatchMap /\ busy' = busy
        /\ \A k \in Items : item'[k].state = "queued" => item[k].state = "queued"
    BY DEF Wait, Same, IInv, TypeOK, BatchMap
  <1> HIDE DEF t
  <1> QED BY <1>1, <1>2, <1>3, ProceedKeeps

LEMMA ExpiredStates ==
    ASSUME NEW it \in ItemMap, NEW b \in Batches, NEW k \in Items,
           ExpiredItems(b, it)[k].state = "queued"
    PROVE  it[k].state = "queued"
  BY DEF ExpiredItems, ItemMap, ItemRecord

LEMMA ExpireAndWaitKeeps ==
    ASSUME IInv, NEW i \in Items, Live(i), NEW it \in Same, NEW pc \in BusyPCs,
           ExpireAndWait(i, pc, it), UNCHANGED taskFrame
    PROVE  IInv'
  <1> DEFINE t == [task[i] EXCEPT !.pc = pc]
  <1>0. BatchOf[i] \in Batches /\ it \in ItemMap /\ batch \in BatchMap
    BY ShapeAssumption DEF Same, IInv, TypeOK, BatchMap
  <1>1. /\ t \in TaskRecord /\ t.pc \in BusyPCs /\ t.studio = task[i].studio
        /\ task' = [task EXCEPT ![i] = t]
    BY PcTyped DEF IInv, TypeOK, TaskRecord, ExpireAndWait
  <1>2. row' \in [Batches -> RowRecord] /\ rowItem' \in ItemMap
    BY WriteThroughTyped DEF ExpireAndWait, IInv
  <1>3. /\ item' \in ItemMap /\ batch' \in BatchMap /\ busy' = busy
        /\ \A k \in Items : item'[k].state = "queued" => item[k].state = "queued"
    BY <1>0, ExpiredTyped, ExpiredStates DEF ExpireAndWait, Same
  <1> HIDE DEF t
  <1> QED BY <1>1, <1>2, <1>3, ProceedKeeps

LEMMA ReconcileKeeps ==
    ASSUME IInv, NEW i \in Items, Live(i), NEW err \in Errors,
           Reconcile(i, err), UNCHANGED taskFrame
    PROVE  IInv'
  <1> DEFINE pc == IF Expires(BatchOf[i]) THEN "recStop" ELSE "recGet"
             t == [task[i] EXCEPT !.pc = pc, !.err = err]
  <1>0. BatchOf[i] \in Batches /\ item \in ItemMap /\ batch \in BatchMap
    BY ShapeAssumption DEF IInv, TypeOK, BatchMap, ItemMap
  <1>1. /\ t \in TaskRecord /\ t.pc \in BusyPCs /\ t.studio = task[i].studio
        /\ task' = [task EXCEPT ![i] = t]
    <2>1. task[i] \in TaskRecord /\ pc \in BusyPCs /\ task \in [Items -> TaskRecord]
      BY DEF IInv, TypeOK, BusyPCs
    <2>2. task' = [task EXCEPT ![i].pc = pc, ![i].err = err]
      BY DEF Reconcile
    <2> HIDE DEF pc
    <2> QED BY <2>1, <2>2 DEF TaskRecord
  <1>2. row' \in [Batches -> RowRecord] /\ rowItem' \in ItemMap
    BY DEF Reconcile, Unsaved, IInv, TypeOK, ItemMap
  <1>3. /\ item' \in ItemMap /\ batch' \in BatchMap /\ busy' = busy
        /\ \A k \in Items : item'[k].state = "queued" => item[k].state = "queued"
    BY <1>0, ExpiredTyped, ExpiredStates DEF Reconcile
  <1> HIDE DEF t, pc
  <1> QED BY <1>1, <1>2, <1>3, ProceedKeeps

(* What the item becomes when its task leaves. *)
LEMMA LeaveStateKeeps ==
    ASSUME IInv, NEW i \in Items, Live(i), NEW it \in ItemMap,
           \A k \in Items \ {i} : it[k].state = item[k].state,
           Leave(i, batch, it), UNCHANGED taskFrame
    PROVE  IInv'
  BY LeaveKeeps DEF IInv, TypeOK, BatchMap

LEMMA SameTyped ==
    ASSUME TypeOK, NEW i \in Items
    PROVE  /\ item \in Same
           /\ \A reported \in Reports :
                 /\ Seen(i, reported) \in Same
                 /\ [Seen(i, reported) EXCEPT ![i].known = TRUE] \in Same
  <1>1. item \in ItemMap /\ Reports \subseteq BOOLEAN
    BY ShapeAssumption DEF TypeOK, ItemMap
  <1>2. ASSUME NEW r \in Reports
        PROVE  Seen(i, r) \in Same /\ [Seen(i, r) EXCEPT ![i].known = TRUE] \in Same
    BY <1>1 DEF Seen, Same, ItemMap, ItemRecord
  <1> QED BY <1>1, <1>2 DEF Same

(* The item maps a failed attempt may leave behind. *)
LEMMA LeftTyped ==
    ASSUME NEW it \in Same, NEW i \in Items, NEW s \in ItemStates, NEW n \in Nat
    PROVE  /\ [it EXCEPT ![i].state = s] \in ItemMap
           /\ [it EXCEPT ![i].state = s, ![i].owned = TRUE] \in ItemMap
           /\ [[it EXCEPT ![i].state = s] EXCEPT ![i].infra = n] \in ItemMap
           /\ [it EXCEPT ![i].state = s, ![i].infra = n] \in ItemMap
           /\ [it EXCEPT ![i].state = s, ![i].tries = n] \in ItemMap
           /\ [it EXCEPT ![i].state = s, ![i].studio = NoStudio, ![i].known = FALSE,
                         ![i].tries = n] \in ItemMap
           /\ it[i].infra + 1 \in Nat /\ it[i].tries \in Nat
           /\ \A k \in Items : it[k].state = item[k].state
  <1>1. it \in [Items -> ItemRecord]
    BY DEF Same, ItemMap
  <1>2. it[i].infra + 1 \in Nat /\ it[i].tries \in Nat
    BY <1>1 DEF ItemRecord
  <1>3. [it EXCEPT ![i].state = s] \in ItemMap
    BY <1>1 DEF ItemMap, ItemRecord
  <1>4. [it EXCEPT ![i].state = s, ![i].owned = TRUE] \in ItemMap
    BY <1>1 DEF ItemMap, ItemRecord
  <1>5. [it EXCEPT ![i].state = s, ![i].infra = n] \in ItemMap
    BY <1>1 DEF ItemMap, ItemRecord
  <1>6. [[it EXCEPT ![i].state = s] EXCEPT ![i].infra = n] \in ItemMap
    BY <1>1 DEF ItemMap, ItemRecord
  <1>7. [it EXCEPT ![i].state = s, ![i].tries = n] \in ItemMap
    BY <1>1 DEF ItemMap, ItemRecord
  <1>8. [it EXCEPT ![i].state = s, ![i].studio = NoStudio, ![i].known = FALSE,
                   ![i].tries = n] \in ItemMap
    <2> DEFINE r == [it[i] EXCEPT !.state = s, !.studio = NoStudio, !.known = FALSE,
                                  !.tries = n]
    <2>1. it[i] \in ItemRecord
      BY <1>1
    <2>2. r \in ItemRecord
      BY <2>1 DEF ItemRecord
    <2>3. [it EXCEPT ![i] = r] \in ItemMap
      <3> HIDE DEF r
      <3> QED BY <1>1, <2>2 DEF ItemMap
    <2> QED BY <2>3
  <1> QED BY <1>2, <1>3, <1>4, <1>5, <1>6, <1>7, <1>8 DEF Same

LEMMA LeaveAsKeeps ==
    ASSUME IInv, NEW i \in Items, Live(i), NEW it \in Same, NEW s \in ItemStates,
           LeaveAs(i, it, s), UNCHANGED taskFrame
    PROVE  IInv'
  <1> DEFINE left == [it EXCEPT ![i].state = s]
  <1>1. left \in ItemMap
    BY StateTyped DEF Same
  <1>2. \A k \in Items \ {i} : left[k].state = item[k].state
    BY DEF Same, ItemMap
  <1> QED BY <1>1, <1>2, LeaveStateKeeps DEF LeaveAs

LEMMA LeaveSameKeeps ==
    ASSUME IInv, NEW i \in Items, Live(i), NEW it \in Same,
           Leave(i, batch, it), UNCHANGED taskFrame
    PROVE  IInv'
  BY LeaveStateKeeps DEF Same

LEMMA ClassifyKeeps ==
    ASSUME IInv, NEW i \in Items, Live(i), NEW it \in Same, NEW err,
           Classify(i, it, err), UNCHANGED taskFrame
    PROVE  IInv'
  <1> DEFINE again == [it EXCEPT ![i].state = "queued"]
             infra == it[i].infra + 1
             uncertain == [it EXCEPT ![i].state = "uncertain", ![i].owned = TRUE]
             retried == [again EXCEPT ![i].infra = infra]
             failed == [it EXCEPT ![i].state = "error", ![i].infra = infra]
  <1>0. {"queued", "uncertain", "error"} \subseteq ItemStates /\ "capacity" \in BusyPCs
    BY DEF ItemStates, TerminalStates, BusyPCs
  <1>1. ASSUME NEW left \in {again, uncertain, retried, failed}
        PROVE  left \in ItemMap /\ \A k \in Items \ {i} : left[k].state = item[k].state
    <2>1. left \in ItemMap
      <3>1. infra \in Nat
        BY LeftTyped, <1>0
      <3>2. again \in ItemMap /\ uncertain \in ItemMap
        BY <1>0, <3>1, LeftTyped
      <3>3. retried \in ItemMap
        BY <1>0, <3>1, LeftTyped
      <3>4. failed \in ItemMap
        BY <1>0, <3>1, LeftTyped
      <3> QED BY <3>2, <3>3, <3>4
    <2>2. \A k \in Items \ {i} : left[k] = it[k]
      <3>1. it \in [Items -> ItemRecord]
        BY DEF Same, ItemMap
      <3>2. \A k \in Items \ {i} : again[k] = it[k] /\ uncertain[k] = it[k]
        BY <3>1
      <3>3. \A k \in Items \ {i} : retried[k] = it[k] /\ failed[k] = it[k]
        BY <3>1
      <3> QED BY <3>2, <3>3
    <2> QED BY <2>1, <2>2 DEF Same
  <1>2. CASE Leave(i, batch, uncertain)
    BY <1>1, <1>2, LeaveStateKeeps
  <1>3. CASE Wait(i, "capacity", it)
    BY <1>0, <1>3, WaitKeeps
  <1>4. CASE Leave(i, batch, retried)
    BY <1>1, <1>4, LeaveStateKeeps
  <1>5. CASE Leave(i, batch, failed)
    BY <1>1, <1>5, LeaveStateKeeps
  <1>6. CASE Leave(i, batch, again)
    BY <1>1, <1>6, LeaveStateKeeps
  <1>7. CASE LeaveAs(i, it, "error")
    BY <1>0, <1>7, LeaveAsKeeps
  <1> QED BY <1>2, <1>3, <1>4, <1>5, <1>6, <1>7 DEF Classify

LEMMA ClassifyUnlessOwnedKeeps ==
    ASSUME IInv, NEW i \in Items, Live(i), NEW it \in Same, NEW err,
           ClassifyUnlessOwned(i, it, err), UNCHANGED taskFrame
    PROVE  IInv'
  BY ClassifyKeeps, LeaveSameKeeps DEF ClassifyUnlessOwned

LEMMA ExceptKeeps ==
    ASSUME IInv, NEW i \in Items, Live(i), NEW it \in Same, NEW err \in Errors,
           Except(i, it, err), UNCHANGED taskFrame
    PROVE  IInv'
  <1>1. "cancelled" \in ItemStates
    BY DEF ItemStates, TerminalStates
  <1> QED BY <1>1, LeaveSameKeeps, LeaveAsKeeps, ReconcileKeeps, ClassifyKeeps DEF Except

LEMMA SendRequestKeeps ==
    ASSUME IInv, NEW i \in Items, Live(i), SendRequest(i), UNCHANGED taskFrame
    PROVE  IInv'
  <1> DEFINE back == [item EXCEPT ![i].state = "queued", ![i].studio = NoStudio,
                                  ![i].known = FALSE, ![i].tries = Pred(@)]
  <1>1. /\ item \in Same /\ "queued" \in ItemStates /\ "error" \in ItemStates
        /\ "post" \in BusyPCs
    BY SameTyped DEF IInv, ItemStates, TerminalStates, BusyPCs
  <1>2. Pred(item[i].tries) \in Nat
    BY <1>1, LeftTyped, PredNat
  <1>3. back \in ItemMap
    BY <1>1, <1>2, LeftTyped
  <1>4. \A k \in Items \ {i} : back[k].state = item[k].state
    BY <1>1 DEF Same, ItemMap
  <1> QED BY <1>1, <1>3, <1>4, LeaveStateKeeps, LeaveAsKeeps, WaitKeeps DEF SendRequest

LEMMA SucceedKeeps ==
    ASSUME IInv, NEW i \in Items, Live(i), NEW it \in Same, Succeed(i, it),
           UNCHANGED taskFrame
    PROVE  IInv'
  <1>1. "done" \in ItemStates /\ "adopt" \in BusyPCs /\ "stop" \in BusyPCs
    BY DEF ItemStates, TerminalStates, BusyPCs
  <1> QED BY <1>1, ExpireAndWaitKeeps, WaitKeeps, LeaveAsKeeps DEF Succeed

LEMMA AnswerKeeps ==
    ASSUME IInv, NEW i \in Items, Live(i), NEW sleep \in BusyPCs, Answer(i, sleep),
           UNCHANGED taskFrame
    PROVE  IInv'
  BY SameTyped, WaitKeeps, SucceedKeeps DEF Answer, IInv

-----------------------------------------------------------------------------
(* The steps of a task.                                                     *)

LEMMA StartKeeps ==
    ASSUME IInv, NEW i \in Items, TaskStart(i)
    PROVE  IInv'
  <1> DEFINE b == BatchOf[i]
  <1>1. Live(i) /\ "prep" \in BusyPCs /\ item \in Same
    BY SameTyped DEF TaskStart, Live, BusyPCs, IInv
  <1>2. UNCHANGED taskFrame
    BY DEF TaskStart
  <1>3. CASE Leave(i, batch, item)
    BY <1>1, <1>2, <1>3, LeaveSameKeeps
  <1>4. CASE Leave(i, ExpiredBatch(b), ExpiredItems(b, item))
    <2>1. b \in Batches /\ item \in ItemMap /\ batch \in BatchMap
      BY ShapeAssumption DEF IInv, TypeOK, ItemMap, BatchMap
    <2>2. /\ ExpiredBatch(b) \in BatchMap /\ ExpiredItems(b, item) \in ItemMap
          /\ \A k \in Items : ExpiredItems(b, item)[k].state = "queued"
                              => item[k].state = "queued"
      BY <2>1, ExpiredTyped, ExpiredStates
    <2> QED BY <1>1, <1>2, <1>4, <2>2, LeaveKeeps
  <1>5. CASE SendRequest(i)
    BY <1>1, <1>2, <1>5, SendRequestKeeps
  <1>6. CASE Wait(i, "prep", item)
    BY <1>1, <1>2, <1>6, WaitKeeps
  <1> QED BY <1>3, <1>4, <1>5, <1>6 DEF TaskStart

LEMMA RequestKeeps ==
    ASSUME IInv, NEW i \in Items, TaskPrepared(i) \/ TaskAccepted(i) \/ TaskRefused(i)
    PROVE  IInv'
  <1>1. Live(i) /\ item \in Same
    BY SameTyped DEF TaskPrepared, TaskAccepted, TaskRefused, Live, BusyPCs, IInv
  <1>2. UNCHANGED taskFrame
    BY DEF TaskPrepared, TaskAccepted, TaskRefused
  <1>3. CASE TaskPrepared(i)
    BY <1>1, <1>2, <1>3, SendRequestKeeps DEF TaskPrepared
  <1>4. CASE TaskAccepted(i)
    <2>1. PICK reported \in Reports :
            ExpireAndWait(i, IF Revoked(BatchOf[i]) THEN "stop" ELSE "poll",
                          [Seen(i, reported) EXCEPT ![i].known = TRUE])
      BY <1>4 DEF TaskAccepted
    <2>2. [Seen(i, reported) EXCEPT ![i].known = TRUE] \in Same
      BY SameTyped DEF IInv
    <2>3. (IF Revoked(BatchOf[i]) THEN "stop" ELSE "poll") \in BusyPCs
      BY DEF BusyPCs
    <2> QED BY <1>1, <1>2, <2>1, <2>2, <2>3, ExpireAndWaitKeeps
  <1>5. CASE TaskRefused(i)
    <2>1. {"transport", "retry", "fatal", "capacity"} \subseteq Errors /\ "error" \in ItemStates
      BY DEF Errors, ItemStates, TerminalStates
    <2> QED BY <1>1, <1>2, <1>5, <2>1, ExceptKeeps, LeaveAsKeeps DEF TaskRefused
  <1> QED BY <1>3, <1>4, <1>5

LEMMA PollingKeeps ==
    ASSUME IInv, NEW i \in Items,
           TaskPoll(i) \/ TaskStatus(i) \/ TaskAdopt(i) \/ TaskStopped(i)
    PROVE  IInv'
  <1>1. Live(i) /\ item \in Same
    BY SameTyped DEF TaskPoll, TaskStatus, TaskAdopt, TaskStopped, Live, BusyPCs, IInv
  <1>2. UNCHANGED taskFrame
    BY DEF TaskPoll, TaskStatus, TaskAdopt, TaskStopped
  <1>3. "done" \in ItemStates /\ "cancelled" \in ItemStates
    BY DEF ItemStates, TerminalStates
  <1>4. CASE TaskPoll(i)
    <2>1. (IF Revoked(BatchOf[i]) THEN "stop" ELSE "get") \in BusyPCs
      BY DEF BusyPCs
    <2> QED BY <1>1, <1>2, <1>4, <2>1, LeaveSameKeeps, ExpireAndWaitKeeps DEF TaskPoll
  <1>5. CASE TaskStatus(i)
    <2>1. {"transport", "retry", "fatal"} \subseteq Errors /\ WorkerErrors \subseteq Errors
          /\ "poll" \in BusyPCs
      BY DEF Errors, WorkerErrors, BusyPCs
    <2>2. \A reported \in Reports : Seen(i, reported) \in Same
      BY SameTyped DEF IInv
    <2> QED BY <1>1, <1>2, <1>5, <2>1, <2>2, ExceptKeeps, LeaveSameKeeps, AnswerKeeps
            DEF TaskStatus
  <1>6. CASE TaskAdopt(i)
    BY <1>1, <1>2, <1>3, <1>6, LeaveSameKeeps, LeaveAsKeeps DEF TaskAdopt
  <1>7. CASE TaskStopped(i)
    BY <1>1, <1>2, <1>3, <1>7, LeaveAsKeeps DEF TaskStopped
  <1> QED BY <1>4, <1>5, <1>6, <1>7

LEMMA RecoverKeeps ==
    ASSUME IInv, NEW i \in Items,
           RecoverStatus(i) \/ RecoverGiveUp(i) \/ RecoverAgain(i) \/ TaskCapacity(i)
    PROVE  IInv'
  <1>1. Live(i) /\ item \in Same /\ "recSleep" \in BusyPCs
    BY SameTyped
       DEF RecoverStatus, RecoverGiveUp, RecoverAgain, TaskCapacity, Live, BusyPCs, IInv
  <1>2. UNCHANGED taskFrame
    BY DEF RecoverStatus, RecoverGiveUp, RecoverAgain, TaskCapacity
  <1>3. task[i].err \in Errors
    BY DEF IInv, TypeOK, TaskRecord
  <1>4. CASE RecoverStatus(i)
    <2>1. \A reported \in Reports : Seen(i, reported) \in Same
      BY SameTyped DEF IInv
    <2> QED BY <1>1, <1>2, <1>4, <2>1, WaitKeeps, ClassifyUnlessOwnedKeeps, AnswerKeeps,
               ClassifyKeeps DEF RecoverStatus
  <1>5. CASE RecoverGiveUp(i)
    BY <1>1, <1>2, <1>5, ClassifyUnlessOwnedKeeps DEF RecoverGiveUp
  <1>6. CASE RecoverAgain(i)
    BY <1>1, <1>2, <1>3, <1>6, ReconcileKeeps DEF RecoverAgain
  <1>7. CASE TaskCapacity(i)
    <2> DEFINE back == [item EXCEPT ![i].state = "queued", ![i].tries = Pred(@)]
    <2>1. Pred(item[i].tries) \in Nat /\ "queued" \in ItemStates
      BY <1>1, LeftTyped, PredNat DEF ItemStates
    <2>2. back \in ItemMap
      BY <1>1, <2>1, LeftTyped
    <2>3. \A k \in Items \ {i} : back[k].state = item[k].state
      BY <1>1 DEF Same, ItemMap
    <2>4. Leave(i, batch, back)
      BY <1>7 DEF TaskCapacity
    <2> HIDE DEF back
    <2> QED BY <1>1, <1>2, <2>2, <2>3, <2>4, LeaveStateKeeps
  <1> QED BY <1>4, <1>5, <1>6, <1>7

LEMMA NotifiedKeeps ==
    ASSUME IInv, NEW i \in Items, TaskNotified(i)
    PROVE  IInv'
  <1>1. /\ BatchOf[i] \in Batches /\ item \in ItemMap /\ batch \in BatchMap
        /\ task \in [Items -> TaskRecord] /\ pass.queued \subseteq Items
    BY ShapeAssumption DEF IInv, TypeOK, ItemMap, BatchMap, PassRecord
  <1>2. /\ batch' \in BatchMap /\ item' = item
        /\ row' \in [Batches -> RowRecord] /\ rowItem' \in ItemMap
    BY <1>1, FinishTyped DEF TaskNotified, IInv
  <1>3. NoTask \in TaskRecord /\ NoTask.pc \notin BusyPCs /\ "hook" \notin BusyPCs
    BY DEF NoTask, TaskRecord, BusyPCs, Errors
  <1>4. task' = [task EXCEPT ![i] = NoTask] /\ ~Live(i) /\ busy' = busy /\ UNCHANGED taskFrame
    BY <1>3 DEF TaskNotified, Live
  <1>5. TypeOK'
    <2>1. task' \in [Items -> TaskRecord]
      BY <1>1, <1>3, <1>4
    <2> QED BY <1>1, <1>2, <1>4, <2>1 DEF IInv, TypeOK, taskFrame, ItemMap, BatchMap
  <1>6. \A k \in Items : (Live(k)' <=> Live(k)) /\ (Live(k) => task'[k].studio = task[k].studio)
    BY <1>1, <1>3, <1>4 DEF Live
  <1>7. Excl'
    <2>1. Quiet
      BY <1>2, <1>4, <1>6 DEF Quiet, taskFrame
    <2> QED BY <1>1, <1>4, <2>1, QuietKeeps DEF taskFrame, IInv
  <1> QED BY <1>5, <1>7 DEF IInv

LEMMA TaskStepKeeps ==
    ASSUME IInv, NEW i \in Items, TaskStep(i)
    PROVE  IInv'
  BY StartKeeps, RequestKeeps, PollingKeeps, RecoverKeeps, NotifiedKeeps DEF TaskStep

-----------------------------------------------------------------------------
(* The steps of the scheduler.                                              *)

LEMMA OfferedPass ==
    ASSUME NEW b \in Batches \cup {NoBatch}, NEW queued \in SUBSET Items,
           NEW eligible \in SUBSET Studios, OfferNext(b, queued, eligible)
    PROVE  /\ pass' \in PassRecord
           /\ pass'.queued \subseteq queued
           /\ pass' # NoPass => pass'.item \in pass'.queued /\ pass'.studio \in Studios
  BY DEF OfferNext, Offer, NoPass, PassRecord

LEMMA PassKeeps ==
    ASSUME IInv, UNCHANGED << batch, item, row, rowItem, lease, busy, ext, maint,
                              task, job, cancelling, recovery, restarts >>,
           NEW b \in Batches \cup {NoBatch}, NEW queued \in SUBSET Items,
           NEW eligible \in SUBSET Studios, OfferNext(b, queued, eligible),
           \A i \in queued : ~Live(i)
    PROVE  IInv'
  <1>1. TypeOK'
    BY OfferedPass DEF IInv, TypeOK
  <1>2. SnapshotIsIdle'
    BY OfferedPass DEF SnapshotIsIdle, Live
  <1>3. BusyMatchesTasks' /\ MachineExclusive' /\ QueuedIsIdle'
    BY DEF IInv, Excl, BusyMatchesTasks, MachineExclusive, QueuedIsIdle, Live
  <1> QED BY <1>1, <1>2, <1>3 DEF IInv, Excl

LEMMA AssignKeeps ==
    ASSUME IInv, DispatchAssign
    PROVE  IInv'
  <1>0. PICK i \in Items, s \in Studios : i = pass.item /\ s = pass.studio
    BY DEF DispatchAssign, IInv, Excl, SnapshotIsIdle, TypeOK, PassRecord
  <1> DEFINE start == [NoTask EXCEPT !.pc = "start", !.studio = s]
  <1>1. /\ ~Live(i) /\ i \in pass.queued
        /\ pass.queued \subseteq Items /\ pass.eligible \subseteq Studios
        /\ pass.batch \in Batches \cup {NoBatch}
        /\ task \in [Items -> TaskRecord] /\ item \in [Items -> ItemRecord]
        /\ busy \subseteq Studios
    BY <1>0 DEF DispatchAssign, IInv, Excl, SnapshotIsIdle, TypeOK, PassRecord
  <1>2. start \in TaskRecord /\ start.pc \in BusyPCs /\ start.studio = s
    BY <1>1 DEF NoTask, TaskRecord, BusyPCs, Errors
  <1>3. /\ task' = [task EXCEPT ![i] = start] /\ busy' = busy \cup {s}
        /\ MachineFree(s)
        /\ UNCHANGED << batch, row, rowItem, lease, ext, maint, job,
                        cancelling, recovery, restarts >>
    BY <1>0 DEF DispatchAssign
  <1>4. Live(i)' /\ \A k \in Items \ {i} : task'[k] = task[k] /\ (Live(k)' <=> Live(k))
    BY <1>1, <1>2, <1>3 DEF Live
  <1>5. s \notin busy /\ \A t \in busy : MachineOf[t] # MachineOf[s]
    BY <1>3 DEF MachineFree, BusyMachines
  <1>6. /\ item' \in [Items -> ItemRecord]
        /\ item'[i].state = "running" /\ \A k \in Items \ {i} : item'[k] = item[k]
    <2>1. "running" \in ItemStates /\ item[i].tries + 1 \in Nat
      BY <1>1 DEF ItemStates, ItemRecord
    <2>2. item' = [item EXCEPT ![i].state = "running", ![i].studio = s,
                               ![i].known = FALSE, ![i].tries = @ + 1]
      BY <1>0 DEF DispatchAssign
    <2>3. item' \in [Items -> ItemRecord]
      BY <1>1, <2>1, <2>2 DEF ItemRecord
    <2>4. item'[i].state = "running"
      BY <1>1, <2>2 DEF ItemRecord
    <2> QED BY <1>1, <2>2, <2>3, <2>4
  <1>7. /\ pass' \in PassRecord /\ pass'.queued \subseteq pass.queued \ {i}
        /\ pass' # NoPass => pass'.item \in pass'.queued /\ pass'.studio \in Studios
    <2>1. OfferNext(pass.batch, pass.queued \ {i}, pass.eligible)
      BY <1>0 DEF DispatchAssign, Rest
    <2>2. pass.queued \ {i} \in SUBSET Items
      BY <1>1
    <2> QED BY <1>1, <2>1, <2>2, OfferedPass
  <1> HIDE DEF start
  <1>8. TypeOK'
    <2>1. task' \in [Items -> TaskRecord] /\ busy' \subseteq Studios
      BY <1>1, <1>2, <1>3
    <2> QED BY <1>3, <1>6, <1>7, <2>1 DEF IInv, TypeOK
  <1>9. BusyMatchesTasks'
    <2>1. /\ task'[i].studio = s
          /\ \A k \in Items \ {i} : Live(k) => task[k].studio # s
      BY <1>1, <1>2, <1>3, <1>5 DEF IInv, Excl, BusyMatchesTasks
    <2>2. busy' = {task'[k].studio : k \in {n \in Items : Live(n)'}}
      <3>1. {n \in Items : Live(n)'} = {n \in Items : Live(n)} \cup {i}
        BY <1>4
      <3>2. \A n \in {k \in Items : Live(k)} : task'[n].studio = task[n].studio
        BY <1>1, <1>4
      <3> QED BY <3>1, <3>2, <1>1, <1>3, <1>4, <2>1 DEF IInv, Excl, BusyMatchesTasks
    <2>3. \A k, n \in Items :
             Live(k)' /\ Live(n)' /\ task'[k].studio = task'[n].studio => k = n
      BY <1>1, <1>4, <2>1 DEF IInv, Excl, BusyMatchesTasks
    <2> QED BY <2>2, <2>3 DEF BusyMatchesTasks
  <1>10. MachineExclusive'
    BY <1>3, <1>5 DEF IInv, Excl, MachineExclusive, MachineFree, BusyMachines
  <1>11. SnapshotIsIdle'
    BY <1>1, <1>4, <1>7 DEF IInv, Excl, SnapshotIsIdle
  <1>12. QueuedIsIdle'
    BY <1>4, <1>6 DEF IInv, Excl, QueuedIsIdle
  <1> QED BY <1>8, <1>9, <1>10, <1>11, <1>12 DEF IInv, Excl

LEMMA ScheduleKeeps ==
    ASSUME IInv, Schedule
    PROVE  IInv'
  <1>0. /\ pass.queued \subseteq Items /\ pass.eligible \subseteq Studios
        /\ pass.batch \in Batches \cup {NoBatch} /\ item \in ItemMap /\ batch \in BatchMap
    BY DEF IInv, TypeOK, PassRecord, ItemMap, BatchMap
  <1>1. ASSUME NEW b \in Batches, DispatchExpire(b)
        PROVE  IInv'
    <2>1. item' \in ItemMap /\ batch' \in BatchMap
      BY <1>0, <1>1, ExpiredTyped DEF DispatchExpire
    <2>2. row' \in [Batches -> RowRecord] /\ rowItem' \in ItemMap
      BY <1>1, <2>1, SaveTyped DEF DispatchExpire, IInv
    <2>3. TypeOK'
      BY <1>1, <2>1, <2>2 DEF DispatchExpire, IInv, TypeOK, ItemMap, BatchMap
    <2>4. \A k \in Items : item'[k].state = "queued" => item[k].state = "queued"
      BY <1>0, <1>1, ExpiredStates DEF DispatchExpire
    <2>5. Quiet /\ ext' = ext
      BY <1>1, <2>4 DEF DispatchExpire, Quiet, Live
    <2> QED BY <1>0, <2>3, <2>5, QuietKeeps DEF IInv
  <1>2. ASSUME NEW b \in Batches, DispatchLook(b)
        PROVE  IInv'
    <2>1. PICK due \in SUBSET QueuedItems(b) : Offer(b, due, EligibleStudios(b))
      BY <1>2 DEF DispatchLook
    <2>2. due \in SUBSET Items /\ EligibleStudios(b) \in SUBSET Studios
      BY ShapeAssumption DEF QueuedItems, ItemsOf, EligibleStudios
    <2>3. \A i \in due : ~Live(i)
      BY DEF IInv, Excl, QueuedIsIdle, QueuedItems, ItemsOf
    <2>4. OfferNext(b, due, EligibleStudios(b))
      BY <2>1 DEF OfferNext
    <2>5. UNCHANGED << batch, item, row, rowItem, lease, busy, ext, maint,
                       task, job, cancelling, recovery, restarts >>
      BY <1>2 DEF DispatchLook
    <2> QED BY <2>2, <2>3, <2>4, <2>5, PassKeeps
  <1>3. CASE DispatchPass
    <2>1. \A i \in pass.queued : ~Live(i)
      BY DEF IInv, Excl, SnapshotIsIdle
    <2> QED BY <1>0, <1>3, <2>1, PassKeeps DEF DispatchPass
  <1> QED BY <1>1, <1>2, <1>3, AssignKeeps DEF Schedule

-----------------------------------------------------------------------------
(* The steps of the workers, the operator, recovery and the process itself. *)

(* A step that leaves every task and the scheduler alone. *)
LEMMA AsideKeeps ==
    ASSUME IInv, TypeOK', UNCHANGED << busy, pass, task >>, ext' \subseteq ext,
           \A k \in Items : item'[k].state = "queued" => item[k].state = "queued"
    PROVE  IInv'
  <1>1. Quiet /\ pass.queued \subseteq Items
    BY DEF Quiet, Live, IInv, TypeOK, PassRecord
  <1> QED BY <1>1, QuietKeeps DEF IInv

LEMMA WorkerKeeps ==
    ASSUME IInv, Worker
    PROVE  IInv'
  <1>0. /\ job \in [Items -> [Studios -> JobStates]] /\ task \in [Items -> TaskRecord]
        /\ pass.queued \subseteq Items
    BY DEF IInv, TypeOK, PassRecord
  <1>1. ASSUME NEW i \in Items, WorkerAccepts(i)
        PROVE  IInv'
    <2> DEFINE s == task[i].studio
               state == IF IsVoice(i) /\ job[i][s] \in {"running", "done", "other"}
                        THEN job[i][s] ELSE "running"
    <2>1. /\ job' = [job EXCEPT ![i][s] = state]
          /\ task' = [task EXCEPT ![i].sent = TRUE]
          /\ UNCHANGED << batch, item, row, rowItem, lease, busy, ext, maint,
                          pass, cancelling, recovery, restarts >>
      BY <1>1 DEF WorkerAccepts
    <2>2. state \in JobStates
      BY DEF JobStates
    <2> HIDE DEF state
    <2>3. job' \in [Items -> [Studios -> JobStates]]
      BY <1>0, <2>1, <2>2
    <2>4. task' \in [Items -> TaskRecord]
      BY <1>0, <2>1 DEF TaskRecord
    <2>5. TypeOK'
      BY <2>1, <2>3, <2>4 DEF IInv, TypeOK
    <2>6. \A k \in Items : task'[k].studio = task[k].studio /\ task'[k].pc = task[k].pc
      BY <1>0, <2>1 DEF TaskRecord
    <2>7. Quiet
      BY <2>1, <2>6 DEF Quiet, Live
    <2> QED BY <1>0, <2>1, <2>5, <2>7, QuietKeeps DEF IInv
  <1>2. ASSUME NEW i \in Items, NEW s \in Studios, WorkerEnds(i, s) \/ WorkerForgets(i, s)
        PROVE  IInv'
    <2>1. PICK end \in JobStates : job' = [job EXCEPT ![i][s] = end]
      BY <1>2, ShapeAssumption DEF WorkerEnds, WorkerForgets, JobStates
    <2>2. job' \in [Items -> [Studios -> JobStates]]
      BY <1>0, <2>1
    <2>3. UNCHANGED << batch, item, row, rowItem, lease, busy, ext, maint,
                       pass, task, cancelling, recovery, restarts >>
      BY <1>2 DEF WorkerEnds, WorkerForgets
    <2>4. TypeOK'
      BY <2>2, <2>3 DEF IInv, TypeOK
    <2> QED BY <2>3, <2>4, AsideKeeps
  <1> QED BY <1>1, <1>2 DEF Worker

LEMMA BatchRequestKeeps ==
    ASSUME IInv, NEW b \in Batches,
           SubmitBatch(b) \/ LeaseExpires(b) \/ CancelBatch(b) \/ CancelReturns(b)
             \/ ClearFinished(b)
    PROVE  IInv'
  <1>0. /\ item \in ItemMap /\ batch \in BatchMap /\ rowItem \in ItemMap
        /\ row \in [Batches -> RowRecord] /\ "cancelled" \in ItemStates
        /\ lease \in [Batches -> {"none", "live", "expired"}]
    BY DEF IInv, TypeOK, ItemMap, BatchMap, ItemStates, TerminalStates
  <1>1. CASE SubmitBatch(b)
    <2>1. batch' \in BatchMap /\ lease' \in [Batches -> {"none", "live", "expired"}]
      BY <1>0, <1>1 DEF SubmitBatch, BatchMap, BatchRecord
    <2>2. row' \in [Batches -> RowRecord] /\ rowItem' \in ItemMap
      BY <1>0, <1>1, <2>1, SaveTyped DEF SubmitBatch, IInv
    <2>3. TypeOK'
      BY <1>1, <2>1, <2>2 DEF SubmitBatch, IInv, TypeOK, ItemMap, BatchMap
    <2> QED BY <1>1, <2>3, AsideKeeps DEF SubmitBatch
  <1>2. CASE LeaseExpires(b)
    <2>1. TypeOK'
      BY <1>0, <1>2 DEF LeaseExpires, IInv, TypeOK
    <2> QED BY <1>2, <2>1, AsideKeeps DEF LeaseExpires
  <1>3. CASE CancelBatch(b)
    <2>1. batch' \in BatchMap /\ item' \in ItemMap
      <3>1. batch' \in BatchMap
        BY <1>0, <1>3 DEF CancelBatch, BatchMap, BatchRecord
      <3>2. \A i \in Items : [item[i] EXCEPT !.state = "cancelled"] \in ItemRecord
        BY <1>0 DEF ItemMap, ItemRecord
      <3> QED BY <1>0, <1>3, <3>1, <3>2 DEF CancelBatch, ItemMap
    <2>2. row' \in [Batches -> RowRecord] /\ rowItem' \in ItemMap
      BY <1>3, <2>1, SaveTyped DEF CancelBatch, IInv
    <2>3. TypeOK'
      BY <1>3, <2>1, <2>2 DEF CancelBatch, IInv, TypeOK, ItemMap, BatchMap
    <2>4. \A k \in Items : item'[k].state = "queued" => item[k].state = "queued"
      BY <1>0, <1>3 DEF CancelBatch, ItemMap, ItemRecord
    <2> QED BY <1>3, <2>3, <2>4, AsideKeeps DEF CancelBatch
  <1>4. CASE CancelReturns(b)
    <2> DEFINE told == [i \in Items |->
                          IF BatchOf[i] = b /\ item[i].state = "cancelled"
                          THEN [item[i] EXCEPT !.notified = TRUE] ELSE item[i]]
    <2>1. told \in ItemMap /\ \A k \in Items : told[k].state = item[k].state
      BY <1>0 DEF ItemMap, ItemRecord
    <2>2. MaybeFinish(b, batch, told)
      BY <1>4 DEF CancelReturns
    <2> HIDE DEF told
    <2>3. /\ batch' \in BatchMap /\ item' = told
          /\ row' \in [Batches -> RowRecord] /\ rowItem' \in ItemMap
      BY <1>0, <2>1, <2>2, FinishTyped DEF IInv
    <2>4. TypeOK'
      BY <1>4, <2>1, <2>3 DEF CancelReturns, IInv, TypeOK, ItemMap, BatchMap
    <2> QED BY <1>4, <2>1, <2>3, <2>4, AsideKeeps DEF CancelReturns
  <1>5. CASE ClearFinished(b)
    <2>1. NewItem \in ItemRecord /\ NoRow \in RowRecord
      BY DEF NewItem, ItemRecord, ItemStates, NoRow, RowRecord
    <2>2. batch' \in BatchMap /\ row' \in [Batches -> RowRecord] /\ rowItem' \in ItemMap
      BY <1>0, <1>5, <2>1 DEF ClearFinished, BatchMap, BatchRecord, ItemMap
    <2>3. TypeOK'
      BY <1>5, <2>2 DEF ClearFinished, IInv, TypeOK, ItemMap, BatchMap
    <2> QED BY <1>5, <2>3, AsideKeeps DEF ClearFinished
  <1> QED BY <1>1, <1>2, <1>3, <1>4, <1>5

LEMMA OperatorKeeps ==
    ASSUME IInv, Operator
    PROVE  IInv'
  <1>1. ASSUME NEW s \in Studios, Drain(s) \/ Resume(s)
        PROVE  IInv'
    <2>1. TypeOK'
      BY <1>1 DEF Drain, Resume, IInv, TypeOK
    <2> QED BY <1>1, <2>1, AsideKeeps DEF Drain, Resume
  <1>2. ASSUME NEW m \in Machines, ReleaseExternal(m)
        PROVE  IInv'
    <2>1. TypeOK'
      BY <1>2 DEF ReleaseExternal, IInv, TypeOK
    <2> QED BY <1>2, <2>1, AsideKeeps DEF ReleaseExternal
  <1>3. ASSUME NEW m \in Machines, AcquireExternal(m)
        PROVE  IInv'
    <2>1. TypeOK'
      BY <1>3 DEF AcquireExternal, IInv, TypeOK
    <2>2. MachineExclusive'
      BY <1>3 DEF AcquireExternal, BusyMachines, IInv, Excl, MachineExclusive
    <2>3. BusyMatchesTasks' /\ SnapshotIsIdle' /\ QueuedIsIdle'
      BY <1>3 DEF AcquireExternal, IInv, Excl, BusyMatchesTasks, SnapshotIsIdle,
                  QueuedIsIdle, Live
    <2> QED BY <2>1, <2>2, <2>3 DEF IInv, Excl
  <1> QED BY <1>1, <1>2, <1>3, BatchRequestKeeps DEF Operator

LEMMA RecoveryKeeps ==
    ASSUME IInv, Recovery
    PROVE  IInv'
  <1>0. /\ item \in ItemMap /\ batch \in BatchMap /\ rowItem \in ItemMap
        /\ row \in [Batches -> RowRecord] /\ NoRecovery \in RecoveryRecord
        /\ recovery \in [Items -> RecoveryRecord]
        /\ {"uncertain", "error", "cancelled", "done"} \subseteq ItemStates
    BY DEF IInv, TypeOK, ItemMap, BatchMap, ItemStates, TerminalStates, NoRecovery,
           RecoveryRecord
  <1>1. PICK i \in Items : \/ RecoveryClaims(i) \/ RecoveryScans(i)
                           \/ RecoveryReads(i) \/ RecoveryAdopts(i)
    BY DEF Recovery
  <1>2. PICK b \in Batches : b = BatchOf[i]
    BY ShapeAssumption
  <1>3. UNCHANGED recoveryFrame
    BY <1>1 DEF RecoveryClaims, RecoveryScans, RecoveryReads, RecoveryAdopts
  <1>4. recovery' \in [Items -> RecoveryRecord]
    <2>1. ASSUME NEW step \in {"no", "read"}, Recovers(i, step)
          PROVE  recovery' \in [Items -> RecoveryRecord]
      BY <1>0, <2>1 DEF Recovers, RecoveryRecord, ItemMap, ItemRecord
    <2>2. ASSUME recovery' \in { recovery, [recovery EXCEPT ![i] = NoRecovery],
                                 [recovery EXCEPT ![i].step = "adopt"],
                                 [recovery EXCEPT ![i].step = "settle"] }
          PROVE  recovery' \in [Items -> RecoveryRecord]
      BY <1>0, <2>2 DEF RecoveryRecord
    <2>3. CASE RecoveryReads(i)
      BY <2>2, <2>3 DEF RecoveryReads
    <2> QED BY <1>1, <2>1, <2>3 DEF RecoveryClaims, RecoveryScans, RecoveryAdopts
  <1>5. ASSUME NEW s \in ItemStates
        PROVE  /\ Owned(i, s) \in ItemMap /\ Owned(i, s)[i].state = s
               /\ \A k \in Items \ {i} : Owned(i, s)[k] = item[k]
    <2>1. item \in [Items -> ItemRecord]
      BY <1>0 DEF ItemMap
    <2>2. Owned(i, s) \in ItemMap
      BY <1>0, OwnedTyped DEF Owned
    <2>3. Owned(i, s)[i].state = s
      BY <2>1 DEF Owned, ItemRecord
    <2>4. \A k \in Items \ {i} : Owned(i, s)[k] = item[k]
      BY <2>1 DEF Owned
    <2> QED BY <2>2, <2>3, <2>4
  <1>6. Relisted(b) \in BatchMap
    BY <1>0 DEF Relisted, BatchMap, BatchRecord
  <1> DEFINE Good == /\ item' \in ItemMap /\ batch' \in BatchMap
                     /\ row' \in [Batches -> RowRecord] /\ rowItem' \in ItemMap
                     /\ \A k \in Items : item'[k].state = "queued" => item[k].state = "queued"
  <1>7. ASSUME NEW s \in ItemStates, s = "queued" => item[i].state = "queued",
               MaybeFinish(b, Relisted(b), Owned(i, s))
        PROVE  Good
    BY <1>2, <1>5, <1>6, <1>7, FinishTyped DEF IInv
  <1>8. ASSUME UNCHANGED << batch, item >>, Unsaved \/ Save(b, batch, item)
        PROVE  Good
    BY <1>0, <1>2, <1>8, SaveTyped DEF Unsaved, IInv
  <1>9. Good
    <2>1. CASE RecoveryClaims(i)
      <3>1. item' = Owned(i, "uncertain") /\ UNCHANGED batch
            /\ (Save(b, batch, item') \/ Unsaved)
        BY <1>2, <2>1 DEF RecoveryClaims
      <3>2. /\ item' \in ItemMap
            /\ \A k \in Items : item'[k].state = "queued" => item[k].state = "queued"
        BY <1>0, <1>5, <3>1
      <3> QED BY <1>0, <1>2, <3>1, <3>2, SaveTyped DEF Unsaved, IInv
    <2>2. CASE RecoveryScans(i)
      BY <1>8, <2>2 DEF RecoveryScans
    <2>3. CASE RecoveryReads(i)
      <3>1. CASE UNCHANGED << batch, item >> /\ (Unsaved \/ Save(b, batch, item))
        BY <1>8, <3>1
      <3>2. CASE batch' = ExpiredBatch(b) /\ item' = ExpiredItems(b, item) /\ Unsaved
        BY <1>0, <1>2, <3>2, ExpiredTyped, ExpiredStates DEF Unsaved
      <3>3. CASE \E s \in {"error", "cancelled"} : MaybeFinish(b, Relisted(b), Owned(i, s))
        BY <1>0, <1>7, <3>3
      <3> QED BY <1>2, <2>3, <3>1, <3>2, <3>3 DEF RecoveryReads
    <2>4. CASE RecoveryAdopts(i)
      <3>1. item[i].state \in ItemStates
        BY <1>0 DEF ItemMap, ItemRecord
      <3>2. PICK s \in {"done", item[i].state} : MaybeFinish(b, Relisted(b), Owned(i, s))
        BY <1>2, <2>4 DEF RecoveryAdopts
      <3> QED BY <1>0, <1>7, <3>1, <3>2
    <2> QED BY <1>1, <2>1, <2>2, <2>3, <2>4
  <1>10. TypeOK'
    BY <1>3, <1>4, <1>9 DEF recoveryFrame, IInv, TypeOK, ItemMap, BatchMap
  <1> QED BY <1>3, <1>9, <1>10, AsideKeeps DEF recoveryFrame

(* With no task, no lease and an idle scheduler nothing is shared. *)
Idle == busy = {} /\ ext = {} /\ pass = NoPass /\ task = [i \in Items |-> NoTask]

LEMMA IdleExcl == Idle => Excl
  <1> SUFFICES ASSUME Idle PROVE Excl
    OBVIOUS
  <1> USE DEF Idle
  <1>1. \A i \in Items : ~Live(i)
    BY DEF Live, NoTask, BusyPCs
  <1> QED BY <1>1 DEF Excl, BusyMatchesTasks, MachineExclusive, SnapshotIsIdle,
                      QueuedIsIdle, NoPass

LEMMA EmptyTyped ==
    /\ NewItem \in ItemRecord /\ NoRow \in RowRecord /\ NoPass \in PassRecord
    /\ NoTask \in TaskRecord /\ NoRecovery \in RecoveryRecord /\ "none" \in JobStates
  BY DEF NewItem, ItemRecord, ItemStates, NoRow, RowRecord, NoPass, PassRecord,
         NoTask, TaskRecord, Errors, NoRecovery, RecoveryRecord, JobStates

LEMMA RestoredTyped ==
    ASSUME TypeOK
    PROVE  /\ \A i \in Items : RestoredItem(i) \in ItemRecord
           /\ \A b \in Batches : RestoredBatch(b) \in BatchRecord
  <1>0. rowItem \in ItemMap /\ batch \in BatchMap /\ row \in [Batches -> RowRecord]
        /\ BatchOf \in [Items -> Batches]
    BY ShapeAssumption DEF TypeOK, ItemMap, BatchMap
  <1>1. ASSUME NEW i \in Items
        PROVE  RestoredItem(i) \in ItemRecord
    <2>1. rowItem[i] \in ItemRecord /\ ExpiredItems(BatchOf[i], rowItem)[i] \in ItemRecord
      BY <1>0, ExpiredTyped DEF ItemMap
    <2>2. [rowItem[i] EXCEPT !.state = "uncertain", !.owned = TRUE] \in ItemRecord
      BY <2>1 DEF ItemRecord, ItemStates
    <2>3. [rowItem[i] EXCEPT !.state = "queued", !.studio = NoStudio, !.known = FALSE]
            \in ItemRecord
      BY <2>1 DEF ItemRecord, ItemStates
    <2> QED BY <2>1, <2>2, <2>3 DEF RestoredItem
  <1>2. ASSUME NEW b \in Batches
        PROVE  RestoredBatch(b) \in BatchRecord
    BY <1>0 DEF RestoredBatch, BatchRecord, RowRecord, Unfinished, RestoredFenced
  <1> QED BY <1>1, <1>2

LEMMA RestartKeeps ==
    ASSUME IInv, Restart
    PROVE  IInv'
  <1>1. item' \in [Items -> ItemRecord] /\ batch' \in [Batches -> BatchRecord]
    BY RestoredTyped DEF Restart, IInv
  <1>2. rowItem' \in [Items -> ItemRecord] /\ row' \in [Batches -> RowRecord]
    BY <1>1 DEF Restart, IInv, TypeOK, RowRecord, BatchRecord
  <1>3. TypeOK'
    BY <1>1, <1>2, EmptyTyped DEF Restart, IInv, TypeOK
  <1>4. Excl'
    <2>1. Idle'
      BY DEF Restart, Idle
    <2> QED BY <2>1, IdleExcl, PTL
  <1> QED BY <1>3, <1>4 DEF IInv

-----------------------------------------------------------------------------
LEMMA InitInv == Init => IInv
  <1> SUFFICES ASSUME Init PROVE IInv
    OBVIOUS
  <1>1. TypeOK
    BY EmptyTyped DEF Init, TypeOK, BatchRecord
  <1>2. Excl
    BY IdleExcl DEF Init, Idle
  <1> QED BY <1>1, <1>2 DEF IInv

LEMMA NextInv == IInv /\ [Next]_vars => IInv'
  <1> SUFFICES ASSUME IInv, [Next]_vars PROVE IInv'
    OBVIOUS
  <1>1. CASE Next
    BY <1>1, ScheduleKeeps, TaskStepKeeps, WorkerKeeps, OperatorKeeps, RecoveryKeeps,
       RestartKeeps DEF Next
  <1>2. CASE UNCHANGED vars
    <2>1. TypeOK'
      BY <1>2 DEF vars, IInv, TypeOK
    <2> QED BY <1>2, <2>1, AsideKeeps DEF vars
  <1> QED BY <1>1, <1>2

LEMMA InvHolds == Spec => []IInv
  BY InitInv, NextInv, PTL DEF Spec

(* Memory and the ledger rows hold only the values their readers expect.    *)
THEOREM TypeCorrect == Spec => []TypeOK
  <1>1. IInv => TypeOK
    BY DEF IInv
  <1> QED BY <1>1, InvHolds, PTL

(* Whatever the number of Studios on a Mac, two leases never share it, and  *)
(* no broker lease shares it with another queue's.                          *)
THEOREM Exclusion == Spec => []MachineExclusive
  <1>1. IInv => MachineExclusive
    BY DEF IInv, Excl
  <1> QED BY <1>1, InvHolds, PTL

(* The leases are exactly the Studios of running tasks, one task each: no   *)
(* path out of _run_item leaks a Studio or frees another task's.            *)
THEOREM LeasesExact == Spec => []BusyMatchesTasks
  <1>1. IInv => BusyMatchesTasks
    BY DEF IInv, Excl
  <1> QED BY <1>1, InvHolds, PTL

(* The scheduler's stale snapshot never starts a second task for an item.   *)
THEOREM SingleAttempt == Spec => []OneAttemptAtATime
  <1>1. IInv => OneAttemptAtATime
    BY DEF IInv, Excl, SnapshotIsIdle, OneAttemptAtATime
  <1> QED BY <1>1, InvHolds, PTL

-----------------------------------------------------------------------------
(* What holds of one item: of its task's request, of recovery's claim and   *)
(* its reading of the worker's job, of a result, and, when it is not Voice, *)
(* that recovery never owns it, that it runs under its task, and that the   *)
(* ledger has it.                                                           *)

SameJob(r, q) == r.studio = q.studio /\ r.known = q.known /\ r.owned = q.owned
Alike(r, q) == r.state = q.state /\ SameJob(r, q)

Over(i, s) == s \in Studios /\ job[i][s] \in {"done", "gone"}
Ended(i, s) == s \in Studios /\ job[i][s] \in {"done", "gone", "other"}
Failed(i, s) == s \in Studios /\ job[i][s] \in {"error", "gone"}

Attempt(i) ==
    /\ Live(i) => item[i].studio = task[i].studio
    /\ task[i].pc \in {"start", "prep", "post"} => ~item[i].known
    /\ task[i].pc = "prep" => ~IsVoice(i)
    /\ task[i].pc = "adopt" => Ended(i, task[i].studio)
    /\ task[i].pc = "capacity" /\ item[i].known => Failed(i, task[i].studio)
    /\ task[i].pc \in {"recGet", "recSleep", "recStop"} => task[i].err # "capacity"

Taken(i) ==
    /\ item[i].known => item[i].studio \in Studios
    /\ rowItem[i].known => rowItem[i].studio \in Studios
    /\ item[i].state = "uncertain" => item[i].owned
    /\ rowItem[i].state = "uncertain" => rowItem[i].owned
    /\ i \in pass.queued => item[i].state \notin {"running", "uncertain"}
    /\ recovery[i].step # "no" => item[i].owned /\ task[i].pc \notin {"prep", "post"}

(* The item still stands for the very job recovery reads; if not, that job  *)
(* failed, so recovery will not take a result from it.                      *)
Held(i) ==
    /\ item[i].studio = recovery[i].studio /\ item[i].state # "queued"
    /\ i \notin pass.queued /\ task[i].pc \notin {"start", "capacity"}
Reading(i) ==
    /\ recovery[i].step = "read" => Held(i) \/ Failed(i, recovery[i].studio)
    /\ recovery[i].step = "adopt" => Held(i) /\ Over(i, recovery[i].studio)

HasResult(i) == item[i].state = "done" \/ rowItem[i].state = "done"
Holder(r, q) == r.studio = q.studio /\ r.owned = q.owned
Settled(i) ==
    HasResult(i) =>
        /\ item[i].state = "done" \/ (item[i].state = "cancelled" /\ ~Live(i) /\ item[i].owned)
        /\ Ended(i, item[i].studio) /\ (item[i].owned => Over(i, item[i].studio))
        /\ i \notin pass.queued
        /\ Live(i) => item[i].owned /\ task[i].pc \notin {"start", "prep", "post", "capacity"}
        /\ recovery[i].step = "no"
        /\ rowItem[i].state = "done" => Holder(rowItem[i], item[i])

Cancelled(i) == item[i].state = "cancelled" /\ batch[BatchOf[i]].cancelled
Unowned(i) ==
    /\ ~item[i].owned /\ ~rowItem[i].owned
    /\ item[i].state # "uncertain" /\ rowItem[i].state # "uncertain"
    /\ recovery[i].step = "no"
InHand(i) ==
    /\ Live(i) => item[i].state = "running" \/ Cancelled(i)
    /\ item[i].state = "running" => Live(i)
    /\ i \in pass.queued => item[i].state = "queued" \/ Cancelled(i)
OnRecord(i) ==
    /\ batch[BatchOf[i]].at = "listed" /\ ~batch[BatchOf[i]].cancelled
         /\ item[i].state \notin TerminalStates
       => row[BatchOf[i]].kept /\ rowItem[i].state \notin TerminalStates
    /\ ~row[BatchOf[i]].kept => rowItem[i].state = "queued"
    /\ rowItem[i].state = "done" => item[i].state = "done"

ItemInv(i) ==
    /\ Attempt(i) /\ Taken(i) /\ Reading(i) /\ Settled(i)
    /\ ~IsVoice(i) => Unowned(i) /\ InHand(i) /\ OnRecord(i)
WorkInv == IInv /\ \A i \in Items : ItemInv(i)

(* The poll takes a state it has no name for as finished. *)
Adoptable(i, s) == Over(i, s) \/ (Ended(i, s) /\ task[i].pc \in {"get", "adopt"})

(* What the action properties say of one item. *)
ItemStep(i) ==
    /\ item[i].state # "done" /\ item'[i].state = "done" => Adoptable(i, item[i].studio)
    /\ item[i].owned /\ task'[i].pc = "post" => task[i].pc = "post"
    /\ ~IsVoice(i) /\ restarts' = restarts /\ item[i].state = "done"
          => item'[i].state = "done"
    /\ ~IsVoice(i) /\ rowItem[i].state = "done" /\ row'[BatchOf[i]].kept
          => rowItem'[i].state = "done"

-----------------------------------------------------------------------------
(* A step that is not the item's own: at most it cancels the item with its  *)
(* batch, saves or clears its row, ends its worker job, lists it in the     *)
(* snapshot if it is queued, or ends its recovery.                          *)

Fenced(k) == /\ item[k].state \in {"queued", "running"}
             /\ item'[k].state = "cancelled" /\ batch'[BatchOf[k]].cancelled
Saved(k) ==
    LET b == BatchOf[k] IN
    \/ row'[b].kept = row[b].kept /\ rowItem'[k] = rowItem[k]
    \/ row'[b].kept /\ (rowItem'[k] = item'[k] \/ Alike(rowItem'[k], item[k]))
    \/ ~row'[b].kept /\ rowItem'[k] = NewItem /\ batch'[b].at = "gone"
Listed(k) ==
    LET b == BatchOf[k] IN
    /\ batch[b].cancelled => batch'[b].cancelled
    /\ batch'[b].at = "listed" =>
          \/ batch[b].at = "listed" \/ IsVoice(k)
          \/ row'[b].kept /\ rowItem'[k] = item'[k]
JobKept(k) ==
    \A s \in Studios : /\ Over(k, s) => Over(k, s)'
                       /\ Ended(k, s) => Ended(k, s)'
                       /\ Failed(k, s) => Failed(k, s)'
TaskKept(k) ==
    \/ task'[k].pc = task[k].pc /\ task'[k].studio = task[k].studio /\ task'[k].err = task[k].err
    \/ task[k].pc = "hook" /\ task'[k].pc = "none"
Steady(k) ==
    /\ TaskKept(k) /\ JobKept(k) /\ Saved(k) /\ Listed(k)
    /\ SameJob(item'[k], item[k]) /\ (item'[k].state = item[k].state \/ Fenced(k))
    /\ k \in pass'.queued => k \in pass.queued \/ item[k].state = "queued"
    /\ recovery'[k] = recovery[k] \/ recovery'[k].step = "no"

LEMMA SteadyKeeps ==
    ASSUME NEW k \in Items, ItemInv(k), Steady(k)
    PROVE  ItemInv(k)' /\ ItemStep(k)
  <1> USE DEF ItemInv, Steady, TaskKept, SameJob
  <1>0. (Live(k)' <=> Live(k)) /\ (Live(k) => task[k].pc # "hook")
    BY DEF Live, BusyPCs
  <1>1. /\ rowItem'[k].state = "done" => item[k].state = "done" \/ rowItem[k].state = "done"
        /\ item'[k].state = "done" => item[k].state = "done"
    BY DEF Saved, Alike, Fenced, NewItem
  <1>2. Attempt(k)'
    BY <1>0 DEF Attempt, JobKept, Over, Ended, Failed
  <1>3. Taken(k)'
    BY DEF Taken, Saved, Alike, Fenced, NewItem
  <1>4. Reading(k)'
    <2>1. Held(k) /\ recovery'[k] = recovery[k] => Held(k)'
      BY DEF Held, Fenced
    <2> QED BY <2>1 DEF Reading, JobKept, Over, Ended, Failed, Held
  <1>5. Settled(k)'
    <2>1. HasResult(k)' => HasResult(k)
      BY <1>1 DEF HasResult
    <2>2. rowItem'[k].state = "done" =>
             \/ rowItem[k].state = "done" /\ Holder(rowItem'[k], rowItem[k])
             \/ Holder(rowItem'[k], item[k])
      BY DEF Saved, Alike, Holder, SameJob, NewItem
    <2>3. HasResult(k) => item'[k].state = item[k].state /\ item[k].state # "queued"
      BY DEF Settled, Fenced
    <2> QED BY <1>0, <2>1, <2>2, <2>3 DEF Settled, Holder, JobKept, Over, Ended
  <1>6. ASSUME ~IsVoice(k) PROVE (Unowned(k) /\ InHand(k) /\ OnRecord(k))'
    <2>1. Unowned(k)'
      BY <1>6 DEF Unowned, Saved, Alike, Fenced, NewItem
    <2>2. InHand(k)'
      BY <1>6, <1>0 DEF InHand, Cancelled, Fenced, Listed
    <2>3. OnRecord(k)'
      BY <1>6 DEF OnRecord, Saved, Listed, Alike, Fenced, NewItem, TerminalStates
    <2> QED BY <2>1, <2>2, <2>3
  <1>7. ItemStep(k)
    <2>1. ASSUME ~IsVoice(k), rowItem[k].state = "done", row'[BatchOf[k]].kept
          PROVE  rowItem'[k].state = "done"
      BY <2>1 DEF OnRecord, Saved, Alike, Fenced
    <2> QED BY <1>1, <2>1 DEF ItemStep, Fenced
  <1> QED BY <1>2, <1>3, <1>4, <1>5, <1>6, <1>7 DEF IsVoice

-----------------------------------------------------------------------------
(* A step of the item's task: it goes on to another wait, or leaves.        *)

Goes(i) ==
    /\ task'[i].pc \in BusyPCs \ {"start"}
    /\ task'[i].studio = task[i].studio
    /\ item'[i].studio = item[i].studio /\ item'[i].owned = item[i].owned
    /\ item'[i].state = item[i].state \/ Fenced(i)
    /\ task'[i].pc \in {"prep", "post"} => ~item'[i].known /\ ~item[i].owned
    /\ task'[i].pc = "prep" => ~IsVoice(i)
    /\ task'[i].pc = "adopt" => Ended(i, task[i].studio)
    /\ task'[i].pc = "capacity" =>
          ~item[i].owned /\ (item'[i].known => Failed(i, task[i].studio))
    /\ task'[i].pc \in {"recGet", "recSleep", "recStop"} => task'[i].err # "capacity"

(* Nothing of an earlier attempt is left to be lost. *)
Fresh(i) == ~item[i].owned \/ task[i].pc \in {"start", "prep", "post", "capacity"}
Leaves(i) ==
    /\ ~Live(i)'
    /\ item'[i].studio = item[i].studio \/ item'[i].state = "queued"
    /\ item'[i].known => item[i].known /\ item'[i].studio = item[i].studio
    /\ item[i].owned => item'[i].owned
    /\ item'[i].owned => item[i].owned \/ IsVoice(i)
    /\ \/ /\ item'[i].state = item[i].state
          /\ item[i].owned \/ item[i].state \notin {"queued", "running"}
       \/ item'[i].state = "cancelled"
       \/ item'[i].state = "uncertain" /\ Fresh(i) /\ item'[i].owned /\ IsVoice(i)
       \/ item'[i].state \in {"error", "queued"} /\ Fresh(i)
       \/ /\ item'[i].state = "done" /\ ~item[i].owned /\ ~item'[i].owned
          /\ Adoptable(i, task[i].studio)

Framed(i) == /\ Saved(i) /\ Listed(i) /\ batch'[BatchOf[i]].at = batch[BatchOf[i]].at
             /\ pass' = pass /\ job' = job /\ recovery' = recovery /\ restarts' = restarts
Turn(i) == Framed(i) /\ \A k \in Items \ {i} : Steady(k)

LEMMA GoesKeeps ==
    ASSUME IInv, NEW i \in Items, ItemInv(i), Live(i), Framed(i), Goes(i)
    PROVE  ItemInv(i)' /\ ItemStep(i)
  <1> USE DEF ItemInv, Framed, Goes
  <1>0. /\ Live(i)' /\ i \notin pass.queued /\ item[i].studio = task[i].studio
        /\ task[i].studio \in Studios
    BY DEF Live, IInv, Excl, SnapshotIsIdle, BusyMatchesTasks, TypeOK, Attempt
  <1>1. /\ rowItem'[i].state = "done" => item[i].state = "done" \/ rowItem[i].state = "done"
        /\ item'[i].state = "done" => item[i].state = "done"
    BY DEF Saved, Alike, Fenced, NewItem
  <1>2. Attempt(i)'
    BY <1>0 DEF Attempt, Over, Ended, Failed
  <1>3. Taken(i)'
    BY <1>0 DEF Taken, Saved, Alike, SameJob, Fenced, NewItem
  <1>4. Reading(i)'
    <2>1. recovery[i].step \in {"read", "adopt"} /\ Held(i) => Held(i)'
      BY DEF Held, Fenced, Taken
    <2> QED BY <2>1 DEF Reading, Over, Ended, Failed
  <1>5. Settled(i)'
    <2>1. HasResult(i)' => HasResult(i)
      BY <1>1 DEF HasResult
    <2>2. rowItem'[i].state = "done" =>
             \/ rowItem[i].state = "done" /\ Holder(rowItem'[i], rowItem[i])
             \/ Holder(rowItem'[i], item[i])
      BY DEF Saved, Alike, Holder, SameJob, NewItem
    <2>3. HasResult(i) => item'[i].state = item[i].state /\ item[i].state = "done"
      BY DEF Settled, Fenced
    <2> QED BY <1>0, <2>1, <2>2, <2>3 DEF Settled, Holder, Over, Ended
  <1>6. ASSUME ~IsVoice(i) PROVE (Unowned(i) /\ InHand(i) /\ OnRecord(i))'
    <2>1. Unowned(i)'
      BY <1>6 DEF Unowned, Saved, Alike, SameJob, Fenced, NewItem
    <2>2. InHand(i)'
      BY <1>6, <1>0 DEF InHand, Cancelled, Fenced, Listed
    <2>3. OnRecord(i)'
      BY <1>6 DEF OnRecord, Saved, Listed, Alike, Fenced, NewItem, TerminalStates
    <2> QED BY <2>1, <2>2, <2>3
  <1>7. ItemStep(i)
    <2>1. ASSUME ~IsVoice(i), rowItem[i].state = "done", row'[BatchOf[i]].kept
          PROVE  rowItem'[i].state = "done"
      BY <2>1 DEF OnRecord, Saved, Alike, Fenced
    <2> QED BY <1>1, <2>1 DEF ItemStep, Fenced
  <1> QED BY <1>2, <1>3, <1>4, <1>5, <1>6, <1>7 DEF IsVoice

LEMMA LeavesKeeps ==
    ASSUME IInv, NEW i \in Items, ItemInv(i), Live(i), Framed(i), Leaves(i)
    PROVE  ItemInv(i)' /\ ItemStep(i)
  <1> USE DEF ItemInv, Framed
  <1>0. /\ ~Live(i)' /\ i \notin pass.queued /\ item[i].studio = task[i].studio
    BY DEF Leaves, IInv, Excl, SnapshotIsIdle, Attempt
  <1>1. task'[i].pc \notin BusyPCs
    BY <1>0 DEF Live
  <1>2. Attempt(i)'
    BY <1>0, <1>1 DEF Attempt, BusyPCs
  <1>3. Taken(i)'
    BY <1>0, <1>1 DEF Taken, Saved, Alike, SameJob, NewItem, Leaves, BusyPCs
  <1>4. Reading(i)'
    <2>1. ASSUME recovery[i].step \in {"read", "adopt"}, Held(i)
          PROVE  Held(i)'
      <3>1. item[i].owned /\ ~Fresh(i)
        BY <2>1 DEF Taken, Held, Fresh
      <3> QED BY <1>1, <2>1, <3>1 DEF Held, Leaves, BusyPCs
    <2> QED BY <2>1 DEF Reading, Over, Ended, Failed
  <1>5. HasResult(i) => /\ item[i].state = "done" /\ item[i].owned /\ ~Fresh(i)
                        /\ item'[i].state \in {"done", "cancelled"}
                        /\ item'[i].studio = item[i].studio /\ item'[i].owned
    BY DEF Settled, Fresh, Leaves
  <1>6. Settled(i)'
    <2>1. rowItem'[i].state = "done" =>
             \/ rowItem[i].state = "done" /\ Holder(rowItem'[i], rowItem[i])
             \/ item[i].state = "done" /\ Holder(rowItem'[i], item[i])
             \/ item'[i].state = "done" /\ rowItem'[i] = item'[i]
      BY DEF Saved, Alike, Holder, SameJob, NewItem
    <2>2. ASSUME HasResult(i) PROVE Settled(i)'
      BY <1>0, <1>5, <2>1, <2>2 DEF Settled, Holder, Over, Ended, HasResult
    <2>3. ASSUME ~HasResult(i), HasResult(i)' PROVE Settled(i)'
      <3>1. /\ item'[i].state = "done" /\ Adoptable(i, item[i].studio) /\ ~item[i].owned
            /\ item'[i].studio = item[i].studio /\ ~item'[i].owned
        BY <1>0, <2>1, <2>3 DEF HasResult, Leaves
      <3>2. recovery'[i].step = "no"
        BY <3>1 DEF Taken
      <3>3. rowItem'[i].state = "done" => Holder(rowItem'[i], item'[i])
        BY <2>1, <2>3 DEF HasResult, Holder
      <3> QED BY <1>0, <3>1, <3>2, <3>3 DEF Settled, Holder, Adoptable, Over, Ended
    <2> QED BY <2>2, <2>3 DEF Settled
  <1>7. ASSUME ~IsVoice(i) PROVE (Unowned(i) /\ InHand(i) /\ OnRecord(i))'
    <2>1. Unowned(i)'
      BY <1>7 DEF Unowned, Saved, Alike, SameJob, NewItem, Leaves
    <2>2. item'[i].state # "running"
      BY <1>7 DEF Unowned, Leaves
    <2>3. InHand(i)'
      BY <1>0, <2>2 DEF InHand
    <2>4. OnRecord(i)'
      BY <1>7 DEF OnRecord, Saved, Listed, Alike, NewItem, TerminalStates, InHand, Cancelled
    <2> QED BY <2>1, <2>3, <2>4
  <1>8. ItemStep(i)
    <2>1. item[i].state # "done" /\ item'[i].state = "done" => Adoptable(i, item[i].studio)
      BY <1>0 DEF Leaves
    <2>2. task'[i].pc # "post"
      BY <1>1 DEF BusyPCs
    <2>3. ~IsVoice(i) => item[i].state # "done" /\ rowItem[i].state # "done"
      BY DEF InHand, Cancelled, OnRecord
    <2> QED BY <2>1, <2>2, <2>3 DEF ItemStep
  <1> QED BY <1>2, <1>3, <1>4, <1>6, <1>7, <1>8 DEF IsVoice

-----------------------------------------------------------------------------
(* What saving does to one item's row.                                      *)

LEMMA SaveOne ==
    ASSUME TypeOK, NEW b \in Batches, NEW bt, NEW it, Save(b, bt, it), NEW k \in Items
    PROVE  \/ BatchOf[k] = b /\ row'[b].kept /\ rowItem'[k] = it[k]
           \/ /\ BatchOf[k] # b /\ row'[BatchOf[k]] = row[BatchOf[k]]
              /\ rowItem'[k] = rowItem[k]
  <1>1. BatchOf[k] \in Batches /\ row \in [Batches -> RowRecord]
    BY ShapeAssumption DEF TypeOK
  <1>2. rowItem'[k] = IF BatchOf[k] = b THEN it[k] ELSE rowItem[k]
    BY DEF Save, SaveItems
  <1>3. row' = [row EXCEPT ![b] = [kept |-> TRUE, cancelled |-> bt[b].cancelled,
                                   notified |-> bt[b].notified]]
    BY DEF Save, SaveRow
  <1>4. row'[b].kept
    BY <1>1, <1>3
  <1>5. BatchOf[k] # b => row'[BatchOf[k]] = row[BatchOf[k]]
    BY <1>1, <1>3
  <1> QED BY <1>2, <1>4, <1>5

LEMMA SavedNew ==
    ASSUME TypeOK, NEW b \in Batches, NEW bt, NEW it, Save(b, bt, it), NEW k \in Items,
           it[k] = item'[k] \/ Alike(it[k], item[k])
    PROVE  Saved(k)
  BY SaveOne DEF Saved

LEMMA SavedThrough ==
    ASSUME TypeOK, NEW i \in Items, NEW it, WriteThrough(i, it), NEW k \in Items
    PROVE  Saved(k)
  <1> DEFINE shown == [item EXCEPT ![i].started = TRUE]
  <1>1. BatchOf[i] \in Batches /\ item \in [Items -> ItemRecord]
    BY ShapeAssumption DEF TypeOK
  <1>2. Alike(shown[k], item[k])
    BY <1>1 DEF Alike, SameJob, ItemRecord
  <1>3. Save(BatchOf[i], batch, shown) \/ Unsaved
    BY DEF WriteThrough
  <1> HIDE DEF shown
  <1> QED BY <1>1, <1>2, <1>3, SavedNew DEF Unsaved, Saved

(* A batch that only becomes cancelled, or notified. *)
Aging(bt) == \A c \in Batches : /\ bt[c].at = batch[c].at
                                /\ batch[c].cancelled => bt[c].cancelled

LEMMA FinishedAging ==
    ASSUME NEW b \in Batches, NEW bt \in BatchMap, NEW it
    PROVE  \A c \in Batches : /\ Finished(b, bt, it)[c].at = bt[c].at
                              /\ Finished(b, bt, it)[c].cancelled = bt[c].cancelled
  BY DEF Finished, BatchMap, BatchRecord

LEMMA ExpiredOne ==
    ASSUME NEW it \in ItemMap, NEW b \in Batches, batch \in BatchMap, NEW k \in Items
    PROVE  /\ \/ ExpiredItems(b, it)[k] = it[k]
              \/ /\ it[k].state \in {"queued", "running"} /\ BatchOf[k] = b
                 /\ ExpiredItems(b, it)[k].state = "cancelled"
                 /\ SameJob(ExpiredItems(b, it)[k], it[k])
           /\ Aging(ExpiredBatch(b)) /\ ExpiredBatch(b)[b].cancelled
  <1>1. \/ ExpiredItems(b, it)[k] = it[k]
        \/ /\ it[k].state \in {"queued", "running"} /\ BatchOf[k] = b
           /\ ExpiredItems(b, it)[k].state = "cancelled"
           /\ SameJob(ExpiredItems(b, it)[k], it[k])
    <2>1. ExpiredItems(b, it)[k] =
             IF BatchOf[k] = b /\ it[k].state \in {"queued", "running"}
             THEN [it[k] EXCEPT !.state = "cancelled"] ELSE it[k]
      BY DEF ExpiredItems
    <2>2. it[k] \in ItemRecord
      BY DEF ItemMap
    <2> QED BY <2>1, <2>2 DEF SameJob, ItemRecord
  <1>2. Aging(ExpiredBatch(b)) /\ ExpiredBatch(b)[b].cancelled
    BY DEF Aging, ExpiredBatch, BatchMap, BatchRecord
  <1> QED BY <1>1, <1>2

-----------------------------------------------------------------------------
(* What leaving, waiting and fencing do: the other items are steady, and    *)
(* the item is what the step's item map says.                               *)

(* The items `it' differ from the current ones at i only. *)
Only(i, it) == it \in ItemMap /\ \A k \in Items \ {i} : it[k] = item[k]

LEMMA OthersSteady ==
    ASSUME NEW i \in Items, \A k \in Items \ {i} : task'[k] = task[k], UNCHANGED taskFrame,
           \A k \in Items : Saved(k), Aging(batch'),
           \A k \in Items \ {i} : Alike(item'[k], item[k])
                                  \/ (Fenced(k) /\ SameJob(item'[k], item[k]))
    PROVE  Turn(i)
  <1>1. \A k \in Items : Listed(k) /\ BatchOf[k] \in Batches
    BY ShapeAssumption DEF Aging, Listed
  <1>2. \A k \in Items \ {i} : Steady(k)
    BY <1>1 DEF Steady, TaskKept, JobKept, Over, Ended, Failed, taskFrame, Alike
  <1> QED BY <1>1, <1>2 DEF Turn, Framed, taskFrame, Aging

LEMMA LeaveTurn ==
    ASSUME TypeOK, NEW i \in Items, NEW bt \in BatchMap, NEW it \in ItemMap,
           Aging(bt),
           \A k \in Items \ {i} :
              \/ it[k] = item[k]
              \/ /\ item[k].state \in {"queued", "running"} /\ it[k].state = "cancelled"
                 /\ SameJob(it[k], item[k]) /\ bt[BatchOf[k]].cancelled,
           Leave(i, bt, it), UNCHANGED taskFrame
    PROVE  Turn(i) /\ ~Live(i)' /\ Alike(item'[i], it[i])
  <1> DEFINE hooked == [it EXCEPT ![i].notified = TRUE]
             Gone == [task EXCEPT ![i] = NoTask]
             Hooked == [task EXCEPT ![i] = [NoTask EXCEPT !.pc = "hook"]]
  <1>0. BatchOf[i] \in Batches /\ \A k \in Items : BatchOf[k] \in Batches
    BY ShapeAssumption
  <1>1. \/ task' = Hooked /\ item' = hooked /\ batch' = bt /\ WriteThrough(i, it)
        \/ task' = Gone /\ MaybeFinish(BatchOf[i], bt, it)
    BY DEF Leave
  <1>2. ~Live(i)' /\ \A k \in Items \ {i} : task'[k] = task[k]
    <2>1. task \in [Items -> TaskRecord]
      BY DEF TypeOK
    <2>2. NoTask.pc \notin BusyPCs /\ [NoTask EXCEPT !.pc = "hook"].pc \notin BusyPCs
      BY DEF NoTask, BusyPCs
    <2> QED BY <1>1, <2>1, <2>2 DEF Live
  <1>3. \A k \in Items : Alike(item'[k], it[k])
    <2>1. \A k \in Items : Alike(hooked[k], it[k])
      BY DEF ItemMap, ItemRecord, Alike, SameJob
    <2>2. \A k \in Items : Alike(it[k], it[k])
      BY DEF Alike, SameJob
    <2> HIDE DEF hooked
    <2> QED BY <1>1, <2>1, <2>2 DEF MaybeFinish
  <1>4. Aging(batch') /\ \A c \in Batches : bt[c].cancelled => batch'[c].cancelled
    <2>1. CASE batch' = bt
      BY <2>1
    <2>2. CASE MaybeFinish(BatchOf[i], bt, it)
      BY <1>0, <2>2, FinishedAging DEF MaybeFinish, Aging
    <2> QED BY <1>1, <2>1, <2>2
  <1>5. \A k \in Items : Saved(k)
    <2>1. CASE WriteThrough(i, it)
      BY <2>1, SavedThrough
    <2>2. CASE MaybeFinish(BatchOf[i], bt, it)
      BY <1>0, <2>2, SavedNew DEF MaybeFinish
    <2> QED BY <1>1, <2>1, <2>2
  <1>6. \A k \in Items \ {i} : Alike(item'[k], item[k])
                               \/ (Fenced(k) /\ SameJob(item'[k], item[k]))
    BY <1>0, <1>3, <1>4 DEF Alike, Fenced, SameJob
  <1> HIDE DEF hooked, Gone, Hooked
  <1> QED BY <1>2, <1>3, <1>4, <1>5, <1>6, OthersSteady

LEMMA LeaveOwn ==
    ASSUME TypeOK, NEW i \in Items, NEW it, Only(i, it), Leave(i, batch, it),
           UNCHANGED taskFrame
    PROVE  Turn(i) /\ ~Live(i)' /\ Alike(item'[i], it[i])
  <1>1. batch \in BatchMap /\ Aging(batch)
    BY DEF TypeOK, BatchMap, Aging
  <1> QED BY <1>1, LeaveTurn DEF Only

(* A task that waits: where, and on what Studio. *)
Waits(i, pc) == /\ task'[i].pc = pc /\ task'[i].studio = task[i].studio
                /\ \A k \in Items \ {i} : task'[k] = task[k]

LEMMA WaitTurn ==
    ASSUME TypeOK, NEW i \in Items, NEW it, Only(i, it), NEW pc, Wait(i, pc, it),
           UNCHANGED taskFrame
    PROVE  Turn(i) /\ Waits(i, pc) /\ task'[i].err = task[i].err /\ item'[i] = it[i]
  <1>1. Waits(i, pc) /\ task'[i].err = task[i].err
    <2>1. task \in [Items -> TaskRecord]
      BY DEF TypeOK
    <2> QED BY <2>1 DEF Wait, Waits, TaskRecord
  <1>2. \A k \in Items : Saved(k)
    BY SavedThrough DEF Wait
  <1>3. item' = it /\ Aging(batch')
    BY DEF Wait, Aging
  <1>4. \A k \in Items \ {i} : Alike(item'[k], item[k])
                               \/ (Fenced(k) /\ SameJob(item'[k], item[k]))
    BY <1>3 DEF Only, Alike, SameJob
  <1>5. \A k \in Items \ {i} : task'[k] = task[k]
    BY <1>1 DEF Waits
  <1>6. Turn(i)
    BY <1>2, <1>3, <1>4, <1>5, OthersSteady
  <1> QED BY <1>1, <1>3, <1>6

LEMMA FenceTurn ==
    ASSUME TypeOK, NEW i \in Items, NEW it, Only(i, it), NEW pc, Waits(i, pc),
           \A k \in Items : Saved(k), UNCHANGED taskFrame,
           \/ batch' = batch /\ item' = it
           \/ batch' = ExpiredBatch(BatchOf[i]) /\ item' = ExpiredItems(BatchOf[i], it)
    PROVE  /\ Turn(i) /\ SameJob(item'[i], it[i])
           /\ \/ item'[i].state = it[i].state
              \/ /\ it[i].state \in {"queued", "running"} /\ item'[i].state = "cancelled"
                 /\ batch'[BatchOf[i]].cancelled
  <1>0. BatchOf[i] \in Batches /\ batch \in BatchMap /\ it \in ItemMap
    BY ShapeAssumption DEF TypeOK, BatchMap, Only
  <1>1. \A k \in Items \ {i} : task'[k] = task[k]
    BY DEF Waits
  <1>2. CASE batch' = batch /\ item' = it
    <2>1. Aging(batch')
      BY <1>2 DEF Aging
    <2>2. \A k \in Items \ {i} : Alike(item'[k], item[k])
                                 \/ (Fenced(k) /\ SameJob(item'[k], item[k]))
      BY <1>2 DEF Only, Alike, SameJob
    <2>3. Turn(i)
      BY <1>1, <2>1, <2>2, OthersSteady
    <2> QED BY <1>2, <2>3 DEF SameJob
  <1>3. CASE batch' = ExpiredBatch(BatchOf[i]) /\ item' = ExpiredItems(BatchOf[i], it)
    <2>1. \A k \in Items : \/ item'[k] = it[k]
                           \/ /\ it[k].state \in {"queued", "running"}
                              /\ item'[k].state = "cancelled" /\ SameJob(item'[k], it[k])
                              /\ batch'[BatchOf[k]].cancelled
      BY <1>0, <1>3, ExpiredOne
    <2>2. Aging(batch')
      BY <1>0, <1>3, ExpiredOne
    <2>3. \A k \in Items \ {i} : Alike(item'[k], item[k])
                                 \/ (Fenced(k) /\ SameJob(item'[k], item[k]))
      BY <2>1 DEF Only, Alike, SameJob, Fenced
    <2>4. Turn(i)
      BY <1>1, <2>2, <2>3, OthersSteady
    <2> QED BY <2>1, <2>4 DEF SameJob
  <1> QED BY <1>2, <1>3

LEMMA ExpireAndWaitTurn ==
    ASSUME TypeOK, NEW i \in Items, NEW it, Only(i, it), NEW pc,
           ExpireAndWait(i, pc, it), UNCHANGED taskFrame
    PROVE  /\ Turn(i) /\ Waits(i, pc) /\ task'[i].err = task[i].err
           /\ SameJob(item'[i], it[i])
           /\ \/ item'[i].state = it[i].state
              \/ /\ it[i].state \in {"queued", "running"} /\ item'[i].state = "cancelled"
                 /\ batch'[BatchOf[i]].cancelled
  <1>1. Waits(i, pc) /\ task'[i].err = task[i].err
    <2>1. task \in [Items -> TaskRecord]
      BY DEF TypeOK
    <2> QED BY <2>1 DEF ExpireAndWait, Waits, TaskRecord
  <1>2. \A k \in Items : Saved(k)
    BY SavedThrough DEF ExpireAndWait
  <1> QED BY <1>1, <1>2, FenceTurn DEF ExpireAndWait

LEMMA ReconcileGoes ==
    ASSUME WorkInv, NEW i \in Items, NEW err \in Errors, err # "capacity",
           Reconcile(i, err), UNCHANGED taskFrame
    PROVE  Turn(i) /\ Goes(i)
  <1>0. /\ TypeOK /\ Only(i, item) /\ ItemInv(i)
    BY DEF WorkInv, IInv, TypeOK, Only, ItemMap
  <1> DEFINE pc == IF Expires(BatchOf[i]) THEN "recStop" ELSE "recGet"
  <1>1. Waits(i, pc) /\ task'[i].err = err
    <2>1. task \in [Items -> TaskRecord]
      BY <1>0 DEF TypeOK
    <2>2. task' = [task EXCEPT ![i].pc = pc, ![i].err = err]
      BY DEF Reconcile
    <2> HIDE DEF pc
    <2> QED BY <2>1, <2>2 DEF Waits, TaskRecord
  <1>2. \A k \in Items : Saved(k)
    BY DEF Reconcile, Unsaved, Saved
  <1>3. /\ Turn(i) /\ SameJob(item'[i], item[i])
        /\ item'[i].state = item[i].state \/ Fenced(i)
    <2>1. \/ batch' = batch /\ item' = item
          \/ batch' = ExpiredBatch(BatchOf[i]) /\ item' = ExpiredItems(BatchOf[i], item)
      BY DEF Reconcile
    <2> HIDE DEF pc
    <2> QED BY <1>0, <1>1, <1>2, <2>1, FenceTurn DEF Fenced
  <1>4. pc \in {"recStop", "recGet"}
    OBVIOUS
  <1> HIDE DEF pc
  <1> QED BY <1>1, <1>3, <1>4 DEF Goes, Waits, SameJob, BusyPCs

-----------------------------------------------------------------------------
(* What each step of a task is: it goes on, or it leaves.                   *)

Acts(i) == Turn(i) /\ (Goes(i) \/ Leaves(i))
Shown(i) == {it \in ItemMap : Only(i, it) /\ Alike(it[i], item[i])}

LEMMA ShownItems ==
    ASSUME TypeOK, NEW i \in Items
    PROVE  item \in Shown(i) /\ \A r \in Reports : Seen(i, r) \in Shown(i)
  <1>1. item \in [Items -> ItemRecord] /\ Reports \subseteq BOOLEAN
    BY ShapeAssumption DEF TypeOK
  <1>2. ASSUME NEW r \in Reports PROVE Seen(i, r) \in Shown(i)
    BY <1>1 DEF Seen, Shown, Only, ItemMap, ItemRecord, Alike, SameJob
  <1>3. item \in Shown(i)
    BY <1>1 DEF Shown, Only, ItemMap, Alike, SameJob
  <1> QED BY <1>2, <1>3

LEMMA ShownSame == ASSUME NEW i \in Items, NEW it \in Shown(i) PROVE it \in Same
  BY DEF Shown, Only, Alike, Same

LEMMA LeaveAsActs ==
    ASSUME WorkInv, NEW i \in Items, NEW it \in Shown(i), NEW s \in ItemStates,
           LeaveAs(i, it, s), UNCHANGED taskFrame,
           \/ s = "cancelled"
           \/ s = "error" /\ Fresh(i)
           \/ s = "done" /\ ~item[i].owned /\ Adoptable(i, task[i].studio)
    PROVE  Acts(i)
  <1> DEFINE left == [it EXCEPT ![i].state = s]
  <1>1. left \in ItemMap
    BY StateTyped DEF Shown
  <1>2. \A k \in Items \ {i} : left[k] = item[k]
    BY DEF Shown, Only, ItemMap
  <1>3. left[i].state = s /\ SameJob(left[i], item[i])
    BY DEF Shown, Alike, SameJob, ItemMap, ItemRecord
  <1>4. Leave(i, batch, left)
    BY DEF LeaveAs
  <1> HIDE DEF left
  <1>5. Turn(i) /\ ~Live(i)' /\ Alike(item'[i], left[i])
    BY <1>1, <1>2, <1>4, LeaveOwn DEF Only, WorkInv, IInv
  <1> QED BY <1>3, <1>5 DEF Acts, Leaves, Alike, SameJob

LEMMA LeaveSameActs ==
    ASSUME WorkInv, NEW i \in Items, NEW it \in Shown(i), item[i].owned,
           Leave(i, batch, it), UNCHANGED taskFrame
    PROVE  Acts(i)
  <1>1. Turn(i) /\ ~Live(i)' /\ Alike(item'[i], it[i])
    BY LeaveOwn DEF Shown, WorkInv, IInv
  <1> QED BY <1>1 DEF Acts, Leaves, Alike, SameJob, Shown

(* A classified error is recovery's to overwrite, so nothing is owned.      *)
LEMMA ClassifyActs ==
    ASSUME WorkInv, NEW i \in Items, Live(i), NEW it \in Shown(i), ~item[i].owned, NEW err,
           err = "capacity" /\ item[i].known => Failed(i, task[i].studio),
           Classify(i, it, err), UNCHANGED taskFrame
    PROVE  Acts(i)
  <1> DEFINE again == [it EXCEPT ![i].state = "queued"]
             infra == it[i].infra + 1
             uncertain == [it EXCEPT ![i].state = "uncertain", ![i].owned = TRUE]
             retried == [again EXCEPT ![i].infra = infra]
             failed == [it EXCEPT ![i].state = "error", ![i].infra = infra]
  <1>0. /\ {"queued", "uncertain", "error"} \subseteq ItemStates
        /\ it \in Same /\ it \in [Items -> ItemRecord] /\ TypeOK
    BY ShownSame DEF ItemStates, TerminalStates, Shown, ItemMap, WorkInv, IInv
  <1>1. infra \in Nat
    BY <1>0, LeftTyped
  <1>2. /\ again \in ItemMap /\ uncertain \in ItemMap
        /\ retried \in ItemMap /\ failed \in ItemMap
    <2>1. again \in ItemMap /\ uncertain \in ItemMap
      BY <1>0, <1>1, LeftTyped
    <2>2. retried \in ItemMap
      BY <1>0, <1>1, LeftTyped
    <2>3. failed \in ItemMap
      BY <1>0, <1>1, LeftTyped
    <2> QED BY <2>1, <2>2, <2>3
  <1>3. \A k \in Items \ {i} : /\ again[k] = item[k] /\ uncertain[k] = item[k]
                               /\ retried[k] = item[k] /\ failed[k] = item[k]
    BY <1>0 DEF Shown, Only
  <1>4. again[i].state = "queued" /\ SameJob(again[i], it[i])
    BY <1>0 DEF SameJob, ItemRecord
  <1>5. /\ uncertain[i].state = "uncertain" /\ uncertain[i].owned
        /\ uncertain[i].studio = it[i].studio /\ uncertain[i].known = it[i].known
    BY <1>0 DEF ItemRecord
  <1>6. retried[i].state = "queued" /\ SameJob(retried[i], it[i])
    <2>1. again \in [Items -> ItemRecord]
      BY <1>2 DEF ItemMap
    <2>2. Alike(retried[i], again[i])
      <3> HIDE DEF again
      <3> QED BY <2>1 DEF Alike, SameJob, ItemRecord
    <2> HIDE DEF again, retried
    <2> QED BY <1>4, <2>2 DEF Alike, SameJob
  <1>7. failed[i].state = "error" /\ SameJob(failed[i], it[i])
    BY <1>0 DEF SameJob, ItemRecord
  <1>8. \/ IsVoice(i) /\ Leave(i, batch, uncertain)
        \/ err = "capacity" /\ Wait(i, "capacity", it)
        \/ Leave(i, batch, retried) \/ Leave(i, batch, failed) \/ Leave(i, batch, again)
        \/ LeaveAs(i, it, "error")
    BY DEF Classify
  <1> HIDE DEF again, infra, uncertain, retried, failed
  <1>9. ASSUME NEW left \in ItemMap, Leave(i, batch, left),
               \A k \in Items \ {i} : left[k] = item[k]
        PROVE  Turn(i) /\ ~Live(i)' /\ Alike(item'[i], left[i])
    BY <1>0, <1>9, LeaveOwn DEF Only
  <1>10. ASSUME NEW left \in ItemMap, Leave(i, batch, left),
                \A k \in Items \ {i} : left[k] = item[k],
                left[i].state \in {"queued", "error"}, SameJob(left[i], it[i])
         PROVE  Acts(i)
    BY <1>9, <1>10 DEF Acts, Leaves, Alike, SameJob, Shown, Fresh
  <1>11. CASE IsVoice(i) /\ Leave(i, batch, uncertain)
    BY <1>2, <1>3, <1>5, <1>9, <1>11 DEF Acts, Leaves, Alike, SameJob, Shown, Fresh
  <1>12. CASE err = "capacity" /\ Wait(i, "capacity", it)
    <2>1. Turn(i) /\ Waits(i, "capacity") /\ task'[i].err = task[i].err /\ item'[i] = it[i]
      BY <1>0, <1>12, WaitTurn DEF Shown
    <2> QED BY <1>12, <2>1 DEF Acts, Goes, Waits, Shown, Alike, SameJob, BusyPCs
  <1>13. CASE LeaveAs(i, it, "error")
    BY <1>0, <1>13, LeaveAsActs DEF Fresh
  <1> QED BY <1>2, <1>3, <1>4, <1>6, <1>7, <1>8, <1>10, <1>11, <1>12, <1>13

LEMMA ClassifyUnlessOwnedActs ==
    ASSUME WorkInv, NEW i \in Items, Live(i), NEW it \in Shown(i), NEW err, err # "capacity",
           ClassifyUnlessOwned(i, it, err), UNCHANGED taskFrame
    PROVE  Acts(i)
  BY ClassifyActs, LeaveSameActs DEF ClassifyUnlessOwned

LEMMA ExceptActs ==
    ASSUME WorkInv, NEW i \in Items, Live(i), NEW it \in Shown(i), NEW err \in Errors,
           err = "capacity" /\ item[i].known => Failed(i, task[i].studio),
           Except(i, it, err), UNCHANGED taskFrame
    PROVE  Acts(i)
  <1>1. "cancelled" \in ItemStates
    BY DEF ItemStates, TerminalStates
  <1>2. CASE Reconcile(i, err) /\ err \notin WorkerErrors
    BY <1>2, ReconcileGoes DEF WorkerErrors, Acts
  <1> QED BY <1>1, <1>2, LeaveSameActs, LeaveAsActs, ClassifyActs DEF Except

LEMMA SendRequestActs ==
    ASSUME WorkInv, NEW i \in Items, task[i].pc \in {"start", "prep"}, ~item[i].owned,
           SendRequest(i), UNCHANGED taskFrame
    PROVE  Acts(i)
  <1> DEFINE back == [item EXCEPT ![i].state = "queued", ![i].studio = NoStudio,
                                  ![i].known = FALSE, ![i].tries = Pred(@)]
  <1>1. /\ item \in Shown(i) /\ item \in Same /\ "queued" \in ItemStates
        /\ "error" \in ItemStates /\ TypeOK /\ item \in [Items -> ItemRecord]
        /\ Fresh(i) /\ ~item[i].known
    BY ShownItems, ShownSame
       DEF WorkInv, IInv, ItemStates, TerminalStates, TypeOK, Fresh, ItemInv, Attempt
  <1>2. Pred(item[i].tries) \in Nat
    BY <1>1, LeftTyped, PredNat
  <1>3. back \in ItemMap
    BY <1>1, <1>2, LeftTyped
  <1>4. /\ \A k \in Items \ {i} : back[k] = item[k]
        /\ back[i].state = "queued" /\ ~back[i].known /\ back[i].owned = item[i].owned
    BY <1>1 DEF ItemRecord
  <1>5. CASE Leave(i, batch, back)
    <2> HIDE DEF back
    <2>1. Turn(i) /\ ~Live(i)' /\ Alike(item'[i], back[i])
      BY <1>1, <1>3, <1>4, <1>5, LeaveOwn DEF Only
    <2> QED BY <1>1, <1>4, <2>1 DEF Acts, Leaves, Alike, SameJob
  <1>6. CASE Wait(i, "post", item)
    <2>1. Turn(i) /\ Waits(i, "post") /\ item'[i] = item[i]
      BY <1>1, <1>6, WaitTurn DEF Shown
    <2> QED BY <1>1, <2>1 DEF Acts, Goes, Waits, BusyPCs
  <1> QED BY <1>1, <1>5, <1>6, LeaveAsActs DEF SendRequest

LEMMA SucceedActs ==
    ASSUME WorkInv, NEW i \in Items, Live(i), NEW it \in Shown(i), ~item[i].owned,
           Adoptable(i, task[i].studio), Succeed(i, it), UNCHANGED taskFrame
    PROVE  Acts(i)
  <1>0. "done" \in ItemStates /\ TypeOK /\ Only(i, it) /\ Alike(it[i], item[i])
    BY DEF ItemStates, TerminalStates, WorkInv, IInv, Shown
  <1>1. CASE ExpireAndWait(i, "stop", it)
    <2>1. /\ Turn(i) /\ Waits(i, "stop") /\ SameJob(item'[i], it[i])
          /\ \/ item'[i].state = it[i].state
             \/ /\ it[i].state \in {"queued", "running"} /\ item'[i].state = "cancelled"
                /\ batch'[BatchOf[i]].cancelled
      BY <1>0, <1>1, ExpireAndWaitTurn
    <2> QED BY <1>0, <2>1 DEF Acts, Goes, Waits, Alike, SameJob, Fenced, BusyPCs
  <1>2. CASE Wait(i, "adopt", it)
    <2>1. Turn(i) /\ Waits(i, "adopt") /\ item'[i] = it[i]
      BY <1>0, <1>2, WaitTurn
    <2> QED BY <1>0, <2>1 DEF Acts, Goes, Waits, Adoptable, Over, Ended, Alike, SameJob, BusyPCs
  <1>3. CASE LeaveAs(i, it, "done")
    BY <1>0, <1>3, LeaveAsActs DEF Adoptable
  <1> QED BY <1>1, <1>2, <1>3 DEF Succeed

LEMMA AnswerActs ==
    ASSUME WorkInv, NEW i \in Items, Live(i), NEW sleep \in {"poll", "recSleep"},
           sleep = "recSleep" => task[i].err # "capacity",
           sleep = "poll" => task[i].pc = "get",
           Answer(i, sleep), UNCHANGED taskFrame
    PROVE  Acts(i)
  <1>0. TypeOK /\ task[i].studio \in Studios
    BY DEF WorkInv, IInv, Excl, BusyMatchesTasks, TypeOK
  <1>1. PICK it \in Shown(i) :
           \/ Wait(i, sleep, it)
           \/ job[i][task[i].studio] = "done" /\ Succeed(i, it)
           \/ job[i][task[i].studio] = "other" /\ sleep = "poll" /\ Succeed(i, it)
    BY <1>0, ShownItems DEF Answer
  <1>2. CASE Wait(i, sleep, it)
    <2>1. /\ Turn(i) /\ Waits(i, sleep) /\ task'[i].err = task[i].err
          /\ item'[i] = it[i]
      BY <1>0, <1>2, WaitTurn DEF Shown
    <2> QED BY <2>1 DEF Acts, Goes, Waits, Shown, Alike, SameJob, BusyPCs
  <1> QED BY <1>0, <1>1, <1>2, SucceedActs DEF Answer, Adoptable, Over, Ended

LEMMA RequestActs ==
    ASSUME WorkInv, NEW i \in Items,
           TaskStart(i) \/ TaskPrepared(i) \/ TaskAccepted(i) \/ TaskRefused(i)
    PROVE  Acts(i)
  <1>0. /\ TypeOK /\ ItemInv(i) /\ item \in Shown(i) /\ "error" \in ItemStates
        /\ \A r \in Reports : Seen(i, r) \in Shown(i)
    BY ShownItems DEF WorkInv, IInv, ItemStates, TerminalStates
  <1>1. UNCHANGED taskFrame
    BY DEF TaskStart, TaskPrepared, TaskAccepted, TaskRefused
  <1>2. Live(i)
    BY DEF TaskStart, TaskPrepared, TaskAccepted, TaskRefused, Live, BusyPCs
  <1>3. CASE TaskStart(i)
    <2> DEFINE b == BatchOf[i]
    <2>1. CASE item[i].owned /\ Leave(i, batch, item)
      BY <1>0, <1>1, <2>1, LeaveSameActs
    <2>2. CASE /\ ~item[i].owned /\ Expires(b)
               /\ Leave(i, ExpiredBatch(b), ExpiredItems(b, item))
      <3>1. b \in Batches /\ item \in ItemMap /\ batch \in BatchMap
            /\ \A k \in Items : BatchOf[k] \in Batches
        BY <1>0, ShapeAssumption DEF TypeOK, ItemMap, BatchMap
      <3>2. ExpiredItems(b, item) \in ItemMap /\ ExpiredBatch(b) \in BatchMap
        BY <3>1, ExpiredTyped
      <3>3. \A k \in Items :
               \/ ExpiredItems(b, item)[k] = item[k]
               \/ /\ item[k].state \in {"queued", "running"} /\ BatchOf[k] = b
                  /\ ExpiredItems(b, item)[k].state = "cancelled"
                  /\ SameJob(ExpiredItems(b, item)[k], item[k])
        BY <3>1, ExpiredOne
      <3>4. Aging(ExpiredBatch(b)) /\ ExpiredBatch(b)[b].cancelled
        BY <3>1, ExpiredOne
      <3>5. Turn(i) /\ ~Live(i)' /\ Alike(item'[i], ExpiredItems(b, item)[i])
        BY <1>0, <1>1, <2>2, <3>2, <3>3, <3>4, LeaveTurn
      <3>6. ExpiredItems(b, item)[i].state = "cancelled" \/
            /\ ExpiredItems(b, item)[i] = item[i]
            /\ item[i].state \notin {"queued", "running"}
        BY <3>1 DEF ExpiredItems, ItemMap, ItemRecord
      <3>7. /\ SameJob(item'[i], item[i])
            /\ \/ item'[i].state = "cancelled"
               \/ /\ item'[i].state = item[i].state
                  /\ item[i].state \notin {"queued", "running"}
        BY <3>3, <3>5, <3>6 DEF Alike, SameJob
      <3> QED BY <3>5, <3>7 DEF Acts, Leaves, SameJob
    <2>3. CASE ~item[i].owned /\ SendRequest(i)
      BY <1>1, <1>3, <2>3, SendRequestActs DEF TaskStart
    <2>4. CASE ~item[i].owned /\ ~IsVoice(i) /\ Wait(i, "prep", item)
      <3>1. Turn(i) /\ Waits(i, "prep") /\ item'[i] = item[i]
        BY <1>0, <1>1, <2>4, WaitTurn DEF Shown
      <3>2. ~item[i].known
        BY <1>0, <1>3 DEF ItemInv, Attempt, TaskStart
      <3> QED BY <2>4, <3>1, <3>2 DEF Acts, Goes, Waits, BusyPCs
    <2> QED BY <1>3, <2>1, <2>2, <2>3, <2>4 DEF TaskStart
  <1>4. CASE TaskPrepared(i)
    <2>1. task[i].pc = "prep" /\ ~item[i].owned
      BY <1>0, <1>4 DEF TaskPrepared, ItemInv, Attempt, Unowned
    <2> QED BY <1>1, <1>4, <2>1, SendRequestActs DEF TaskPrepared
  <1>5. CASE TaskAccepted(i)
    <2>1. PICK r \in Reports :
            ExpireAndWait(i, IF Revoked(BatchOf[i]) THEN "stop" ELSE "poll",
                          [Seen(i, r) EXCEPT ![i].known = TRUE])
      BY <1>5 DEF TaskAccepted
    <2> DEFINE it == [Seen(i, r) EXCEPT ![i].known = TRUE]
    <2>2. PICK pc \in {"stop", "poll"} : ExpireAndWait(i, pc, it)
      BY <2>1
    <2>3. /\ Only(i, it) /\ it[i].studio = item[i].studio /\ it[i].owned = item[i].owned
          /\ it[i].state = item[i].state
      <3>1. Seen(i, r) \in Shown(i) /\ Seen(i, r) \in [Items -> ItemRecord]
        BY <1>0 DEF Shown, ItemMap
      <3>2. it \in ItemMap /\ \A k \in Items \ {i} : it[k] = Seen(i, r)[k]
        BY <3>1 DEF ItemMap, ItemRecord
      <3>3. /\ it[i].studio = Seen(i, r)[i].studio /\ it[i].owned = Seen(i, r)[i].owned
            /\ it[i].state = Seen(i, r)[i].state
        BY <3>1 DEF ItemRecord
      <3> HIDE DEF it
      <3> QED BY <3>1, <3>2, <3>3 DEF Only, Shown, Alike, SameJob
    <2> HIDE DEF it
    <2>4. /\ Turn(i) /\ Waits(i, pc) /\ SameJob(item'[i], it[i])
          /\ \/ item'[i].state = it[i].state
             \/ /\ it[i].state \in {"queued", "running"} /\ item'[i].state = "cancelled"
                /\ batch'[BatchOf[i]].cancelled
      BY <1>0, <1>1, <2>2, <2>3, ExpireAndWaitTurn
    <2> QED BY <2>3, <2>4 DEF Acts, Goes, Waits, SameJob, Fenced, BusyPCs
  <1>6. CASE TaskRefused(i)
    <2>1. {"transport", "retry", "fatal", "capacity"} \subseteq Errors
      BY DEF Errors
    <2>2. ~item[i].known /\ Fresh(i)
      BY <1>0, <1>6 DEF TaskRefused, ItemInv, Attempt, Fresh
    <2> QED BY <1>0, <1>1, <1>2, <1>6, <2>1, <2>2, ExceptActs, LeaveAsActs DEF TaskRefused
  <1> QED BY <1>3, <1>4, <1>5, <1>6

LEMMA PollingActs ==
    ASSUME WorkInv, NEW i \in Items,
           TaskPoll(i) \/ TaskStatus(i) \/ TaskAdopt(i) \/ TaskStopped(i)
    PROVE  Acts(i)
  <1>0. /\ TypeOK /\ ItemInv(i) /\ item \in Shown(i)
        /\ \A r \in Reports : Seen(i, r) \in Shown(i)
        /\ "done" \in ItemStates /\ "cancelled" \in ItemStates
    BY ShownItems DEF WorkInv, IInv, ItemStates, TerminalStates
  <1>1. UNCHANGED taskFrame
    BY DEF TaskPoll, TaskStatus, TaskAdopt, TaskStopped
  <1>2. Live(i)
    BY DEF TaskPoll, TaskStatus, TaskAdopt, TaskStopped, Live, BusyPCs
  <1>3. task[i].studio \in Studios
    BY <1>2 DEF WorkInv, IInv, Excl, BusyMatchesTasks, TypeOK
  <1>4. CASE TaskPoll(i)
    <2>1. CASE item[i].owned /\ Leave(i, batch, item)
      BY <1>0, <1>1, <2>1, LeaveSameActs
    <2>2. ASSUME NEW pc \in {"stop", "get"}, ExpireAndWait(i, pc, item)
          PROVE  Acts(i)
      <3>1. /\ Turn(i) /\ Waits(i, pc) /\ SameJob(item'[i], item[i])
            /\ item'[i].state = item[i].state \/ Fenced(i)
        BY <1>0, <1>1, <2>2, ExpireAndWaitTurn DEF Shown, Fenced
      <3> QED BY <3>1 DEF Acts, Goes, Waits, SameJob, BusyPCs
    <2> QED BY <1>4, <2>1, <2>2 DEF TaskPoll
  <1>5. CASE TaskStatus(i)
    <2>1. {"transport", "retry", "fatal"} \subseteq Errors /\ WorkerErrors \subseteq Errors
      BY DEF Errors, WorkerErrors
    <2>2. ASSUME NEW err \in {"transport", "retry", "fatal"}, Except(i, item, err)
          PROVE  Acts(i)
      BY <1>0, <1>1, <1>2, <2>1, <2>2, ExceptActs
    <2>3. CASE item[i].owned /\ Leave(i, batch, item)
      BY <1>0, <1>1, <2>3, LeaveSameActs
    <2>4. CASE Answer(i, "poll")
      BY <1>1, <1>5, <1>2, <2>4, AnswerActs DEF TaskStatus
    <2>5. ASSUME WorkerFailed(i), NEW err \in WorkerErrors, NEW r \in Reports,
                 Except(i, Seen(i, r), err)
          PROVE  Acts(i)
      <3>1. Failed(i, task[i].studio)
        BY <1>3, <2>5 DEF WorkerFailed, Failed
      <3> QED BY <1>0, <1>1, <1>2, <2>1, <2>5, <3>1, ExceptActs
    <2> QED BY <1>5, <2>2, <2>3, <2>4, <2>5 DEF TaskStatus
  <1>6. CASE TaskAdopt(i)
    <2>1. Ended(i, task[i].studio)
      BY <1>0, <1>6 DEF TaskAdopt, ItemInv, Attempt
    <2> QED BY <1>0, <1>1, <1>6, <2>1, LeaveSameActs, LeaveAsActs DEF TaskAdopt, Adoptable
  <1>7. CASE TaskStopped(i)
    BY <1>0, <1>1, <1>7, LeaveAsActs DEF TaskStopped
  <1> QED BY <1>4, <1>5, <1>6, <1>7

LEMMA RecoverActs ==
    ASSUME WorkInv, NEW i \in Items,
           RecoverStatus(i) \/ RecoverGiveUp(i) \/ RecoverAgain(i) \/ TaskCapacity(i)
    PROVE  Acts(i)
  <1>0. /\ TypeOK /\ ItemInv(i) /\ item \in Shown(i)
        /\ \A r \in Reports : Seen(i, r) \in Shown(i)
    BY ShownItems DEF WorkInv, IInv
  <1>1. UNCHANGED taskFrame
    BY DEF RecoverStatus, RecoverGiveUp, RecoverAgain, TaskCapacity
  <1>2. Live(i) /\ task[i].studio \in Studios
    BY DEF RecoverStatus, RecoverGiveUp, RecoverAgain, TaskCapacity, Live, BusyPCs,
           WorkInv, IInv, Excl, BusyMatchesTasks, TypeOK
  <1>3. /\ task[i].err \in Errors
        /\ task[i].pc \in {"recGet", "recSleep", "recStop"} => task[i].err # "capacity"
    BY <1>0 DEF TypeOK, TaskRecord, ItemInv, Attempt
  <1>4. CASE RecoverStatus(i)
    <2>0. task[i].err # "capacity"
      BY <1>3, <1>4 DEF RecoverStatus
    <2>1. CASE Wait(i, "recSleep", item)
      <3>1. /\ Turn(i) /\ Waits(i, "recSleep") /\ task'[i].err = task[i].err
            /\ item'[i] = item[i]
        BY <1>0, <1>1, <2>1, WaitTurn DEF Shown
      <3> QED BY <2>0, <3>1 DEF Acts, Goes, Waits, BusyPCs
    <2>2. CASE ClassifyUnlessOwned(i, item, task[i].err)
      BY <1>0, <1>1, <1>2, <2>0, <2>2, ClassifyUnlessOwnedActs
    <2>3. CASE Answer(i, "recSleep")
      BY <1>1, <1>2, <2>0, <2>3, AnswerActs
    <2>4. ASSUME WorkerFailed(i), NEW err \in WorkerErrors, NEW r \in Reports,
                 Classify(i, Seen(i, r), err)
          PROVE  Acts(i)
      <3>1. Failed(i, task[i].studio) /\ ~item[i].owned
        BY <1>2, <2>4 DEF WorkerFailed, Failed
      <3> QED BY <1>0, <1>1, <1>2, <2>4, <3>1, ClassifyActs
    <2> QED BY <1>4, <2>1, <2>2, <2>3, <2>4 DEF RecoverStatus
  <1>5. CASE RecoverGiveUp(i)
    BY <1>0, <1>1, <1>2, <1>3, <1>5, ClassifyUnlessOwnedActs DEF RecoverGiveUp
  <1>6. CASE RecoverAgain(i)
    BY <1>1, <1>3, <1>6, ReconcileGoes DEF RecoverAgain, Acts
  <1>7. CASE TaskCapacity(i)
    <2> DEFINE back == [item EXCEPT ![i].state = "queued", ![i].tries = Pred(@)]
    <2>0. item \in Same /\ item \in [Items -> ItemRecord] /\ "queued" \in ItemStates
      BY <1>0, ShownSame DEF TypeOK, ItemStates
    <2>1. Pred(item[i].tries) \in Nat
      BY <2>0, LeftTyped, PredNat
    <2>2. back \in ItemMap
      BY <2>0, <2>1, LeftTyped
    <2>3. /\ \A k \in Items \ {i} : back[k] = item[k]
          /\ back[i].state = "queued" /\ SameJob(back[i], item[i])
      BY <2>0 DEF ItemRecord, SameJob
    <2>4. Leave(i, batch, back) /\ Fresh(i)
      BY <1>7 DEF TaskCapacity, Fresh
    <2> HIDE DEF back
    <2>5. Turn(i) /\ ~Live(i)' /\ Alike(item'[i], back[i])
      BY <1>0, <1>1, <2>2, <2>3, <2>4, LeaveOwn DEF Only
    <2> QED BY <2>3, <2>4, <2>5 DEF Acts, Leaves, Alike, SameJob
  <1> QED BY <1>4, <1>5, <1>6, <1>7

-----------------------------------------------------------------------------
(* Every step keeps every item's invariant and its action properties.       *)

Kept == \A k \in Items : ItemInv(k)' /\ ItemStep(k)

LEMMA SteadyAll ==
    ASSUME WorkInv, \A k \in Items : Steady(k)
    PROVE  Kept
  BY SteadyKeeps DEF WorkInv, Kept

LEMMA TaskStepItems ==
    ASSUME WorkInv, NEW i \in Items, TaskStep(i)
    PROVE  Kept
  <1>1. CASE TaskNotified(i)
    <2>0. /\ TypeOK /\ BatchOf[i] \in Batches /\ task \in [Items -> TaskRecord]
          /\ batch \in BatchMap /\ \A k \in Items : BatchOf[k] \in Batches
      BY ShapeAssumption DEF WorkInv, IInv, TypeOK, BatchMap
    <2>1. item' = item /\ task' = [task EXCEPT ![i] = NoTask] /\ task[i].pc = "hook"
          /\ UNCHANGED taskFrame
      BY <1>1 DEF TaskNotified, MaybeFinish
    <2>2. \A k \in Items : TaskKept(k)
      BY <2>0, <2>1 DEF TaskKept, NoTask
    <2>3. \A k \in Items : Saved(k)
      BY <1>1, <2>0, SavedNew DEF TaskNotified, MaybeFinish
    <2>4. \A k \in Items : Listed(k)
      BY <1>1, <2>0, FinishedAging DEF TaskNotified, MaybeFinish, Listed
    <2>5. \A k \in Items : Steady(k)
      BY <2>1, <2>2, <2>3, <2>4 DEF Steady, taskFrame, JobKept, Over, Ended, Failed, SameJob
    <2> QED BY <2>5, SteadyAll
  <1>2. CASE ~TaskNotified(i)
    <2>1. Acts(i)
      BY <1>2, RequestActs, PollingActs, RecoverActs DEF TaskStep
    <2>2. Live(i)
      BY <1>2 DEF TaskStep, TaskStart, TaskPrepared, TaskAccepted, TaskRefused, TaskPoll,
                  TaskStatus, TaskAdopt, TaskStopped, RecoverStatus, RecoverGiveUp,
                  RecoverAgain, TaskCapacity, Live, BusyPCs
    <2> QED BY <2>1, <2>2, SteadyKeeps, GoesKeeps, LeavesKeeps DEF Acts, Turn, WorkInv, Kept
  <1> QED BY <1>1, <1>2

(* A step away from tasks, jobs and recoveries. *)
LEMMA AwaySteady ==
    ASSUME NEW k \in Items, UNCHANGED << task, job, recovery >>, Saved(k), Listed(k),
           SameJob(item'[k], item[k]), item'[k].state = item[k].state \/ Fenced(k),
           k \in pass'.queued => k \in pass.queued \/ item[k].state = "queued"
    PROVE  Steady(k)
  BY DEF Steady, TaskKept, JobKept, Over, Ended, Failed

LEMMA UntouchedSteady ==
    ASSUME NEW k \in Items, UNCHANGED << task, recovery >>, JobKept(k),
           UNCHANGED << batch, item, row, rowItem >>,
           k \in pass'.queued => k \in pass.queued \/ item[k].state = "queued"
    PROVE  Steady(k)
  BY DEF Steady, TaskKept, Saved, Listed, SameJob

-----------------------------------------------------------------------------
(* The scheduler.                                                           *)

LEMMA AssignItems ==
    ASSUME WorkInv, DispatchAssign
    PROVE  Kept
  <1>0. PICK i \in Items, s \in Studios : i = pass.item /\ s = pass.studio
    BY DEF DispatchAssign, WorkInv, IInv, Excl, SnapshotIsIdle, TypeOK, PassRecord
  <1>1. /\ i \in pass.queued /\ ItemInv(i)
        /\ pass.queued \subseteq Items /\ pass.eligible \subseteq Studios
        /\ pass.batch \in Batches \cup {NoBatch}
        /\ task \in [Items -> TaskRecord] /\ item \in [Items -> ItemRecord]
    BY <1>0 DEF DispatchAssign, WorkInv, IInv, Excl, SnapshotIsIdle, TypeOK, PassRecord
  <1>2. UNCHANGED << batch, row, rowItem, job, recovery, restarts >>
    BY DEF DispatchAssign
  <1>3. pass'.queued \subseteq pass.queued \ {i}
    <2>1. OfferNext(pass.batch, pass.queued \ {i}, pass.eligible)
      BY <1>0 DEF DispatchAssign, Rest
    <2>2. pass.queued \ {i} \in SUBSET Items
      BY <1>1
    <2> QED BY <1>1, <2>1, <2>2, OfferedPass
  <1>4. /\ task'[i].pc = "start" /\ task'[i].studio = s
        /\ \A k \in Items \ {i} : task'[k] = task[k]
    BY <1>0, <1>1 DEF DispatchAssign, NoTask
  <1>5. /\ \A k \in Items \ {i} : item'[k] = item[k]
        /\ item'[i].state = "running" /\ item'[i].studio = s /\ ~item'[i].known
        /\ item'[i].owned = item[i].owned
    <2>1. item' = [item EXCEPT ![i].state = "running", ![i].studio = s,
                               ![i].known = FALSE, ![i].tries = @ + 1]
      BY <1>0 DEF DispatchAssign
    <2> QED BY <1>1, <2>1 DEF ItemRecord
  <1>6. ASSUME NEW k \in Items \ {i} PROVE ItemInv(k)' /\ ItemStep(k)
    <2>1. Steady(k)
      BY <1>2, <1>3, <1>4, <1>5
         DEF Steady, TaskKept, JobKept, Over, Ended, Failed, Saved, Listed, SameJob
    <2> QED BY <2>1, SteadyKeeps DEF WorkInv
  <1>7. ItemInv(i)'
    <2> USE DEF ItemInv
    <2>0. Live(i)' /\ i \notin pass'.queued /\ ~HasResult(i) /\ ~HasResult(i)'
      BY <1>1, <1>2, <1>3, <1>4, <1>5 DEF Live, BusyPCs, Settled, HasResult
    <2>1. Attempt(i)'
      BY <1>4, <1>5 DEF Attempt
    <2>2. Taken(i)'
      BY <1>1, <1>2, <1>4, <1>5, <2>0 DEF Taken
    <2>3. Reading(i)'
      BY <1>1, <1>2 DEF Reading, Held, Over, Ended, Failed
    <2>4. Settled(i)'
      BY <2>0 DEF Settled
    <2>5. ASSUME ~IsVoice(i) PROVE (Unowned(i) /\ InHand(i) /\ OnRecord(i))'
      <3>1. Unowned(i)'
        BY <1>1, <1>2, <1>5, <2>5 DEF Unowned
      <3>2. InHand(i)'
        BY <1>5, <2>0 DEF InHand
      <3>3. OnRecord(i)'
        BY <1>1, <1>2, <1>5, <2>0, <2>5
           DEF OnRecord, InHand, Cancelled, HasResult, TerminalStates
      <3> QED BY <3>1, <3>2, <3>3
    <2> QED BY <2>1, <2>2, <2>3, <2>4, <2>5 DEF IsVoice
  <1>8. ItemStep(i)
    <2>1. ~HasResult(i)
      BY <1>1 DEF ItemInv, Settled
    <2> QED BY <1>4, <1>5, <2>1 DEF ItemStep, HasResult
  <1> QED BY <1>6, <1>7, <1>8 DEF Kept

LEMMA ExpiredSteady ==
    ASSUME TypeOK, NEW b \in Batches, batch' = ExpiredBatch(b),
           item' = ExpiredItems(b, item), \A k \in Items : Saved(k),
           UNCHANGED << pass, task, job, recovery >>
    PROVE  \A k \in Items : Steady(k)
  <1> SUFFICES ASSUME NEW k \in Items PROVE Steady(k)
    OBVIOUS
  <1>0. item \in ItemMap /\ batch \in BatchMap /\ BatchOf[k] \in Batches
    BY ShapeAssumption DEF TypeOK, ItemMap, BatchMap
  <1>1. /\ SameJob(item'[k], item[k])
        /\ item'[k].state = item[k].state \/ Fenced(k)
    BY <1>0, ExpiredOne DEF SameJob, Fenced
  <1>2. Listed(k)
    BY <1>0, ExpiredOne DEF Listed, Aging
  <1> QED BY <1>1, <1>2, AwaySteady

LEMMA ScheduleItems ==
    ASSUME WorkInv, Schedule
    PROVE  Kept
  <1>0. /\ pass.queued \subseteq Items /\ pass.eligible \subseteq Studios /\ TypeOK
        /\ pass.batch \in Batches \cup {NoBatch} /\ item \in ItemMap /\ batch \in BatchMap
    BY DEF WorkInv, IInv, TypeOK, PassRecord, ItemMap, BatchMap
  <1>1. ASSUME NEW b \in Batches, DispatchExpire(b)
        PROVE  Kept
    <2>1. \A k \in Items : Saved(k)
      BY <1>0, <1>1, SavedNew DEF DispatchExpire
    <2>2. \A k \in Items : Steady(k)
      BY <1>0, <1>1, <2>1, ExpiredSteady DEF DispatchExpire
    <2> QED BY <2>2, SteadyAll
  <1>2. ASSUME NEW b \in Batches, DispatchLook(b)
        PROVE  Kept
    <2>1. PICK due \in SUBSET QueuedItems(b) : Offer(b, due, EligibleStudios(b))
      BY <1>2 DEF DispatchLook
    <2>2. due \in SUBSET Items /\ EligibleStudios(b) \in SUBSET Studios
      BY ShapeAssumption DEF QueuedItems, ItemsOf, EligibleStudios
    <2>3. pass'.queued \subseteq due
      BY <2>1, <2>2, OfferedPass DEF OfferNext
    <2>4. \A k \in due : item[k].state = "queued"
      BY DEF QueuedItems
    <2>5. \A k \in Items : Steady(k)
      BY <1>2, <2>3, <2>4, UntouchedSteady DEF DispatchLook, JobKept, Over, Ended, Failed
    <2> QED BY <2>5, SteadyAll
  <1>3. CASE DispatchPass
    <2>1. pass'.queued \subseteq pass.queued
      BY <1>0, <1>3, OfferedPass DEF DispatchPass
    <2>2. \A k \in Items : Steady(k)
      BY <1>3, <2>1, UntouchedSteady DEF DispatchPass, JobKept, Over, Ended, Failed
    <2> QED BY <2>2, SteadyAll
  <1> QED BY <1>1, <1>2, <1>3, AssignItems DEF Schedule

-----------------------------------------------------------------------------
(* The workers.                                                             *)

LEMMA WorkerItems ==
    ASSUME WorkInv, Worker
    PROVE  Kept
  <1>0. /\ job \in [Items -> [Studios -> JobStates]] /\ task \in [Items -> TaskRecord]
    BY DEF WorkInv, IInv, TypeOK
  <1>1. ASSUME NEW i \in Items, NEW s \in Studios, WorkerEnds(i, s) \/ WorkerForgets(i, s)
        PROVE  Kept
    <2>1. PICK end : /\ job' = [job EXCEPT ![i][s] = end]
                     /\ end = "gone" \/ (job[i][s] = "running" /\ end \in Ends)
      BY <1>1 DEF WorkerEnds, WorkerForgets
    <2>2. UNCHANGED << task, recovery, batch, item, row, rowItem, pass >>
      BY <1>1 DEF WorkerEnds, WorkerForgets
    <2>3. \A k \in Items : JobKept(k)
      BY <1>0, <2>1 DEF JobKept, Over, Ended, Failed
    <2>4. \A k \in Items : Steady(k)
      BY <2>2, <2>3, UntouchedSteady
    <2> QED BY <2>4, SteadyAll
  <1>2. ASSUME NEW i \in Items, WorkerAccepts(i)
        PROVE  Kept
    <2>1. /\ task[i].pc = "post" /\ task' = [task EXCEPT ![i].sent = TRUE]
          /\ UNCHANGED << batch, item, row, rowItem, pass, recovery, restarts >>
      BY <1>2 DEF WorkerAccepts
    <2>2. \A k \in Items : /\ task'[k].pc = task[k].pc /\ task'[k].studio = task[k].studio
                           /\ task'[k].err = task[k].err
      BY <1>0, <2>1 DEF TaskRecord
    <2>3. \A k \in Items \ {i} : job'[k] = job[k]
      BY <1>0, <1>2 DEF WorkerAccepts
    <2>4. ASSUME NEW k \in Items \ {i} PROVE ItemInv(k)' /\ ItemStep(k)
      <3>1. Steady(k)
        BY <2>1, <2>2, <2>3 DEF Steady, TaskKept, JobKept, Over, Ended, Failed, Saved, Listed, SameJob
      <3> QED BY <3>1, SteadyKeeps DEF WorkInv
    <2>5. ItemInv(i)'
      <3> USE DEF ItemInv
      <3>0. /\ ItemInv(i) /\ Live(i) /\ Live(i)' /\ ~HasResult(i)
            /\ recovery[i].step = "no"
        BY <2>1, <2>2 DEF WorkInv, Live, BusyPCs, Settled, Taken
      <3>1. Attempt(i)'
        BY <2>1, <2>2, <3>0 DEF Attempt
      <3>2. Taken(i)' /\ Reading(i)' /\ Settled(i)'
        BY <2>1, <2>2, <3>0 DEF Taken, Reading, Settled, HasResult
      <3>3. ~IsVoice(i) => (Unowned(i) /\ InHand(i) /\ OnRecord(i))'
        BY <2>1, <3>0 DEF Unowned, InHand, OnRecord, Cancelled
      <3> QED BY <3>1, <3>2, <3>3 DEF IsVoice
    <2>6. ItemStep(i)
      BY <2>1 DEF ItemStep
    <2> QED BY <2>4, <2>5, <2>6 DEF Kept
  <1> QED BY <1>1, <1>2 DEF Worker

-----------------------------------------------------------------------------
(* The operator.                                                            *)

LEMMA BatchRequestItems ==
    ASSUME WorkInv, NEW b \in Batches,
           SubmitBatch(b) \/ LeaseExpires(b) \/ CancelBatch(b) \/ CancelReturns(b)
             \/ ClearFinished(b)
    PROVE  Kept
  <1>0. /\ TypeOK /\ item \in ItemMap /\ batch \in BatchMap
        /\ row \in [Batches -> RowRecord] /\ \A k \in Items : BatchOf[k] \in Batches
    BY ShapeAssumption DEF WorkInv, IInv, TypeOK, ItemMap, BatchMap
  <1>1. UNCHANGED << pass, task, job, recovery >>
    BY DEF SubmitBatch, LeaseExpires, CancelBatch, CancelReturns, ClearFinished
  <1>2. CASE SubmitBatch(b)
    <2>1. \A k \in Items : Saved(k)
      BY <1>0, <1>2, SavedNew DEF SubmitBatch
    <2>2. \A k \in Items : Listed(k)
      <3> SUFFICES ASSUME NEW k \in Items PROVE Listed(k)
        OBVIOUS
      <3>1. \/ BatchOf[k] = b /\ row'[b].kept /\ rowItem'[k] = item'[k]
            \/ BatchOf[k] # b
        BY <1>0, <1>2, SaveOne DEF SubmitBatch
      <3>2. /\ batch'[BatchOf[k]].cancelled = batch[BatchOf[k]].cancelled
            /\ BatchOf[k] # b => batch'[BatchOf[k]].at = batch[BatchOf[k]].at
        BY <1>0, <1>2 DEF SubmitBatch, BatchMap, BatchRecord
      <3> QED BY <3>1, <3>2 DEF Listed
    <2>3. \A k \in Items : Steady(k)
      BY <1>1, <1>2, <2>1, <2>2, AwaySteady DEF SubmitBatch, SameJob
    <2> QED BY <2>3, SteadyAll
  <1>3. CASE LeaseExpires(b)
    <2>1. \A k \in Items : Steady(k)
      BY <1>1, <1>3, UntouchedSteady DEF LeaseExpires, JobKept, Over, Ended, Failed
    <2> QED BY <2>1, SteadyAll
  <1>4. CASE CancelBatch(b)
    <2>1. \A k \in Items : Saved(k)
      BY <1>0, <1>4, SavedNew DEF CancelBatch
    <2>2. \A k \in Items : Listed(k) /\ (k \in ItemsOf(b) => batch'[BatchOf[k]].cancelled)
      BY <1>0, <1>4 DEF CancelBatch, BatchMap, BatchRecord, Listed, ItemsOf
    <2>3. ASSUME NEW k \in Items
          PROVE  SameJob(item'[k], item[k]) /\ (item'[k].state = item[k].state \/ Fenced(k))
      <3>1. item'[k] = IF k \in QueuedItems(b) THEN [item[k] EXCEPT !.state = "cancelled"]
                       ELSE item[k]
        BY <1>4 DEF CancelBatch
      <3>2. item[k] \in ItemRecord
        BY <1>0 DEF ItemMap
      <3>3. CASE k \in QueuedItems(b)
        <4>1. item'[k].state = "cancelled" /\ SameJob(item'[k], item[k])
          BY <3>1, <3>2, <3>3 DEF SameJob, ItemRecord
        <4> QED BY <2>2, <3>3, <4>1 DEF Fenced, QueuedItems
      <3> QED BY <3>1, <3>3 DEF SameJob
    <2>4. \A k \in Items : Steady(k)
      BY <1>1, <2>1, <2>2, <2>3, AwaySteady
    <2> QED BY <2>4, SteadyAll
  <1>5. CASE CancelReturns(b)
    <2> DEFINE told == [i \in Items |->
                          IF BatchOf[i] = b /\ item[i].state = "cancelled"
                          THEN [item[i] EXCEPT !.notified = TRUE] ELSE item[i]]
    <2>1. \A k \in Items : Alike(told[k], item[k])
      BY <1>0 DEF ItemMap, ItemRecord, Alike, SameJob
    <2>2. MaybeFinish(b, batch, told)
      BY <1>5 DEF CancelReturns
    <2> HIDE DEF told
    <2>3. \A k \in Items : Saved(k)
      BY <1>0, <2>2, SavedNew DEF MaybeFinish
    <2>4. \A k \in Items : Listed(k)
      BY <1>0, <2>2, FinishedAging DEF MaybeFinish, Listed
    <2>5. \A k \in Items : Steady(k)
      BY <1>1, <2>1, <2>2, <2>3, <2>4, AwaySteady DEF MaybeFinish, Alike
    <2> QED BY <2>5, SteadyAll
  <1>6. CASE ClearFinished(b)
    <2>1. \A k \in Items : Listed(k)
      BY <1>0, <1>6 DEF ClearFinished, Listed, BatchMap, BatchRecord
    <2>2. \A k \in Items : Saved(k)
      <3> SUFFICES ASSUME NEW k \in Items PROVE Saved(k)
        OBVIOUS
      <3>1. BatchOf[k] # b => row'[BatchOf[k]] = row[BatchOf[k]] /\ rowItem'[k] = rowItem[k]
        BY <1>0, <1>6 DEF ClearFinished
      <3>2. BatchOf[k] = b => /\ ~row'[b].kept /\ rowItem'[k] = NewItem
                              /\ batch'[b].at = "gone"
        BY <1>0, <1>6 DEF ClearFinished, BatchMap, BatchRecord, NoRow
      <3> QED BY <3>1, <3>2 DEF Saved
    <2>3. \A k \in Items : Steady(k)
      BY <1>1, <1>6, <2>1, <2>2, AwaySteady DEF ClearFinished, SameJob
    <2> QED BY <2>3, SteadyAll
  <1> QED BY <1>2, <1>3, <1>4, <1>5, <1>6

LEMMA OperatorItems ==
    ASSUME WorkInv, Operator
    PROVE  Kept
  <1>1. ASSUME \/ \E s \in Studios : Drain(s) \/ Resume(s)
               \/ \E m \in Machines : AcquireExternal(m) \/ ReleaseExternal(m)
        PROVE  Kept
    <2>1. \A k \in Items : Steady(k)
      BY <1>1, UntouchedSteady
         DEF Drain, Resume, AcquireExternal, ReleaseExternal, JobKept, Over, Ended, Failed
    <2> QED BY <2>1, SteadyAll
  <1> QED BY <1>1, BatchRequestItems DEF Operator

-----------------------------------------------------------------------------
(* Voice recovery.                                                          *)

LEMMA RecoveryItems ==
    ASSUME WorkInv, Recovery
    PROVE  Kept
  <1>0. /\ TypeOK /\ item \in ItemMap /\ item \in [Items -> ItemRecord] /\ batch \in BatchMap
        /\ recovery \in [Items -> RecoveryRecord]
        /\ {"uncertain", "error", "cancelled", "done"} \subseteq ItemStates
        /\ \A k \in Items : BatchOf[k] \in Batches
    BY ShapeAssumption DEF WorkInv, IInv, TypeOK, ItemMap, BatchMap, ItemStates, TerminalStates
  <1>1. PICK i \in Items : \/ RecoveryClaims(i) \/ RecoveryScans(i)
                           \/ RecoveryReads(i) \/ RecoveryAdopts(i)
    BY DEF Recovery
  <1>2. PICK b \in Batches : b = BatchOf[i]
    BY <1>0
  <1>3. UNCHANGED << pass, task, job, restarts >> /\ ItemInv(i)
    BY <1>1 DEF RecoveryClaims, RecoveryScans, RecoveryReads, RecoveryAdopts, recoveryFrame,
                WorkInv
  <1>4. IsVoice(i)
    BY <1>1, <1>3 DEF RecoveryClaims, RecoveryScans, RecoveryReads, RecoveryAdopts, ItemInv,
                      Unowned
  <1>5. /\ \A k \in Items \ {i} : recovery'[k] = recovery[k]
        /\ \A step \in {"no", "read"} : Recovers(i, step) =>
              /\ recovery'[i].step = step
              /\ step = "read" => recovery'[i].studio = item[i].studio
    BY <1>0, <1>1 DEF RecoveryClaims, RecoveryScans, RecoveryReads, RecoveryAdopts, Recovers,
                      NoRecovery
  <1>6. ASSUME NEW s \in ItemStates
        PROVE  /\ Owned(i, s)[i].state = s /\ Owned(i, s)[i].owned
               /\ Owned(i, s)[i].studio = item[i].studio
               /\ Owned(i, s)[i].known = item[i].known
               /\ \A k \in Items \ {i} : Owned(i, s)[k] = item[k]
    BY <1>0 DEF Owned, ItemRecord
  <1>7. ASSUME batch' = batch \/ batch' = ExpiredBatch(b)
               \/ \E it : batch' = Finished(b, Relisted(b), it)
        PROVE  \A k \in Items : Listed(k)
    <2>1. CASE batch' = batch
      BY <2>1 DEF Listed
    <2>2. CASE batch' = ExpiredBatch(b)
      BY <1>0, <2>2, ExpiredOne DEF Aging, Listed
    <2>3. ASSUME NEW it, batch' = Finished(b, Relisted(b), it)
          PROVE  \A k \in Items : Listed(k)
      <3>1. Relisted(b) \in BatchMap
        BY <1>0 DEF Relisted, BatchMap, BatchRecord
      <3>2. \A c \in Batches : /\ batch'[c].at = Relisted(b)[c].at
                               /\ batch'[c].cancelled = Relisted(b)[c].cancelled
        BY <2>3, <3>1, FinishedAging
      <3>3. \A c \in Batches : /\ c # b => Relisted(b)[c].at = batch[c].at
                               /\ Relisted(b)[c].cancelled = batch[c].cancelled
        BY <1>0 DEF Relisted, BatchMap, BatchRecord
      <3>4. \A k \in Items : BatchOf[k] = b => IsVoice(k)
        BY <1>2, <1>4 DEF IsVoice
      <3> QED BY <1>0, <3>2, <3>3, <3>4 DEF Listed
    <2> QED BY <1>7, <2>1, <2>2, <2>3
  (* The other items are steady; the item is, or has its own invariant. *)
  <1>8. ASSUME \A k \in Items : Saved(k) /\ Listed(k),
               \A k \in Items \ {i} : SameJob(item'[k], item[k])
                                      /\ (item'[k].state = item[k].state \/ Fenced(k)),
               Steady(i) \/ (ItemInv(i)' /\ ItemStep(i))
        PROVE  Kept
    <2>1. \A k \in Items \ {i} : Steady(k)
      BY <1>3, <1>5, <1>8 DEF Steady, TaskKept, JobKept, Over, Ended, Failed
    <2> QED BY <1>8, <2>1, SteadyKeeps DEF Kept, WorkInv
  <1>9. ASSUME SameJob(item'[i], item[i]), item'[i].state = item[i].state \/ Fenced(i),
               Saved(i), Listed(i), recovery'[i] = recovery[i] \/ recovery'[i].step = "no"
        PROVE  Steady(i)
    BY <1>3, <1>9 DEF Steady, TaskKept, JobKept, Over, Ended, Failed
  <1>10. ASSUME item[i].state \in {"running", "uncertain"}, item'[i].state = "uncertain",
                item'[i].owned, item'[i].studio = item[i].studio,
                item'[i].known = item[i].known, Saved(i),
                \/ recovery'[i].step = "no"
                \/ /\ recovery'[i].step = "read" /\ recovery'[i].studio = item[i].studio
                   /\ item[i].known
         PROVE  ItemInv(i)' /\ ItemStep(i)
    <2> USE <1>10
    <2>1. ~HasResult(i) /\ i \notin pass.queued
      BY <1>3 DEF ItemInv, Settled, Taken
    <2>2. rowItem'[i].state # "done"
      BY <2>1 DEF Saved, Alike, HasResult, NewItem
    <2>3. Attempt(i)'
      BY <1>3 DEF ItemInv, Attempt, Live, Over, Ended, Failed
    <2>4. Taken(i)'
      BY <1>3, <2>1 DEF ItemInv, Taken, Attempt, Saved, Alike, SameJob, NewItem
    <2>5. Reading(i)'
      <3>1. recovery'[i].step = "read" => /\ task[i].pc # "start"
                                          /\ task[i].pc = "capacity" => Failed(i, item[i].studio)
        BY <1>3 DEF ItemInv, Attempt, Live, BusyPCs
      <3> QED BY <1>3, <2>1, <3>1 DEF Reading, Held, Failed
    <2>6. Settled(i)'
      BY <2>2 DEF Settled, HasResult
    <2>7. ItemStep(i)
      BY <1>3, <1>4 DEF ItemStep
    <2> QED BY <1>4, <2>3, <2>4, <2>5, <2>6, <2>7 DEF ItemInv, IsVoice
  <1>11. CASE RecoveryClaims(i)
    <2>1. /\ item' = Owned(i, "uncertain") /\ batch' = batch
          /\ item[i].state \in {"running", "uncertain"}
          /\ Save(b, batch, item') \/ Unsaved
          /\ Recovers(i, IF item[i].known THEN "read" ELSE "no")
      BY <1>2, <1>11 DEF RecoveryClaims
    <2>2. \A k \in Items : Saved(k) /\ Listed(k)
      BY <1>0, <1>7, <2>1, SavedNew DEF Unsaved, Saved
    <2>3. /\ item'[i].state = "uncertain" /\ item'[i].owned
          /\ item'[i].studio = item[i].studio /\ item'[i].known = item[i].known
          /\ \A k \in Items \ {i} : item'[k] = item[k]
      BY <1>0, <1>6, <2>1
    <2>4. \/ recovery'[i].step = "no"
          \/ /\ recovery'[i].step = "read" /\ recovery'[i].studio = item[i].studio
             /\ item[i].known
      BY <1>5, <2>1
    <2>5. ItemInv(i)' /\ ItemStep(i)
      BY <1>10, <2>1, <2>2, <2>3, <2>4
    <2> QED BY <1>8, <2>2, <2>3, <2>5 DEF SameJob
  <1>12. CASE RecoveryScans(i)
    <2>1. /\ UNCHANGED << batch, item, row, rowItem >> /\ item[i].state = "uncertain"
          /\ item[i].known /\ Recovers(i, "read")
      BY <1>12 DEF RecoveryScans, Unsaved
    <2>2. \A k \in Items : Saved(k) /\ Listed(k)
      BY <1>7, <2>1 DEF Saved
    <2>3. recovery'[i].step = "read" /\ recovery'[i].studio = item[i].studio /\ item[i].owned
      BY <1>3, <1>5, <2>1 DEF ItemInv, Taken
    <2>4. ItemInv(i)' /\ ItemStep(i)
      BY <1>10, <2>1, <2>2, <2>3
    <2> QED BY <1>8, <2>1, <2>2, <2>4 DEF SameJob
  <1>13. CASE RecoveryReads(i)
    <2>0. /\ recovery[i].step = "read" /\ item[i].owned /\ ~HasResult(i)
          /\ task[i].pc \notin {"prep", "post"}
      BY <1>3, <1>13 DEF RecoveryReads, ItemInv, Settled, Taken
    (* Whatever it read, if the item keeps its worker job. *)
    <2>1. ASSUME SameJob(item'[i], item[i]), Saved(i),
                 item'[i].state \notin {"done", "running", "uncertain"}
                   \/ item'[i].state = item[i].state,
                 \/ recovery'[i].step \in {"no", "settle"}
                 \/ recovery'[i].step = "adopt" /\ Reading(i)'
          PROVE  ItemInv(i)' /\ ItemStep(i)
      <3> USE <2>1
      <3>1. ~HasResult(i)'
        BY <2>0 DEF HasResult, Saved, Alike, NewItem
      <3>2. Attempt(i)'
        BY <1>3 DEF ItemInv, Attempt, Live, Over, Ended, Failed, SameJob
      <3>3. Taken(i)'
        <4>1. /\ item'[i].owned /\ item'[i].studio = item[i].studio
              /\ item'[i].known = item[i].known
          BY <2>0 DEF SameJob
        <4>2. i \in pass'.queued => item'[i].state \notin {"running", "uncertain"}
          BY <1>3 DEF ItemInv, Taken
        <4>3. /\ rowItem'[i].known => rowItem'[i].studio \in Studios
              /\ rowItem'[i].state = "uncertain" => rowItem'[i].owned
          <5>1. \/ rowItem'[i] = rowItem[i] \/ rowItem'[i] = item'[i]
                \/ rowItem'[i] = NewItem
                \/ rowItem'[i].known = item[i].known /\ rowItem'[i].owned = item[i].owned
                   /\ rowItem'[i].studio = item[i].studio
            BY DEF Saved, Alike, SameJob
          <5>2. CASE rowItem'[i] = rowItem[i]
            BY <1>3, <5>2 DEF ItemInv, Taken
          <5>3. CASE rowItem'[i] = item'[i]
            BY <1>3, <4>1, <5>3 DEF ItemInv, Taken
          <5>4. CASE rowItem'[i] = NewItem
            BY <5>4 DEF NewItem
          <5>5. CASE /\ rowItem'[i].known = item[i].known /\ rowItem'[i].owned = item[i].owned
                     /\ rowItem'[i].studio = item[i].studio
            BY <1>3, <2>0, <5>5 DEF ItemInv, Taken
          <5> QED BY <5>1, <5>2, <5>3, <5>4, <5>5
        <4> QED BY <1>3, <2>0, <4>1, <4>2, <4>3 DEF ItemInv, Taken
      <3>4. Reading(i)' /\ Settled(i)'
        BY <3>1 DEF Reading, Settled
      <3>5. ItemStep(i)
        BY <1>3, <1>4, <3>1 DEF ItemStep, HasResult
      <3> QED BY <1>4, <3>2, <3>3, <3>4, <3>5 DEF ItemInv, IsVoice
    <2>2. CASE /\ recovery' \in {recovery, [recovery EXCEPT ![i] = NoRecovery]}
               /\ UNCHANGED << batch, item >> /\ (Unsaved \/ Save(b, batch, item))
      <3>1. \A k \in Items : Saved(k) /\ Listed(k)
        BY <1>0, <1>7, <2>2, SavedNew DEF Unsaved, Saved
      <3>2. recovery'[i] = recovery[i] \/ recovery'[i].step = "no"
        BY <1>0, <2>2 DEF NoRecovery
      <3>3. Steady(i)
        BY <1>9, <2>2, <3>1, <3>2 DEF SameJob
      <3> QED BY <1>8, <2>2, <3>1, <3>3 DEF SameJob
    <2>3. CASE /\ job[i][recovery[i].studio] = "done" /\ UNCHANGED << batch, item >> /\ Unsaved
               /\ item[i].known /\ recovery' = [recovery EXCEPT ![i].step = "adopt"]
      <3>1. \A k \in Items : Saved(k) /\ Listed(k)
        BY <1>7, <2>3 DEF Unsaved, Saved
      <3>2. recovery'[i].step = "adopt" /\ recovery'[i].studio = recovery[i].studio
        BY <1>0, <2>3 DEF RecoveryRecord
      <3>3. Held(i) /\ Over(i, recovery[i].studio)
        BY <1>3, <2>0, <2>3 DEF ItemInv, Reading, Failed, Held, Taken, Over, Ended
      <3>4. Reading(i)'
        BY <1>3, <2>3, <3>2, <3>3 DEF Reading, Held, Over, Ended
      <3>5. ItemInv(i)' /\ ItemStep(i)
        BY <2>1, <2>3, <3>1, <3>2, <3>4 DEF SameJob
      <3> QED BY <1>8, <2>3, <3>1, <3>5 DEF SameJob
    <2>4. CASE /\ batch' = ExpiredBatch(b) /\ item' = ExpiredItems(b, item) /\ Unsaved
               /\ recovery' = [recovery EXCEPT ![i].step = "settle"]
      <3>1. \A k \in Items : Saved(k) /\ Listed(k)
        BY <1>7, <2>4 DEF Unsaved, Saved
      <3>2. ASSUME NEW k \in Items
            PROVE  SameJob(item'[k], item[k]) /\ (item'[k].state = item[k].state \/ Fenced(k))
        BY <1>0, <2>4, ExpiredOne DEF SameJob, Fenced
      <3>3. recovery'[i].step = "settle"
        BY <1>0, <2>4 DEF RecoveryRecord
      <3>4. ItemInv(i)' /\ ItemStep(i)
        BY <2>1, <3>1, <3>2, <3>3 DEF Fenced
      <3> QED BY <1>8, <3>1, <3>2, <3>4
    <2>5. ASSUME NEW s \in {"error", "cancelled"}, MaybeFinish(b, Relisted(b), Owned(i, s)),
                 recovery' = [recovery EXCEPT ![i] = NoRecovery]
          PROVE  Kept
      <3>1. \A k \in Items : Saved(k) /\ Listed(k)
        BY <1>0, <1>7, <2>5, SavedNew DEF MaybeFinish
      <3>2. /\ \A k \in Items \ {i} : item'[k] = item[k]
            /\ item'[i].state = s /\ SameJob(item'[i], item[i])
        BY <1>0, <1>6, <2>0, <2>5 DEF MaybeFinish, SameJob, ItemRecord
      <3>3. recovery'[i].step = "no"
        BY <1>0, <2>5 DEF NoRecovery
      <3>4. ItemInv(i)' /\ ItemStep(i)
        BY <2>1, <3>1, <3>2, <3>3
      <3> QED BY <1>8, <3>1, <3>2, <3>4 DEF SameJob
    <2> QED BY <1>2, <1>13, <2>2, <2>3, <2>4, <2>5 DEF RecoveryReads
  <1>14. CASE RecoveryAdopts(i)
    <2>0. /\ recovery[i].step \in {"adopt", "settle"} /\ item[i].owned /\ ~HasResult(i)
          /\ task[i].pc \notin {"prep", "post"} /\ recovery'[i].step = "no"
          /\ item[i].state \in ItemStates
      BY <1>0, <1>3, <1>5, <1>14 DEF RecoveryAdopts, ItemInv, Settled, Taken, ItemRecord
    <2>1. PICK s \in ItemStates :
             /\ MaybeFinish(b, Relisted(b), Owned(i, s))
             /\ \/ recovery[i].step = "adopt" /\ s = "done"
                \/ recovery[i].step = "settle" /\ s = item[i].state
      BY <1>0, <1>2, <1>14, <2>0 DEF RecoveryAdopts
    <2>2. \A k \in Items : Saved(k) /\ Listed(k)
      BY <1>0, <1>7, <2>1, SavedNew DEF MaybeFinish
    <2>3. /\ \A k \in Items \ {i} : item'[k] = item[k]
          /\ item'[i].state = s /\ SameJob(item'[i], item[i])
      BY <1>0, <1>6, <2>0, <2>1 DEF MaybeFinish, SameJob, ItemRecord
    <2>4. CASE recovery[i].step = "settle" /\ s = item[i].state
      <3>1. Steady(i)
        BY <1>9, <2>0, <2>2, <2>3, <2>4
      <3> QED BY <1>8, <2>2, <2>3, <3>1 DEF SameJob
    <2>5. CASE recovery[i].step = "adopt" /\ s = "done"
      <3>1. Held(i) /\ Over(i, item[i].studio)
        BY <1>3, <2>5 DEF ItemInv, Reading, Held
      <3>2. rowItem'[i].state = "done" => rowItem'[i] = item'[i]
        BY <2>0, <2>2 DEF Saved, Alike, HasResult, NewItem
      <3>3. Attempt(i)' /\ Reading(i)'
        BY <1>3, <2>0, <2>3 DEF ItemInv, Attempt, Reading, Live, Over, Ended, Failed, SameJob
      <3>4. Taken(i)'
        BY <1>3, <2>0, <2>2, <2>3, <2>5, <3>1
           DEF ItemInv, Taken, Saved, Alike, SameJob, NewItem, Held
      <3>5. Settled(i)'
        BY <1>3, <2>0, <2>3, <2>5, <3>1, <3>2 DEF Settled, Holder, Held, Over, Ended, SameJob
      <3>6. ItemStep(i)
        BY <1>3, <1>4, <3>1 DEF ItemStep, Adoptable
      <3>7. ItemInv(i)'
        BY <1>4, <3>3, <3>4, <3>5 DEF ItemInv, IsVoice
      <3> QED BY <1>8, <2>2, <2>3, <3>6, <3>7 DEF SameJob
    <2> QED BY <2>1, <2>4, <2>5
  <1> QED BY <1>1, <1>11, <1>12, <1>13, <1>14

-----------------------------------------------------------------------------
(* The crash.                                                               *)

LEMMA RestoredOne ==
    ASSUME TypeOK, NEW i \in Items
    PROVE  LET r == RestoredItem(i) IN
           /\ \/ r.state = rowItem[i].state /\ SameJob(r, rowItem[i])
              \/ r.state = "cancelled" /\ SameJob(r, rowItem[i])
                    /\ rowItem[i].state \in {"queued", "running"}
              \/ r.state = "uncertain" /\ r.owned /\ r.studio = rowItem[i].studio
                    /\ r.known = rowItem[i].known /\ IsVoice(i)
                    /\ rowItem[i].state = "running"
              \/ r.state = "queued" /\ ~r.known /\ r.owned = rowItem[i].owned
                    /\ rowItem[i].state = "running"
           /\ ~Unfinished(BatchOf[i]) => r = rowItem[i]
           /\ Unfinished(BatchOf[i]) => r.state # "running"
  <1>0. BatchOf[i] \in Batches /\ rowItem \in ItemMap /\ batch \in BatchMap
        /\ rowItem[i] \in ItemRecord
    BY ShapeAssumption DEF TypeOK, ItemMap, BatchMap
  <1>1. CASE ~Unfinished(BatchOf[i])
    BY <1>1 DEF RestoredItem, SameJob
  <1>2. CASE Unfinished(BatchOf[i]) /\ RestoredFenced(BatchOf[i])
    <2> DEFINE r == ExpiredItems(BatchOf[i], rowItem)[i]
    <2>1. RestoredItem(i) = r
      BY <1>2 DEF RestoredItem
    <2>2. \/ r = rowItem[i] /\ rowItem[i].state # "running"
          \/ /\ rowItem[i].state \in {"queued", "running"} /\ r.state = "cancelled"
             /\ SameJob(r, rowItem[i])
      BY <1>0 DEF ExpiredItems, SameJob, ItemRecord
    <2> HIDE DEF r
    <2> QED BY <1>2, <2>1, <2>2 DEF SameJob
  <1>3. CASE Unfinished(BatchOf[i]) /\ ~RestoredFenced(BatchOf[i])
    BY <1>0, <1>3 DEF RestoredItem, SameJob, ItemRecord
  <1> QED BY <1>1, <1>2, <1>3

LEMMA RestartItems ==
    ASSUME WorkInv, Restart
    PROVE  Kept
  <1> SUFFICES ASSUME NEW i \in Items PROVE ItemInv(i)' /\ ItemStep(i)
    BY DEF Kept
  <1> DEFINE b == BatchOf[i]
             r == RestoredItem(i)
  <1>0. /\ TypeOK /\ ItemInv(i) /\ b \in Batches /\ row \in [Batches -> RowRecord]
        /\ rowItem[i] \in ItemRecord
    BY ShapeAssumption DEF WorkInv, IInv, TypeOK
  <1>1. /\ item'[i] = r /\ rowItem'[i] = r /\ pass' = NoPass /\ task'[i] = NoTask
        /\ recovery'[i] = NoRecovery /\ job' = job /\ restarts' = restarts + 1
    BY DEF Restart
  <1>2. /\ row'[b].kept = row[b].kept
        /\ batch'[b].at = "listed" => Unfinished(b)
    BY <1>0 DEF Restart, RestoredBatch, RowRecord
  <1>3. ~Live(i)' /\ i \notin pass'.queued /\ task'[i].pc = "none" /\ recovery'[i].step = "no"
    BY <1>1 DEF Live, NoTask, BusyPCs, NoPass, NoRecovery
  <1>4. /\ \/ r.state = rowItem[i].state /\ SameJob(r, rowItem[i])
           \/ r.state = "cancelled" /\ SameJob(r, rowItem[i])
                 /\ rowItem[i].state \in {"queued", "running"}
           \/ r.state = "uncertain" /\ r.owned /\ r.studio = rowItem[i].studio
                 /\ r.known = rowItem[i].known /\ IsVoice(i)
                 /\ rowItem[i].state = "running"
           \/ r.state = "queued" /\ ~r.known /\ r.owned = rowItem[i].owned
                 /\ rowItem[i].state = "running"
        /\ ~Unfinished(b) => r = rowItem[i]
        /\ Unfinished(b) => r.state # "running"
    BY <1>0, RestoredOne
  <1> HIDE DEF b, r
  <1>5. r.state = "done" <=> rowItem[i].state = "done"
    BY <1>4
  <1>6. Attempt(i)' /\ Reading(i)'
    BY <1>3 DEF Attempt, Reading
  <1>7. Taken(i)'
    BY <1>0, <1>1, <1>3, <1>4 DEF ItemInv, Taken, SameJob
  <1>8. /\ Settled(i)'
        /\ item[i].state # "done" /\ r.state = "done" => Adoptable(i, item[i].studio)
    <2>1. r.state = "done" =>
             /\ Holder(r, item[i]) /\ Ended(i, item[i].studio)
             /\ item[i].owned \/ item[i].state # "done" => Over(i, item[i].studio)
      BY <1>0, <1>4, <1>5 DEF ItemInv, Settled, Holder, HasResult, SameJob
    <2> QED BY <1>1, <1>3, <2>1 DEF Settled, Holder, HasResult, Adoptable, Over, Ended
  <1>9. ASSUME ~IsVoice(i) PROVE (Unowned(i) /\ InHand(i) /\ OnRecord(i))'
    <2>0. Unowned(i) /\ OnRecord(i)
      BY <1>0, <1>9 DEF ItemInv
    <2>1. Unowned(i)'
      BY <1>1, <1>3, <1>4, <1>9, <2>0 DEF Unowned, SameJob
    <2>2. r.state # "running"
      <3>1. CASE ~Unfinished(b)
        <4>1. i \in ItemsOf(b)
          BY DEF ItemsOf, b
        <4>2. ~row[b].kept \/ rowItem[i].state \in TerminalStates
          BY <3>1, <4>1 DEF Unfinished, Terminal
        <4> QED BY <1>4, <2>0, <3>1, <4>2 DEF OnRecord, TerminalStates, b
      <3> QED BY <1>4, <3>1
    <2>3. InHand(i)'
      BY <1>1, <1>3, <2>2 DEF InHand
    <2>4. OnRecord(i)'
      <3>1. batch'[b].at = "listed" => row'[b].kept
        BY <1>2 DEF Unfinished
      <3>2. ~row'[b].kept => r.state = "queued"
        BY <1>2, <1>4, <2>0 DEF OnRecord, Unfinished, b
      <3> QED BY <1>1, <3>1, <3>2 DEF OnRecord, b
    <2> QED BY <2>1, <2>3, <2>4
  <1>10. ItemStep(i)
    <2>1. restarts' # restarts
      BY <1>0, <1>1 DEF TypeOK
    <2> QED BY <1>1, <1>3, <1>5, <1>8, <2>1 DEF ItemStep
  <1>11. ItemInv(i)'
    BY <1>6, <1>7, <1>8, <1>9 DEF ItemInv, IsVoice
  <1> QED BY <1>10, <1>11

-----------------------------------------------------------------------------
LEMMA InitWork == Init => WorkInv
  <1> SUFFICES ASSUME Init PROVE WorkInv
    OBVIOUS
  <1>1. ASSUME NEW i \in Items PROVE ItemInv(i)
    <2>1. /\ item[i] = NewItem /\ rowItem[i] = NewItem /\ task[i] = NoTask /\ ~Live(i)
          /\ recovery[i] = NoRecovery /\ pass = NoPass /\ batch[BatchOf[i]].at = "new"
      BY ShapeAssumption DEF Init, Live, NoTask, BusyPCs
    <2> QED BY <2>1 DEF ItemInv, Attempt, Taken, Reading, Settled, HasResult, Unowned, InHand,
                        OnRecord, NewItem, NoTask, NoRecovery, NoPass
  <1> QED BY <1>1, InitInv DEF WorkInv

LEMMA NextItems == WorkInv /\ [Next]_vars => Kept
  <1> SUFFICES ASSUME WorkInv, [Next]_vars PROVE Kept
    OBVIOUS
  <1>1. CASE Next
    BY <1>1, ScheduleItems, TaskStepItems, WorkerItems, OperatorItems, RecoveryItems,
       RestartItems DEF Next
  <1>2. CASE UNCHANGED vars
    <2>1. \A k \in Items : Steady(k)
      BY <1>2, UntouchedSteady DEF vars, JobKept, Over, Ended, Failed
    <2> QED BY <2>1, SteadyAll
  <1> QED BY <1>1, <1>2

LEMMA NextWork == WorkInv /\ [Next]_vars => WorkInv'
  BY NextItems, NextInv DEF WorkInv, Kept

LEMMA WorkHolds == Spec => []WorkInv /\ [][Kept]_vars
  BY InitWork, NextItems, NextWork, PTL DEF Spec

(* An image item shown as running always has the task that will settle it:  *)
(* no exception, expiry, cancellation or restart leaves it running alone.   *)
THEOREM RunningSupervised == Spec => []RunningHasTask
  <1>1. WorkInv => RunningHasTask
    BY DEF WorkInv, ItemInv, InHand, RunningHasTask
  <1> QED BY <1>1, WorkHolds, PTL

(* A crash at any moment forgets no image batch with work left: memory      *)
(* never runs ahead of the row that restore_batches would find.             *)
THEOREM WorkRestorable == Spec => []WorkSurvivesRestart
  <1>1. WorkInv => WorkSurvivesRestart
    BY DEF WorkInv, ItemInv, OnRecord, WorkSurvivesRestart, Unfinished, Terminal, ItemsOf,
           IsVoice
  <1> QED BY <1>1, WorkHolds, PTL

(* A finished image item stays finished, whichever answer, cancellation or  *)
(* expiry arrives late, until the process itself restarts.                  *)
THEOREM FinishedForGood == Spec => DoneIsFinal
  <1>1. Kept => (restarts' = restarts =>
                   \A i \in Items : ~IsVoice(i) /\ item[i].state = "done"
                                      => item'[i].state = "done")
    BY DEF Kept, ItemStep
  <1> QED BY <1>1, WorkHolds, PTL DEF DoneIsFinal

(* Once an image result is in the ledger, no write and no restart replaces  *)
(* it while its batch row is kept.                                          *)
THEOREM ResultDurable == Spec => DurableResult
  <1>1. Kept => \A i \in Items :
                   ~IsVoice(i) /\ rowItem[i].state = "done" /\ row'[BatchOf[i]].kept
                     => rowItem'[i].state = "done"
    BY DEF Kept, ItemStep
  <1> QED BY <1>1, WorkHolds, PTL DEF DurableResult

(* No path of _run_item sends an item that recovery has taken over, whatever *)
(* await recovery claimed it in.                                             *)
THEOREM OwnedStaysUnsent == Spec => OwnedNeverResent
  <1>1. Kept => \A i \in Items :
                   item[i].owned /\ task'[i].pc = "post" => task[i].pc = "post"
    BY DEF Kept, ItemStep
  <1> QED BY <1>1, WorkHolds, PTL DEF OwnedNeverResent

(* A result is adopted, by the task, by recovery or from the row after a    *)
(* crash, only from a job that the item's Studio had finished, or that it   *)
(* shows to the poll, and to no one else, in a state the Hub has no name    *)
(* for.                                                                     *)
THEOREM AdoptionJustified == Spec => AdoptsFinishedJob
  <1>1. Kept => \A i \in Items : item[i].state # "done" /\ item'[i].state = "done"
                   => \/ job[i][item[i].studio] \in {"done", "gone"}
                      \/ job[i][item[i].studio] = "other" /\ task[i].pc \in {"get", "adopt"}
    BY DEF Kept, ItemStep, Adoptable, Over, Ended
  <1> QED BY <1>1, WorkHolds, PTL DEF AdoptsFinishedJob
=============================================================================
