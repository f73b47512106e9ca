------------------------- MODULE CampaignBatch_proofs -------------------------
(***************************************************************************)
(* Theorems about CampaignBatch for every set of contacts and retries,     *)
(* every number of workers, requests and sync jobs, every batch size and   *)
(* every set of faults.                                                    *)
(***************************************************************************)
EXTENDS CampaignBatch, FiniteSetTheorems, TLAPS

-----------------------------------------------------------------------------
(* Types. *)

\* The current row of a worker may be no row at all: writing to it changes nothing then.
LEMMA FailedType ==
  ASSUME TypeOK, NEW w \in Workers
  PROVE  Failed(w) \in [Rows -> RowStates]
<1>1. row \in [Rows -> RowStates] /\ "failed" \in RowStates
  BY DEF TypeOK, RowStates
<1>2. QED
  BY <1>1 DEF Failed

\* The steps of a batch job keep the types.
LEMMA BatchType ==
  ASSUME TypeOK, NEW w \in Workers, StartBatch(w) \/ Batch(w) \/ CancelBatch(w)
  PROVE  TypeOK'
<1> USE BatchAssumption
    DEF TypeOK, Goto, JobSteps, campaignVars, rowVars, jobVars, outsideVars
<1>1. CASE StartBatch(w)
  BY <1>1 DEF StartBatch
<1>2. CASE FetchCampaign(w)
  BY <1>2 DEF FetchCampaign
<1>3. CASE ClaimQueuedRuns(w)
  <2>1. ASSUME NEW S \in Claims PROVE S \subseteq Rows /\ Claimed(S) \in [Rows -> RowStates]
    BY DEF Claims, ClaimableRows, Queued, Claimed, RowStates
  <2>2. QED
    BY <1>3, <2>1 DEF ClaimQueuedRuns
<1>4. CASE DispatchCall(w)
  <2>1. ASSUME NEW r \in NextRows(w) PROVE r \in Rows
    BY DEF NextRows
  <2>2. PICK r \in NextRows(w) : cur' = [cur EXCEPT ![w] = r]
                                 /\ dials' \in {dials, [dials EXCEPT ![r] = @ + 1]}
    BY <1>4 DEF DispatchCall
  <2>3. dials' \in [Rows -> Nat]
    BY <2>1, <2>2
  <2>4. cur' \in [Workers -> Rows \cup {NoRow}]
    BY <2>1, <2>2
  <2>5. pc' \in [Workers -> JobSteps]
    BY <1>4 DEF DispatchCall
  <2>6. QED
    BY <1>4, <2>3, <2>4, <2>5 DEF DispatchCall
<1>5. CASE MarkProcessed(w)
  <2>1. [row EXCEPT ![cur[w]] = "processed"] \in [Rows -> RowStates]
    BY DEF RowStates
  <2>2. QED
    BY <1>5, <2>1 DEF MarkProcessed
<1>6. CASE CountProcessed(w)
  <2>1. Counted(w) \in Nat
    BY DEF Counted
  <2>2. todo' \in [Workers -> SUBSET Rows] /\ cur' \in [Workers -> Rows \cup {NoRow}]
    BY <1>6 DEF CountProcessed, RowDone
  <2>3. QED
    BY <1>6, <2>1, <2>2 DEF CountProcessed, RowDone
<1>7. CASE MarkFailed(w)
  <2>1. todo' \in [Workers -> SUBSET Rows] /\ cur' \in [Workers -> Rows \cup {NoRow}]
    BY <1>7 DEF MarkFailed, RowDone
  <2>2. row' \in [Rows -> RowStates]
    BY <1>7, FailedType DEF MarkFailed
  <2>3. QED
    BY <1>7, <2>1, <2>2 DEF MarkFailed, RowDone
<1>8. ASSUME NEW r \in Rows, RevertRun(w, r) PROVE TypeOK'
  BY <1>8 DEF RevertRun, Reverted, RowStates
<1>9. CASE ReportBatch(w) \/ ReportBatchFailed(w)
  BY <1>9 DEF ReportBatch, ReportBatchFailed
<1>10. CASE FailCampaign(w)
  BY <1>10 DEF FailCampaign, States
<1>11. CASE CancelBatch(w)
  BY <1>11 DEF CancelBatch, SmallerOf
<1>12. QED
  BY <1>1, <1>2, <1>3, <1>4, <1>5, <1>6, <1>7, <1>8, <1>9, <1>10, <1>11 DEF Batch

\* So do the sync jobs, the requests and the orchestrator.
LEMMA OutsideType ==
  ASSUME TypeOK,
         \/ \E s \in Syncs : Sync(s) \/ CancelSync(s)
         \/ \E q \in Requests : Request(q) \/ \E kind \in Kinds : ReadState(q, kind)
         \/ \E r \in Retries : ScheduleRetry(r) \/ RetryDue(r)
         \/ Schedule
         \/ Monitor
         \/ Terminating \/ UNCHANGED vars
  PROVE  TypeOK'
<1> USE BatchAssumption
    DEF TypeOK, campaignVars, rowVars, jobVars, outsideVars, vars
<1>1. ASSUME NEW s \in Syncs, Sync(s) \/ CancelSync(s) PROVE TypeOK'
  BY <1>1 DEF Sync, InsertRows, ActivateCampaign, CloseCampaign, FailSync, SyncWrites,
     PublishSyncCompleted, CancelSync, SyncGoto, SyncSteps, States, RowStates
<1>2. ASSUME NEW q \in Requests, Request(q) PROVE TypeOK'
  <2>1. CASE WriteState(q)
    BY <2>1 DEF WriteState, Target, States, AllKinds, RequestSteps
  <2>2. CASE EnqueueSync(q)
    BY <2>2 DEF EnqueueSync, SyncGoto, SyncSteps, RequestSteps
  <2>3. QED
    BY <1>2, <2>1, <2>2 DEF Request
<1>3. ASSUME NEW q \in Requests, NEW kind \in Kinds, ReadState(q, kind) PROVE TypeOK'
  BY <1>3, ScopeAssumption DEF ReadState, RequestSteps
<1>4. ASSUME NEW r \in Retries, ScheduleRetry(r) \/ RetryDue(r) PROVE TypeOK'
  BY <1>4 DEF ScheduleRetry, RetryDue, RowStates, Rows
<1>5. CASE Schedule
  BY <1>5 DEF Schedule, ReadForBatch, EnqueueBatch, TripBeforeBatch, States
<1>6. CASE Monitor
  BY <1>6 DEF Monitor, ReadForCompletion, CheckCompletion, CompleteCampaign, States
<1>7. CASE Terminating \/ UNCHANGED vars
  BY <1>7 DEF Terminating
<1>8. QED
  BY <1>1, <1>2, <1>3, <1>4, <1>5, <1>6, <1>7

LEMMA TypeStep == TypeOK /\ [Next]_vars => TypeOK'
  BY BatchType, OutsideType DEF Next

\* Every variable keeps its type.
THEOREM TypeCorrect == Spec => []TypeOK
<1>1. Init => TypeOK
  BY BatchAssumption DEF Init, TypeOK, States, RowStates, JobSteps, SyncSteps, RequestSteps
<1>2. QED
  BY <1>1, TypeStep, PTL DEF Spec
-----------------------------------------------------------------------------
(* Who works on which row. *)

\* The row of a job that holds a verdict in its hands is one it claimed.
LEMMA CurrentRow ==
  ASSUME TypeOK, RowsAreOwned, NEW w \in Workers, pc[w] \in Mid
  PROVE  /\ cur[w] \in todo[w] /\ cur[w] \in Rows
         /\ \A v \in Workers : v # w => cur[w] \notin todo[v]
  BY DEF TypeOK, RowsAreOwned

\* A row that is dialed next was never dialed.
LEMMA NextRowIsFresh ==
  ASSUME TypeOK, RowsAreOwned, NEW w \in Workers, pc[w] = "dial", NEW r \in NextRows(w)
  PROVE  r \in todo[w] /\ r \in Rows /\ dials[r] = 0 /\ row[r] = "processing"
  BY DEF TypeOK, RowsAreOwned, NextRows, Mid

\* Claiming: the rows of the claim are in the queue, so nobody owns them and
\* nobody dialed them.
LEMMA OwnedClaim ==
  ASSUME TypeOK, RowsAreOwned, NEW w \in Workers, ClaimQueuedRuns(w)
  PROVE  RowsAreOwned'
<1>0. ASSUME NEW S \in Claims
      PROVE  /\ S \subseteq Rows /\ \A r \in S : row[r] = "queued"
             /\ \A r \in S : dials[r] = 0 /\ \A v \in Workers : r \notin todo[v]
  <2>1. S \subseteq Rows /\ \A r \in S : row[r] = "queued"
    BY DEF Claims, ClaimableRows, Queued
  <2>2. QED
    BY <2>1 DEF TypeOK, RowsAreOwned, Dialed, Settled
<1>1. CASE UNCHANGED <<row, todo>>
  BY <1>1 DEF ClaimQueuedRuns, TypeOK, RowsAreOwned, Mid, Goto, Dialed
<1>lost. ASSUME NEW S \in Claims, row' = Claimed(S), UNCHANGED todo,
                pc' = [pc EXCEPT ![w] = "reportFailed"]
         PROVE  RowsAreOwned'
  <2>1. pc[w] = "claim" /\ UNCHANGED <<dials, cur>>
    BY DEF ClaimQueuedRuns, Goto
  <2>2. todo[w] = {}
    BY <2>1 DEF RowsAreOwned, Mid
  <2>3. \A v \in Workers : \A r \in todo[v] : row'[r] = row[r]
    BY <1>0, <1>lost DEF Claimed, TypeOK
  <2>4. \A r \in Rows : row'[r] = row[r] \/ row'[r] = "processing"
    BY <1>lost DEF Claimed
  <2>5. /\ pc'[w] = "reportFailed"
        /\ \A v \in Workers : v # w => pc'[v] = pc[v]
    BY <1>lost DEF TypeOK
  <2>6. QED
    BY <1>lost, <2>1, <2>2, <2>3, <2>4, <2>5 DEF TypeOK, RowsAreOwned, Mid, Dialed, Settled
<1>2. CASE \E S \in Claims \ {{}} :
             /\ pc' = [pc EXCEPT ![w] = "dial"]
             /\ row' = Claimed(S)
             /\ todo' = [todo EXCEPT ![w] = S]
  <2>1. PICK S \in Claims \ {{}} : /\ pc' = [pc EXCEPT ![w] = "dial"]
                                  /\ row' = Claimed(S)
                                  /\ todo' = [todo EXCEPT ![w] = S]
    BY <1>2
  <2>2. S \subseteq Rows /\ \A r \in S : row[r] = "queued"
    BY <1>0
  <2>3. \A r \in S : dials[r] = 0 /\ row'[r] = "processing" /\ \A v \in Workers : r \notin todo[v]
    BY <1>0, <2>1, <2>2 DEF Claimed
  <2>4. \A r \in Rows \ S : row'[r] = row[r]
    BY <2>1 DEF Claimed
  <2>5. dials' = dials /\ cur' = cur /\ w \in Workers
    BY DEF ClaimQueuedRuns
  <2>6. \A v \in Workers : v # w => todo'[v] = todo[v] /\ pc'[v] = pc[v]
    BY <2>1 DEF TypeOK
  <2>7. todo'[w] = S /\ pc'[w] = "dial"
    BY <2>1 DEF TypeOK
  <2>8. QED
    BY <2>2, <2>3, <2>4, <2>5, <2>6, <2>7 DEF TypeOK, RowsAreOwned, Mid, Dialed, Settled
<1>3. QED
  BY <1>1, <1>lost, <1>2 DEF ClaimQueuedRuns, Goto

\* Dialing: the row is the job's own and was not dialed yet.
LEMMA OwnedDispatch ==
  ASSUME TypeOK, RowsAreOwned, NEW w \in Workers, DispatchCall(w)
  PROVE  RowsAreOwned'
<1>1. PICK r \in NextRows(w) :
        /\ cur' = [cur EXCEPT ![w] = r]
        /\ \/ /\ pc' = [pc EXCEPT ![w] = "mark"] /\ dials' = [dials EXCEPT ![r] = @ + 1]
           \/ /\ pc' = [pc EXCEPT ![w] = "markFailed"]
              /\ dials' \in {dials, [dials EXCEPT ![r] = @ + 1]}
           \/ /\ pc' = [pc EXCEPT ![w] = "revert"] /\ dials' = dials
  BY DEF DispatchCall, Goto
<1>2. pc[w] = "dial" /\ UNCHANGED <<row, todo>>
  BY DEF DispatchCall, Goto
<1>3. r \in todo[w] /\ r \in Rows /\ dials[r] = 0 /\ row[r] = "processing"
  BY <1>2, NextRowIsFresh
<1>4. \A v \in Workers : v # w => cur'[v] = cur[v] /\ pc'[v] = pc[v] /\ r \notin todo[v]
  BY <1>1, <1>3 DEF TypeOK, RowsAreOwned
<1>5. /\ cur'[w] = r
      /\ pc'[w] \in {"mark", "markFailed", "revert"}
      /\ pc'[w] = "mark" => dials'[r] > 0
      /\ pc'[w] = "revert" => dials'[r] = 0
  BY <1>1, <1>3 DEF TypeOK
<1>6. \A s \in Rows : s # r => dials'[s] = dials[s]
  BY <1>1, <1>3 DEF TypeOK
<1>7. QED
  BY <1>2, <1>3, <1>4, <1>5, <1>6 DEF TypeOK, RowsAreOwned, Mid, Dialed, Settled

\* The verdict: only the row in hand changes, and it leaves the job or stays in hand.
LEMMA OwnedVerdict ==
  ASSUME TypeOK, RowsAreOwned, NEW w \in Workers,
         MarkProcessed(w) \/ CountProcessed(w) \/ MarkFailed(w)
  PROVE  RowsAreOwned'
<1>1. /\ pc[w] \in Mid /\ UNCHANGED dials
      /\ pc' = [pc EXCEPT ![w] = pc'[w]]
      /\ cur' = [cur EXCEPT ![w] = cur'[w]]
      /\ todo' = [todo EXCEPT ![w] = todo'[w]]
      /\ row' \in {row, [row EXCEPT ![cur[w]] = "processed"], [row EXCEPT ![cur[w]] = "failed"]}
  BY DEF MarkProcessed, CountProcessed, MarkFailed, RowDone, Goto, Mid, Failed, rowVars, TypeOK
<1>2. /\ cur[w] \in todo[w] /\ cur[w] \in Rows
      /\ \A v \in Workers : v # w => cur[w] \notin todo[v]
  BY <1>1, CurrentRow
<1>3. \A r \in Rows : r # cur[w] => row'[r] = row[r]
  BY <1>1 DEF TypeOK
<1>4. \A v \in Workers : v # w => pc'[v] = pc[v] /\ cur'[v] = cur[v] /\ todo'[v] = todo[v]
  BY <1>1 DEF TypeOK
<1>5. row'[cur[w]] \in {"processing"} \cup Settled
  BY <1>1, <1>2 DEF TypeOK, RowsAreOwned, Settled
<1>6. \/ /\ cur'[w] = cur[w] /\ todo'[w] = todo[w] /\ pc'[w] \in {"count", "markFailed"}
         /\ pc'[w] = "count" => pc[w] = "mark"
         /\ row'[cur[w]] \in {"processing", "processed"}
      \/ /\ todo'[w] = todo[w] \ {cur[w]}
         /\ pc'[w] = IF todo[w] = {cur[w]} THEN "report" ELSE "dial"
  BY <1>1, <1>2 DEF MarkProcessed, CountProcessed, MarkFailed, RowDone, Goto, rowVars, TypeOK,
     RowsAreOwned
<1>7. QED
  BY <1>1, <1>2, <1>3, <1>4, <1>5, <1>6 DEF TypeOK, RowsAreOwned, Mid, Dialed, Settled

\* A row goes back to the queue only undialed, and leaves the job with that.
LEMMA OwnedRevert ==
  ASSUME TypeOK, RowsAreOwned, NEW w \in Workers, NEW r \in Rows, RevertRun(w, r)
  PROVE  RowsAreOwned'
<1>1. /\ r \in todo[w] /\ pc[w] = "revert" /\ dials[r] = 0 /\ UNCHANGED dials
      /\ \A v \in Workers : v # w => r \notin todo[v]
  BY DEF RevertRun, Goto, RowsAreOwned, TypeOK, Mid
<1>2. \A s \in Rows : s # r => row'[s] = row[s]
  BY DEF RevertRun, Reverted, TypeOK
<1>3. \A v \in Workers : v # w => pc'[v] = pc[v] /\ cur'[v] = cur[v] /\ todo'[v] = todo[v]
  BY DEF RevertRun, Goto, TypeOK
<1>4. /\ todo'[w] = todo[w] \ {r}
      /\ pc'[w] = IF todo[w] = {r} THEN "reportFailed" ELSE "revert"
  BY DEF RevertRun, Goto, TypeOK
<1>5. QED
  BY <1>1, <1>2, <1>3, <1>4 DEF TypeOK, RowsAreOwned, Mid, Dialed, Settled

\* No other step of a job touches the rows.
LEMMA OwnedIdle ==
  ASSUME TypeOK, RowsAreOwned, NEW w \in Workers,
         \/ StartBatch(w) \/ FetchCampaign(w) \/ ReportBatch(w) \/ ReportBatchFailed(w)
         \/ FailCampaign(w) \/ CancelBatch(w)
  PROVE  RowsAreOwned'
<1>1. /\ UNCHANGED <<row, dials>>
      /\ todo'[w] = {} /\ pc'[w] \notin Mid
      /\ \A v \in Workers : v # w => pc'[v] = pc[v] /\ cur'[v] = cur[v] /\ todo'[v] = todo[v]
  BY DEF StartBatch, FetchCampaign, ReportBatch, ReportBatchFailed, FailCampaign, CancelBatch,
     Goto, rowVars, TypeOK, RowsAreOwned, Mid
<1>2. QED
  BY <1>1 DEF TypeOK, RowsAreOwned, Mid, Dialed, Settled

\* Sync jobs and retries add rows that did not exist; requests and the
\* orchestrator leave the rows alone.
LEMMA OwnedOutside ==
  ASSUME TypeOK, RowsAreOwned, UNCHANGED <<jobVars, dials>>,
         \A r \in Rows : row'[r] = row[r] \/ row[r] = "absent"
  PROVE  RowsAreOwned'
<1>1. \A w \in Workers : \A r \in todo[w] : r \in Rows /\ row'[r] = row[r]
  BY DEF TypeOK, RowsAreOwned
<1>2. \A r \in Dialed : row'[r] = row[r]
  BY DEF RowsAreOwned, Dialed, Settled
<1>3. Dialed' = Dialed
  BY DEF Dialed
<1>4. QED
  BY <1>1, <1>2, <1>3 DEF RowsAreOwned, jobVars

\* What every step outside a batch job does to the rows.
LEMMA OutsideRows ==
  ASSUME TypeOK,
         \/ \E s \in Syncs : Sync(s) \/ CancelSync(s)
         \/ \E q \in Requests : Request(q) \/ \E kind \in Kinds : ReadState(q, kind)
         \/ \E r \in Retries : ScheduleRetry(r) \/ RetryDue(r)
         \/ Schedule
         \/ Monitor
         \/ Terminating \/ UNCHANGED vars
  PROVE  /\ UNCHANGED <<jobVars, dials, processed>>
         /\ \A r \in Rows : row'[r] = row[r] \/ (row[r] = "absent" /\ row'[r] = "queued")
<1> USE DEF TypeOK, campaignVars, rowVars, jobVars, vars
<1>1. ASSUME NEW s \in Syncs, Sync(s) \/ CancelSync(s)
      PROVE  /\ UNCHANGED <<jobVars, dials, processed>>
             /\ \A r \in Rows : row'[r] = row[r] \/ (row[r] = "absent" /\ row'[r] = "queued")
  BY <1>1 DEF Sync, InsertRows, ActivateCampaign, CloseCampaign, FailSync, SyncWrites,
     PublishSyncCompleted, CancelSync
<1>2. ASSUME NEW q \in Requests, Request(q) \/ \E kind \in Kinds : ReadState(q, kind)
      PROVE  UNCHANGED <<jobVars, dials, processed, row>>
  BY <1>2 DEF Request, WriteState, EnqueueSync, ReadState
<1>3. ASSUME NEW r \in Retries, ScheduleRetry(r) \/ RetryDue(r)
      PROVE  /\ UNCHANGED <<jobVars, dials, processed>>
             /\ \A s \in Rows : row'[s] = row[s] \/ (row[s] = "absent" /\ row'[s] = "queued")
  BY <1>3 DEF ScheduleRetry, RetryDue
<1>4. CASE Schedule \/ Monitor
  BY <1>4 DEF Schedule, ReadForBatch, EnqueueBatch, TripBeforeBatch, Monitor, ReadForCompletion,
     CheckCompletion, CompleteCampaign
<1>5. CASE Terminating \/ UNCHANGED vars
  BY <1>5 DEF Terminating
<1>6. QED
  BY <1>1, <1>2, <1>3, <1>4, <1>5

LEMMA OwnedStep == TypeOK /\ RowsAreOwned /\ [Next]_vars => RowsAreOwned'
<1> SUFFICES ASSUME TypeOK, RowsAreOwned, [Next]_vars PROVE RowsAreOwned'
  OBVIOUS
<1>1. ASSUME NEW w \in Workers, StartBatch(w) \/ Batch(w) \/ CancelBatch(w) PROVE RowsAreOwned'
  BY <1>1, OwnedClaim, OwnedDispatch, OwnedVerdict, OwnedRevert, OwnedIdle DEF Batch
<1>2. CASE \A w \in Workers : ~(StartBatch(w) \/ Batch(w) \/ CancelBatch(w))
  BY <1>2, OutsideRows, OwnedOutside DEF Next
<1>3. QED
  BY <1>1, <1>2

\* Every claimed row belongs to one job, and a dialed row is never back in the queue.
THEOREM OwnedRows == Spec => []RowsAreOwned
<1>1. Init => RowsAreOwned
  BY DEF Init, RowsAreOwned, Mid, Dialed
<1>2. QED
  BY <1>1, OwnedStep, TypeCorrect, PTL DEF Spec

-----------------------------------------------------------------------------
(* Nobody is dialed twice. *)

LEMMA DialOnceStep == TypeOK /\ RowsAreOwned /\ DialOnce /\ [Next]_vars => DialOnce'
<1> SUFFICES ASSUME TypeOK, RowsAreOwned, DialOnce, [Next]_vars PROVE DialOnce'
  OBVIOUS
<1>1. ASSUME NEW w \in Workers, DispatchCall(w) PROVE DialOnce'
  <2>1. PICK r \in NextRows(w) : dials' \in {dials, [dials EXCEPT ![r] = @ + 1]}
    BY <1>1 DEF DispatchCall
  <2>2. r \in Rows /\ dials[r] = 0
    BY <1>1, NextRowIsFresh DEF DispatchCall, Goto
  <2>3. QED
    BY <2>1, <2>2 DEF TypeOK, DialOnce
<1>2. CASE UNCHANGED dials
  BY <1>2 DEF DialOnce
<1>3. ASSUME NEW w \in Workers, StartBatch(w) \/ Batch(w) \/ CancelBatch(w), ~DispatchCall(w)
      PROVE  UNCHANGED dials
  BY <1>3 DEF Batch, StartBatch, FetchCampaign, ClaimQueuedRuns, MarkProcessed, CountProcessed,
     MarkFailed, RevertRun, ReportBatch, ReportBatchFailed, FailCampaign, CancelBatch, rowVars
<1>4. CASE \A w \in Workers : ~(StartBatch(w) \/ Batch(w) \/ CancelBatch(w))
  BY <1>2, <1>4, OutsideRows DEF Next
<1>5. QED
  BY <1>1, <1>2, <1>3, <1>4 DEF Batch

\* No row is dialed twice, with any number of workers and under every fault of
\* AllFaults: failed writes, cancelled jobs and calls that were placed although
\* the dispatcher saw an exception.
THEOREM DialedOnce == Spec => []DialOnce
<1>1. Init => DialOnce
  BY DEF Init, DialOnce
<1>2. QED
  BY <1>1, DialOnceStep, OwnedRows, TypeCorrect, PTL DEF Spec
-----------------------------------------------------------------------------
(* No row is forgotten by its job, if nobody drops the job and no           *)
(* transaction raises.                                                      *)

Undisturbed == Faults \cap {"cancel", "db"} = {}

\* A row leaves its job with its verdict, and it has one when the job counts.
Remembered ==
  /\ NoRowForgotten
  /\ \A w \in Workers : pc[w] = "count" => row[cur[w]] = "processed"

LEMMA RememberedClaim ==
  ASSUME Undisturbed, TypeOK, RowsAreOwned, Remembered, NEW w \in Workers, ClaimQueuedRuns(w)
  PROVE  Remembered'
<1>1. pc[w] = "claim" /\ todo[w] = {} /\ UNCHANGED cur
  BY DEF ClaimQueuedRuns, Goto, RowsAreOwned, Mid
<1>2. CASE UNCHANGED <<row, todo>>
  BY <1>1, <1>2 DEF ClaimQueuedRuns, Goto, Undisturbed, TypeOK, Remembered, NoRowForgotten
<1>3. ASSUME NEW S \in Claims, row' = Claimed(S), todo' = [todo EXCEPT ![w] = S],
             pc' = [pc EXCEPT ![w] = "dial"]
      PROVE  Remembered'
  <2>1. \A r \in Rows : row'[r] = IF r \in S THEN "processing" ELSE row[r]
    BY <1>3 DEF Claimed
  <2>2. \A r \in S : row[r] = "queued"
    BY DEF Claims, ClaimableRows, Queued
  <2>3. todo'[w] = S /\ \A v \in Workers : v # w => todo'[v] = todo[v]
    BY <1>3 DEF TypeOK
  <2>4. NoRowForgotten'
    BY <1>1, <2>1, <2>3 DEF Remembered, NoRowForgotten
  <2>5. ASSUME NEW v \in Workers, pc'[v] = "count" PROVE row'[cur'[v]] = "processed"
    <3>1. pc[v] = "count"
      BY <1>3, <2>5 DEF TypeOK
    <3>2. cur[v] \in Rows /\ row[cur[v]] = "processed"
      BY <3>1, CurrentRow DEF Remembered, Mid
    <3>3. QED
      BY <1>1, <2>1, <2>2, <3>2
  <2>6. QED
    BY <2>4, <2>5 DEF Remembered
<1>4. QED
  BY <1>2, <1>3 DEF ClaimQueuedRuns, Goto, Undisturbed

\* Neither do verdicts and put-backs forget a row: it is no longer processing then.
LEMMA RememberedVerdict ==
  ASSUME Undisturbed, TypeOK, RowsAreOwned, Remembered, NEW w \in Workers, NEW r \in Rows,
         \/ (MarkProcessed(w) \/ CountProcessed(w) \/ MarkFailed(w)) /\ r = cur[w]
         \/ RevertRun(w, r)
  PROVE  Remembered'
<1>1. /\ row'[r] # "processing" /\ (pc'[w] = "count" => row'[r] = "processed" /\ cur'[w] = r)
      /\ todo[w] \ {r} \subseteq todo'[w] /\ r \in todo[w]
  <2>1. pc[w] \in Mid => cur[w] \in todo[w]
    BY DEF RowsAreOwned
  <2>2. CASE MarkProcessed(w) /\ r = cur[w]
    BY <2>1, <2>2 DEF MarkProcessed, Goto, Undisturbed, TypeOK, Mid
  <2>3. CASE CountProcessed(w) /\ r = cur[w]
    BY <2>1, <2>3 DEF CountProcessed, RowDone, Goto, rowVars, Undisturbed, TypeOK, Mid, Remembered
  <2>4. CASE MarkFailed(w) /\ r = cur[w]
    BY <2>1, <2>4 DEF MarkFailed, Failed, RowDone, Goto, Undisturbed, TypeOK, Mid
  <2>5. CASE RevertRun(w, r)
    BY <2>5 DEF RevertRun, Reverted, Goto, Undisturbed, TypeOK
  <2>6. QED
    BY <2>2, <2>3, <2>4, <2>5
<1>2. \A s \in Rows : s # r => row'[s] = row[s]
  BY DEF MarkProcessed, CountProcessed, MarkFailed, Failed, RevertRun, Reverted, rowVars, TypeOK
<1>3. \A v \in Workers : v # w => pc'[v] = pc[v] /\ cur'[v] = cur[v] /\ todo'[v] = todo[v]
  BY DEF MarkProcessed, CountProcessed, MarkFailed, RevertRun, RowDone, Goto, TypeOK
<1>4. ASSUME NEW v \in Workers, v # w, pc'[v] = "count" PROVE row'[cur'[v]] = "processed"
  <2>1. cur[v] \in Rows /\ cur[v] \in todo[v] /\ row[cur[v]] = "processed"
    BY <1>3, <1>4, CurrentRow DEF Remembered, Mid
  <2>2. cur[v] # r
    BY <1>1, <1>4, <2>1 DEF RowsAreOwned
  <2>3. QED
    BY <1>2, <1>3, <1>4, <2>1, <2>2
<1>5. NoRowForgotten'
  BY <1>1, <1>2, <1>3 DEF Remembered, NoRowForgotten
<1>6. QED
  BY <1>1, <1>4, <1>5 DEF Remembered

LEMMA RememberedStep ==
  Undisturbed /\ TypeOK /\ RowsAreOwned /\ Remembered /\ [Next]_vars => Remembered'
<1> SUFFICES ASSUME Undisturbed, TypeOK, RowsAreOwned, Remembered, [Next]_vars
             PROVE  Remembered'
  OBVIOUS
<1>1. ASSUME NEW w \in Workers, ClaimQueuedRuns(w) PROVE Remembered'
  BY <1>1, RememberedClaim
<1>2. ASSUME NEW w \in Workers, MarkProcessed(w) \/ CountProcessed(w) \/ MarkFailed(w)
      PROVE  Remembered'
  <2>1. cur[w] \in Rows
    BY <1>2, CurrentRow DEF MarkProcessed, CountProcessed, MarkFailed, RowDone, Goto, Mid
  <2>2. QED
    BY <1>2, <2>1, RememberedVerdict
<1>3. ASSUME NEW w \in Workers, NEW r \in Rows, RevertRun(w, r) PROVE Remembered'
  BY <1>3, RememberedVerdict
<1>4. ASSUME NEW w \in Workers,
             \/ StartBatch(w) \/ FetchCampaign(w) \/ DispatchCall(w) \/ ReportBatch(w)
             \/ ReportBatchFailed(w) \/ FailCampaign(w)
      PROVE  Remembered'
  <2>1. /\ UNCHANGED <<row, todo>>
        /\ \A v \in Workers : pc'[v] = "count" => pc[v] = "count" /\ cur'[v] = cur[v]
    BY <1>4 DEF StartBatch, FetchCampaign, DispatchCall, ReportBatch, ReportBatchFailed,
       FailCampaign, Goto, rowVars, TypeOK
  <2>2. QED
    BY <2>1 DEF Remembered, NoRowForgotten
<1>5. ASSUME NEW w \in Workers, CancelBatch(w) PROVE FALSE
  BY <1>5 DEF CancelBatch, Undisturbed
<1>6. CASE \A w \in Workers : ~(StartBatch(w) \/ Batch(w) \/ CancelBatch(w))
  <2>1. /\ UNCHANGED <<todo, cur, pc>>
        /\ \A r \in Rows : row'[r] = row[r] \/ (row[r] = "absent" /\ row'[r] = "queued")
    BY <1>6, OutsideRows DEF Next, jobVars
  <2>2. \A w \in Workers : pc[w] = "count" => cur[w] \in Rows
    BY CurrentRow DEF Mid
  <2>3. QED
    BY <2>1, <2>2 DEF Remembered, NoRowForgotten
<1>7. QED
  BY <1>1, <1>2, <1>3, <1>4, <1>5, <1>6 DEF Batch

\* Every row that is processing is in the hands of a job, with any number of
\* jobs and syncs: each path through process_batch leaves its rows with a verdict
\* or in the queue.
THEOREM RowsRemembered == ASSUME Undisturbed PROVE Spec => []NoRowForgotten
<1>1. Init => Remembered
  BY DEF Init, Remembered, NoRowForgotten
<1>2. Remembered => NoRowForgotten
  BY DEF Remembered
<1>3. TypeOK /\ RowsAreOwned /\ Remembered /\ [Next]_vars => Remembered'
  BY RememberedStep
<1>4. QED
  BY <1>1, <1>2, <1>3, OwnedRows, TypeCorrect, PTL DEF Spec
-----------------------------------------------------------------------------
(* The count of the processed rows. *)

\* Why processed_rows stays below the dialed rows: so does every copy of it that
\* a job counts from, and a job that is about to count has dialed one more.
CopiesCovered ==
  /\ ProcessedNeverOverstates
  /\ \A w \in Workers : seen[w] =< Cardinality(Dialed)
  /\ \A w \in Workers : pc[w] \in {"mark", "count"} => seen[w] < Cardinality(Dialed)

LEMMA DialedFinite ==
  ASSUME NEW S, S \subseteq Rows
  PROVE  IsFiniteSet(S) /\ Cardinality(S) \in Nat
<1>1. IsFiniteSet(Rows)
  BY RowAssumption, FS_Union DEF Rows
<1>2. QED
  BY <1>1, FS_Subset, FS_CardinalityType

\* Dialing a row for the first time adds one to the dialed rows.
LEMMA DialAddsOne ==
  ASSUME TypeOK, RowsAreOwned, NEW w \in Workers, NEW r \in NextRows(w), pc[w] = "dial",
         dials' = [dials EXCEPT ![r] = @ + 1]
  PROVE  Cardinality(Dialed') = Cardinality(Dialed) + 1
<1>1. r \in Rows /\ dials[r] = 0
  BY NextRowIsFresh
<1>2. Dialed' = Dialed \cup {r} /\ r \notin Dialed /\ Dialed \subseteq Rows
  BY <1>1 DEF TypeOK, Dialed
<1>3. IsFiniteSet(Dialed)
  BY <1>2, DialedFinite
<1>4. QED
  BY <1>2, <1>3, FS_AddElement

LEMMA CopiesStep == TypeOK /\ RowsAreOwned /\ CopiesCovered /\ [Next]_vars => CopiesCovered'
<1> SUFFICES ASSUME TypeOK, RowsAreOwned, CopiesCovered, [Next]_vars PROVE CopiesCovered'
  OBVIOUS
<1>1. Cardinality(Dialed) \in Nat
  BY DialedFinite DEF Dialed
<1>dial. ASSUME NEW w \in Workers, NEW r \in NextRows(w), pc[w] = "dial",
             dials' = [dials EXCEPT ![r] = @ + 1]
      PROVE  Cardinality(Dialed') = Cardinality(Dialed) + 1
  BY <1>dial, DialAddsOne
<1> USE DEF CopiesCovered, ProcessedNeverOverstates, TypeOK, campaignVars, rowVars, jobVars, Goto
<1>2. ASSUME NEW w \in Workers, DispatchCall(w) PROVE CopiesCovered'
  <2>1. PICK r \in NextRows(w) :
          \/ dials' = [dials EXCEPT ![r] = @ + 1]
          \/ dials' = dials /\ pc'[w] \notin {"mark", "count"}
    BY <1>2 DEF DispatchCall
  <2>2. pc[w] = "dial" /\ UNCHANGED <<processed, seen>>
    BY <1>2 DEF DispatchCall
  <2>3. \A v \in Workers : v # w => pc'[v] = pc[v]
    BY <1>2 DEF DispatchCall
  <2>4. CASE dials' = [dials EXCEPT ![r] = @ + 1]
    <3>1. Cardinality(Dialed') = Cardinality(Dialed) + 1
      BY <1>dial, <2>2, <2>4
    <3>2. QED
      BY <1>1, <2>2, <3>1
  <2>5. CASE dials' = dials /\ pc'[w] \notin {"mark", "count"}
    BY <2>2, <2>3, <2>5 DEF Dialed
  <2>6. QED
    BY <2>1, <2>4, <2>5
<1>3. ASSUME NEW w \in Workers, FetchCampaign(w) PROVE CopiesCovered'
  BY <1>3 DEF FetchCampaign, Dialed
<1>4. ASSUME NEW w \in Workers, CountProcessed(w) PROVE CopiesCovered'
  <2>1. Dialed' = Dialed /\ pc[w] = "count" /\ UNCHANGED seen
    BY <1>4 DEF CountProcessed, RowDone, Dialed
  <2>2. processed' = processed \/ processed' = Counted(w)
    BY <1>4 DEF CountProcessed
  <2>3. pc'[w] \notin {"mark", "count"} /\ \A v \in Workers : v # w => pc'[v] = pc[v]
    BY <1>4 DEF CountProcessed, RowDone
  <2>4. QED
    BY <1>1, <2>1, <2>2, <2>3 DEF Counted
<1>5. ASSUME NEW w \in Workers,
             \/ StartBatch(w) \/ ClaimQueuedRuns(w) \/ MarkProcessed(w) \/ MarkFailed(w)
             \/ (\E r \in Rows : RevertRun(w, r)) \/ ReportBatch(w) \/ ReportBatchFailed(w)
             \/ FailCampaign(w) \/ CancelBatch(w)
      PROVE  CopiesCovered'
  <2>1. UNCHANGED <<processed, dials, seen>>
    BY <1>5 DEF StartBatch, ClaimQueuedRuns, MarkProcessed, MarkFailed, RevertRun, ReportBatch,
       ReportBatchFailed, FailCampaign, CancelBatch
  <2>2. /\ pc'[w] \in {"mark", "count"} => pc[w] \in {"mark", "count"}
        /\ \A v \in Workers : v # w => pc'[v] = pc[v]
    BY <1>5 DEF StartBatch, ClaimQueuedRuns, MarkProcessed, MarkFailed, RowDone, RevertRun,
       ReportBatch, ReportBatchFailed, FailCampaign, CancelBatch
  <2>3. QED
    BY <2>1, <2>2 DEF Dialed
<1>6. CASE \A w \in Workers : ~(StartBatch(w) \/ Batch(w) \/ CancelBatch(w))
  BY <1>6, OutsideRows DEF Next, Dialed
<1>7. QED
  BY <1>2, <1>3, <1>4, <1>5, <1>6 DEF Batch

\* processed_rows never exceeds the number of rows that were dialed, although
\* every batch counts from a stale copy and batches overwrite each other's count.
THEOREM NeverOverstates == Spec => []ProcessedNeverOverstates
<1>1. Init => CopiesCovered
  <2> SUFFICES ASSUME Init PROVE CopiesCovered
    OBVIOUS
  <2>1. Dialed = {}
    BY DEF Init, Dialed
  <2>2. QED
    BY <2>1, FS_EmptySet DEF Init, CopiesCovered, ProcessedNeverOverstates
<1>2. CopiesCovered => ProcessedNeverOverstates
  BY DEF CopiesCovered
<1>3. QED
  BY <1>1, <1>2, CopiesStep, OwnedRows, TypeCorrect, PTL DEF Spec

-----------------------------------------------------------------------------
(* The queue the contacts see. *)

Taken == {r \in Rows : row[r] = "processing"}
Done == {r \in Rows : row[r] \in Settled}

\* Claiming takes the rows of the claim.
LEMMA ClaimTakes ==
  ASSUME TypeOK, NEW w \in Workers, ClaimQueuedRuns(w)
  PROVE  CQ!Next \/ UNCHANGED CQ!vars
<1>1. CASE UNCHANGED row
  BY <1>1 DEF ClaimQueuedRuns, CQ!vars, Queued, Dialed
<1>2. ASSUME NEW S \in Claims, row' = Claimed(S) PROVE CQ!Next
  <2>1. S \subseteq Queued /\ S \in SUBSET Rows
    BY DEF Claims, ClaimableRows, Queued
  <2>2. Queued' = Queued \ S /\ Taken' = Taken \cup S /\ Done' = Done
    BY <1>2, <2>1 DEF TypeOK, Claimed, Queued, Taken, Done, Settled
  <2>3. Dialed' = Dialed
    BY DEF ClaimQueuedRuns, Dialed
  <2>4. CQ!Take(S)
    BY <2>1, <2>2, <2>3 DEF CQ!Take, Taken, Done
  <2>5. QED
    BY <2>1, <2>4 DEF CQ!Next
<1>3. QED
  BY <1>1, <1>2 DEF ClaimQueuedRuns

\* Dialing calls the row in hand for the first time.
LEMMA DispatchCalls ==
  ASSUME TypeOK, RowsAreOwned, NEW w \in Workers, DispatchCall(w)
  PROVE  CQ!Next \/ UNCHANGED CQ!vars
<1>1. UNCHANGED row
  BY DEF DispatchCall
<1>2. UNCHANGED <<Queued, Taken, Done>>
  BY <1>1 DEF Queued, Taken, Done
<1>3. CASE UNCHANGED dials
  BY <1>2, <1>3 DEF CQ!vars, Dialed, Taken, Done
<1>4. ASSUME NEW r \in NextRows(w), dials' = [dials EXCEPT ![r] = @ + 1] PROVE CQ!Next
  <2>1. r \in Rows /\ dials[r] = 0 /\ row[r] = "processing"
    BY NextRowIsFresh DEF DispatchCall, Goto
  <2>2. Dialed' = Dialed \cup {r} /\ r \in Taken \ Dialed
    BY <1>4, <2>1 DEF TypeOK, Dialed, Taken
  <2>3. CQ!Call(r)
    BY <1>2, <2>2 DEF CQ!Call, Taken, Done
  <2>4. QED
    BY <2>1, <2>3 DEF CQ!Next
<1>5. QED
  BY <1>3, <1>4 DEF DispatchCall

\* A verdict settles the row in hand, unless it is settled already.
LEMMA VerdictSettles ==
  ASSUME TypeOK, RowsAreOwned, NEW w \in Workers, MarkProcessed(w) \/ MarkFailed(w)
  PROVE  CQ!Next \/ UNCHANGED CQ!vars
<1>1. UNCHANGED dials /\ pc[w] \in Mid
  BY DEF MarkProcessed, MarkFailed, RowDone, Goto, Mid
<1>2. UNCHANGED Dialed
  BY <1>1 DEF Dialed
<1>3. cur[w] \in todo[w] /\ cur[w] \in Rows
  BY <1>1, CurrentRow
<1>4. row[cur[w]] \in {"processing", "processed"}
  BY <1>3 DEF RowsAreOwned
<1>5. CASE UNCHANGED row
  BY <1>2, <1>5 DEF CQ!vars, Queued
<1>6. ASSUME NEW verdict \in Settled, row' = [row EXCEPT ![cur[w]] = verdict]
      PROVE  CQ!Next \/ UNCHANGED CQ!vars
  <2>1. Queued' = Queued /\ Taken' = Taken \ {cur[w]} /\ Done' = Done \cup {cur[w]}
    BY <1>3, <1>4, <1>6 DEF TypeOK, Queued, Taken, Done, Settled
  <2>2. CASE cur[w] \in Taken
    <3>1. PICK c \in Rows : c = cur[w]
      BY <1>3
    <3>2. c \in Taken /\ Taken' = Taken \ {c} /\ Done' = Done \cup {c}
      BY <2>1, <2>2, <3>1
    <3>3. CQ!Settle(c)
      BY <1>2, <2>1, <3>2 DEF CQ!Settle, Taken, Done
    <3>4. QED
      BY <3>3 DEF CQ!Next
  <2>3. CASE cur[w] \notin Taken
    <3>1. cur[w] \in Done
      BY <1>3, <1>4, <2>3 DEF Taken, Done, Settled
    <3>2. UNCHANGED <<Queued, Taken, Done, Dialed>>
      BY <1>2, <2>1, <2>3, <3>1
    <3>3. QED
      BY <3>2 DEF CQ!vars, Taken, Done
  <2>4. QED
    BY <2>2, <2>3
<1>7. QED
  BY <1>5, <1>6 DEF MarkProcessed, MarkFailed, Failed, Settled

\* A row that goes back to the queue was not dialed.
LEMMA RevertReturns ==
  ASSUME TypeOK, RowsAreOwned, NEW w \in Workers, NEW r \in Rows, RevertRun(w, r)
  PROVE  CQ!Next \/ UNCHANGED CQ!vars
<1>1. r \in todo[w] /\ dials[r] = 0 /\ row[r] = "processing" /\ UNCHANGED dials
  BY DEF RevertRun, Goto, RowsAreOwned, TypeOK, Mid
<1>2. UNCHANGED Dialed /\ r \in Taken \ Dialed
  BY <1>1 DEF Dialed, Taken
<1>3. CASE UNCHANGED row
  BY <1>2, <1>3 DEF CQ!vars, Queued
<1>4. CASE row' = [row EXCEPT ![r] = "queued"]
  <2>1. Queued' = Queued \cup {r} /\ Taken' = Taken \ {r} /\ Done' = Done
    BY <1>1, <1>4 DEF TypeOK, Queued, Taken, Done, Settled
  <2>2. CQ!Return(r)
    BY <1>2, <2>1 DEF CQ!Return, Taken, Done
  <2>3. QED
    BY <2>2 DEF CQ!Next
<1>5. QED
  BY <1>3, <1>4 DEF RevertRun, Reverted

\* Rows that appear are added.
LEMMA OutsideAdds ==
  ASSUME TypeOK, RowsAreOwned, UNCHANGED dials,
         \A r \in Rows : row'[r] = row[r] \/ (row[r] = "absent" /\ row'[r] = "queued")
  PROVE  CQ!Next
<1> DEFINE S == {r \in Rows : row[r] = "absent" /\ row'[r] = "queued"}
<1>1. Queued' = Queued \cup S /\ Taken' = Taken /\ Done' = Done
  BY DEF Queued, Taken, Done, Settled
<1>2. S \cap (Queued \cup Taken \cup Done) = {} /\ S \in SUBSET Rows
  BY DEF Queued, Taken, Done, Settled
<1>3. UNCHANGED Dialed
  BY DEF Dialed
<1>4. CQ!Add(S)
  BY <1>1, <1>2, <1>3 DEF CQ!Add, CQ!Known, Taken, Done
<1>5. QED
  BY <1>2, <1>4 DEF CQ!Next

LEMMA QueueStep == TypeOK /\ RowsAreOwned /\ [Next]_vars => [CQ!Next]_(CQ!vars)
<1> SUFFICES ASSUME TypeOK, RowsAreOwned, [Next]_vars PROVE CQ!Next \/ UNCHANGED CQ!vars
  OBVIOUS
<1>1. ASSUME NEW w \in Workers,
             \/ StartBatch(w) \/ FetchCampaign(w) \/ CountProcessed(w) \/ ReportBatch(w)
             \/ ReportBatchFailed(w) \/ FailCampaign(w) \/ CancelBatch(w)
      PROVE  UNCHANGED CQ!vars
  <2>1. UNCHANGED <<row, dials>>
    BY <1>1 DEF StartBatch, FetchCampaign, CountProcessed, ReportBatch, ReportBatchFailed,
       FailCampaign, CancelBatch, rowVars
  <2>2. QED
    BY <2>1 DEF CQ!vars, Queued, Dialed
<1>2. CASE \A w \in Workers : ~(StartBatch(w) \/ Batch(w) \/ CancelBatch(w))
  BY <1>2, OutsideRows, OutsideAdds DEF Next
<1>3. QED
  BY <1>1, <1>2, ClaimTakes, DispatchCalls, VerdictSettles, RevertReturns DEF Batch

\* Campaign, batches, sync jobs, requests and orchestrator together are a queue
\* that calls every contact at most once and never forgets a verdict.
THEOREM QueueImplemented == Spec => ImplementsCallQueue
<1>1. Init => CQ!Init
  BY DEF Init, CQ!Init, Queued, Dialed, Settled
<1>2. QED
  BY <1>1, QueueStep, OwnedRows, TypeCorrect, PTL DEF Spec, ImplementsCallQueue, CQ!Spec
=============================================================================
