---------------------------- MODULE CampaignBatch ----------------------------
(***************************************************************************)
(* One campaign: its state, its queue of contacts (queued_runs) and the    *)
(* arq jobs that work the queue off in batches.                            *)
(*                                                                         *)
(* A batch job reads the campaign once, claims up to BatchSize rows in one *)
(* transaction and dials them one by one; API requests, the circuit        *)
(* breaker, the sync job and the orchestrator change the state of the      *)
(* campaign meanwhile.  Every database transaction is a step; whoever      *)
(* reads the campaign in one transaction and writes it in a later one has  *)
(* two steps.  The dispatch of a row (CallSlots) is one step here, with    *)
(* its outcomes.  The orchestrator is present with its decisions only: it  *)
(* may schedule a batch whenever it finds the campaign running with rows   *)
(* in the queue, and complete it when it finds none.                       *)
(***************************************************************************)
EXTENDS Integers, FiniteSets

CONSTANTS
  SourceRows,   \* contacts of the source: rows without scheduled_for
  Retries,      \* retry rows: created later, with scheduled_for in the future
  Parent,       \* [Retries -> rows]: parent_queued_run_id
  NoRow,        \* the current row of a worker that has none
  Workers,      \* process_campaign_batch jobs that may run at once (max_jobs)
  Syncs,        \* sync_campaign_source jobs that may ever be enqueued
  Requests,     \* requests and status callbacks that may change the state
  Kinds,        \* what they may ask for, a subset of AllKinds
  BatchSize,    \* rows per batch
  MaxJobs,      \* bound on the batch jobs waiting in the arq queue
  Faults        \* what may go wrong in a run, a subset of AllFaults

Rows == SourceRows \cup Retries

AllKinds == {"start", "pause", "resume", "trip"}

\* refuse:    dispatch_call raises before the call is placed
\* save:      dispatch_call raises although the call was placed
\* exhausted: no slot or no caller number in time
\* db:        a database transaction of a job raises, before or after its commit
\* redis:     publishing an event or enqueueing a job raises
\* source:    the source cannot be read, or has no contacts
\* cancel:    arq cancels a job (job timeout, or worker shutdown)
AllFaults == {"refuse", "save", "exhausted", "db", "redis", "source", "cancel"}

ASSUME RowAssumption ==
  /\ IsFiniteSet(SourceRows) /\ IsFiniteSet(Retries)
  /\ SourceRows \cap Retries = {}
  /\ NoRow \notin Rows
  /\ Parent \in [Retries -> Rows]
ASSUME BatchAssumption == BatchSize \in Nat \ {0} /\ MaxJobs \in Nat \ {0}
ASSUME ScopeAssumption == Kinds \subseteq AllKinds /\ Faults \subseteq AllFaults

VARIABLES
  state,      \* campaigns.state
  processed,  \* campaigns.processed_rows
  row,        \* queued_runs.state of every row, "absent" before it exists
  notDue,     \* rows whose scheduled_for lies in the future
  dials,      \* how often the provider placed a call for the row
  jobs,       \* process_campaign_batch jobs waiting in the arq queue
  pc,         \* where each running batch job stands
  todo,       \* rows the job has claimed and not finished
  cur,        \* the row it is working on
  seen,       \* campaign.processed_rows of the job's campaign object
  sync,       \* where each sync job stands
  req,        \* where each request stands
  scheduler,  \* _schedule_next_batch of the orchestrator
  monitor     \* _check_stale_campaigns of the orchestrator

campaignVars == <<state, processed>>
rowVars == <<row, notDue, dials>>
jobVars == <<pc, todo, cur, seen>>
outsideVars == <<sync, req, scheduler, monitor>>
vars == <<campaignVars, rowVars, jobs, jobVars, outsideVars>>

States == {"created", "syncing", "running", "paused", "completed", "failed"}
RowStates == {"absent", "queued", "processing", "processed", "failed"}
JobSteps == {"idle", "fetch", "claim", "dial", "mark", "count", "markFailed", "revert",
             "report", "reportFailed", "failCampaign"}
SyncSteps == {"none", "insert", "activate", "close", "publish", "fail", "done"}
RequestSteps == {"free", "enqueueSync", "done"} \cup AllKinds

TypeOK ==
  /\ state \in States
  /\ processed \in Nat
  /\ row \in [Rows -> RowStates]
  /\ notDue \subseteq Retries
  /\ dials \in [Rows -> Nat]
  /\ jobs \in 0 .. MaxJobs
  /\ pc \in [Workers -> JobSteps]
  /\ todo \in [Workers -> SUBSET Rows]
  /\ cur \in [Workers -> Rows \cup {NoRow}]
  /\ seen \in [Workers -> Nat]
  /\ sync \in [Syncs -> SyncSteps]
  /\ req \in [Requests -> RequestSteps]
  /\ scheduler \in {"idle", "enqueue"}
  /\ monitor \in {"idle", "check", "complete"}

Init ==
  /\ state = "created"
  /\ processed = 0
  /\ row = [r \in Rows |-> "absent"]
  /\ notDue = {}
  /\ dials = [r \in Rows |-> 0]
  /\ jobs = 0
  /\ pc = [w \in Workers |-> "idle"]
  /\ todo = [w \in Workers |-> {}]
  /\ cur = [w \in Workers |-> NoRow]
  /\ seen = [w \in Workers |-> 0]
  /\ sync = [s \in Syncs |-> "none"]
  /\ req = [q \in Requests |-> "free"]
  /\ scheduler = "idle"
  /\ monitor = "idle"

Queued == {r \in Rows : row[r] = "queued"}

-----------------------------------------------------------------------------
(* process_campaign_batch and process_batch, one transaction at a time. *)

Goto(w, from, to) ==
  /\ pc[w] = from
  /\ pc' = [pc EXCEPT ![w] = to]

\* A worker takes the job from the arq queue.
StartBatch(w) ==
  /\ Goto(w, "idle", "fetch")
  /\ jobs > 0
  /\ jobs' = jobs - 1
  /\ UNCHANGED <<campaignVars, rowVars, todo, cur, seen, outsideVars>>

\* The campaign object the whole batch works with; only here is its state looked at.
FetchCampaign(w) ==
  /\ \/ Goto(w, "fetch", "claim") /\ state = "running"
     \/ Goto(w, "fetch", "report") /\ state # "running"
     \/ Goto(w, "fetch", "reportFailed") /\ "db" \in Faults
  /\ seen' = [seen EXCEPT ![w] = processed]
  /\ UNCHANGED <<campaignVars, rowVars, jobs, todo, cur, outsideVars>>

\* As in CallSlots, a definition named Slip... is the one that follows it with a
\* plausible mistake, and some property notices it.

\* The rows a claim may return: as many as it can, due retries first.  A claim
\* that is rolled back in the end hides its rows from the others (SKIP LOCKED).
SmallerOf(m, n) == IF m < n THEN m ELSE n
ClaimableRows == Queued \ notDue
Claims ==
  {S \in SUBSET ClaimableRows :
     /\ Cardinality(S) =< BatchSize
     /\ \/ /\ Cardinality(S) = SmallerOf(BatchSize, Cardinality(ClaimableRows))
           /\ S \subseteq Retries \/ ClaimableRows \cap Retries \subseteq S
        \/ "db" \in Faults}

Claimed(S) == [r \in Rows |-> IF r \in S THEN "processing" ELSE row[r]]

\* SELECT ... FOR UPDATE SKIP LOCKED and the update are one transaction; the
\* refresh after its commit may raise, and nobody knows the claimed rows then.
ClaimQueuedRuns(w) ==
  /\ \/ \E S \in Claims \ {{}} :
          /\ Goto(w, "claim", "dial")
          /\ row' = Claimed(S)
          /\ todo' = [todo EXCEPT ![w] = S]
     \/ Goto(w, "claim", "report") /\ {} \in Claims /\ UNCHANGED <<row, todo>>
     \/ /\ Goto(w, "claim", "reportFailed")
        /\ "db" \in Faults
        /\ \E S \in Claims : row' = Claimed(S)
        /\ UNCHANGED todo
  /\ UNCHANGED <<campaignVars, notDue, dials, jobs, cur, seen, outsideVars>>

\* The claimed rows are worked off in the order of the claim, due retries first.
NextRows(w) == IF todo[w] \cap Retries # {} THEN todo[w] \cap Retries ELSE todo[w]

\* Rate limit, slot and dispatch_call (CallSlots).
DispatchCall(w) ==
  /\ \E r \in NextRows(w) :
       /\ cur' = [cur EXCEPT ![w] = r]
       /\ \/ /\ Goto(w, "dial", "mark")
             /\ dials' = [dials EXCEPT ![r] = @ + 1]
          \/ /\ Goto(w, "dial", "markFailed")
             /\ "save" \in Faults
             /\ dials' = [dials EXCEPT ![r] = @ + 1]
          \/ /\ Goto(w, "dial", "markFailed")
             /\ "refuse" \in Faults
             /\ UNCHANGED dials
          \/ /\ Goto(w, "dial", "revert")
             /\ "exhausted" \in Faults
             /\ UNCHANGED dials
  /\ UNCHANGED <<campaignVars, row, notDue, jobs, todo, seen, outsideVars>>

\* The row of w is finished: on to the next one, or the batch is over.
RowDone(w, from) ==
  /\ Goto(w, from, IF todo[w] = {cur[w]} THEN "report" ELSE "dial")
  /\ cur' = [cur EXCEPT ![w] = NoRow]
  /\ todo' = [todo EXCEPT ![w] = @ \ {cur[w]}]

MarkProcessed(w) ==
  /\ Goto(w, "mark", "count") \/ (Goto(w, "mark", "markFailed") /\ "db" \in Faults)
  /\ \/ row' = [row EXCEPT ![cur[w]] = "processed"]
     \/ pc'[w] = "markFailed" /\ UNCHANGED row
  /\ UNCHANGED <<campaignVars, notDue, dials, jobs, todo, cur, seen, outsideVars>>

\* processed_rows + 1, counted from the campaign object of the fetch.
Counted(w) == seen[w] + 1

CountProcessed(w) ==
  /\ \/ RowDone(w, "count") /\ processed' = Counted(w)
     \/ /\ Goto(w, "count", "markFailed")
        /\ "db" \in Faults
        /\ processed' \in {processed, Counted(w)}
        /\ UNCHANGED <<cur, todo>>
  /\ UNCHANGED <<state, rowVars, jobs, seen, outsideVars>>

\* Any other exception, a failed count included, marks the row failed "to
\* prevent infinite retry loops".
SlipFailed(w) == [row EXCEPT ![cur[w]] = "queued"]
Failed(w) == [row EXCEPT ![cur[w]] = "failed"]

MarkFailed(w) ==
  /\ RowDone(w, "markFailed")
  /\ \/ row' = Failed(w)
     \/ "db" \in Faults /\ UNCHANGED row
  /\ UNCHANGED <<campaignVars, notDue, dials, jobs, seen, outsideVars>>

\* queued_runs[i:] go back to the queue one by one, then the exception goes on.
SlipReverted(r) == [row EXCEPT ![r] = "processing"]
Reverted(r) == [row EXCEPT ![r] = "queued"]

RevertRun(w, r) ==
  /\ r \in todo[w]
  /\ Goto(w, "revert", IF todo[w] = {r} THEN "reportFailed" ELSE "revert")
  /\ \/ row' = Reverted(r)
     \/ "db" \in Faults /\ UNCHANGED row
  /\ todo' = [todo EXCEPT ![w] = @ \ {r}]
  /\ cur' = [cur EXCEPT ![w] = NoRow]
  /\ UNCHANGED <<campaignVars, notDue, dials, jobs, seen, outsideVars>>

\* batch_completed is published; if that raises, the batch has failed after all.
ReportBatch(w) ==
  /\ Goto(w, "report", "idle") \/ (Goto(w, "report", "reportFailed") /\ "redis" \in Faults)
  /\ UNCHANGED <<campaignVars, rowVars, jobs, todo, cur, seen, outsideVars>>

\* batch_failed is published; if that raises, the campaign is not marked failed.
ReportBatchFailed(w) ==
  /\ \/ Goto(w, "reportFailed", "failCampaign")
     \/ Goto(w, "reportFailed", "idle") /\ "redis" \in Faults
  /\ UNCHANGED <<campaignVars, rowVars, jobs, todo, cur, seen, outsideVars>>

FailCampaign(w) ==
  /\ Goto(w, "failCampaign", "idle")
  /\ state' = "failed"
  /\ UNCHANGED <<processed, rowVars, jobs, todo, cur, seen, outsideVars>>

\* CancelledError passes every except branch.  A job over its timeout is
\* dropped, a job of a worker that shuts down is run again.
CancelBatch(w) ==
  /\ "cancel" \in Faults
  /\ pc[w] # "idle"
  /\ pc' = [pc EXCEPT ![w] = "idle"]
  /\ todo' = [todo EXCEPT ![w] = {}]
  /\ cur' = [cur EXCEPT ![w] = NoRow]
  /\ jobs' \in {jobs, SmallerOf(jobs + 1, MaxJobs)}
  /\ UNCHANGED <<campaignVars, rowVars, seen, outsideVars>>

Batch(w) ==
  \/ FetchCampaign(w)
  \/ ClaimQueuedRuns(w)
  \/ DispatchCall(w)
  \/ MarkProcessed(w)
  \/ CountProcessed(w)
  \/ MarkFailed(w)
  \/ \E r \in Rows : RevertRun(w, r)
  \/ ReportBatch(w)
  \/ ReportBatchFailed(w)
  \/ FailCampaign(w)

-----------------------------------------------------------------------------
(* sync_campaign_source. *)

SyncGoto(s, from, to) ==
  /\ sync[s] = from
  /\ sync' = [sync EXCEPT ![s] = to]

\* One bulk insert, then a count of its rows that may raise; or an exception
\* (source_uuid is unique, so a second sync of the same source raises), or a
\* source without contacts.
InsertRows(s) ==
  /\ \/ /\ SyncGoto(s, "insert", "activate") \/ (SyncGoto(s, "insert", "fail") /\ "db" \in Faults)
        /\ \A r \in SourceRows : row[r] = "absent"
        /\ row' = [r \in Rows |-> IF r \in SourceRows THEN "queued" ELSE row[r]]
     \/ /\ SyncGoto(s, "insert", "fail")
        /\ "source" \in Faults \/ \E r \in SourceRows : row[r] # "absent"
        /\ UNCHANGED row
     \/ /\ SyncGoto(s, "insert", "close")
        /\ "source" \in Faults
        /\ UNCHANGED row
  /\ UNCHANGED <<campaignVars, notDue, dials, jobs, jobVars, req, scheduler, monitor>>

\* The state is written whatever it is by now.  An exception leads to the except
\* branch, one in the except branch out of the job.
SyncWrites(s, from, to, value) ==
  /\ \/ SyncGoto(s, from, to) /\ state' = value
     \/ /\ SyncGoto(s, from, IF from = "fail" THEN "done" ELSE "fail")
        /\ "db" \in Faults
        /\ state' \in {state, value}
  /\ UNCHANGED <<processed, rowVars, jobs, jobVars, req, scheduler, monitor>>

ActivateCampaign(s) == SyncWrites(s, "activate", "publish", "running")
CloseCampaign(s) == SyncWrites(s, "close", "done", "completed")
FailSync(s) == SyncWrites(s, "fail", "done", "failed")

PublishSyncCompleted(s) ==
  /\ SyncGoto(s, "publish", "done") \/ (SyncGoto(s, "publish", "fail") /\ "redis" \in Faults)
  /\ UNCHANGED <<campaignVars, rowVars, jobs, jobVars, req, scheduler, monitor>>

\* Dropped by the job timeout, or run again from its start.
CancelSync(s) ==
  /\ "cancel" \in Faults
  /\ SyncGoto(s, sync[s], "insert") \/ SyncGoto(s, sync[s], "done")
  /\ sync[s] \notin {"none", "done"}
  /\ UNCHANGED <<campaignVars, rowVars, jobs, jobVars, req, scheduler, monitor>>

Sync(s) ==
  \/ InsertRows(s)
  \/ ActivateCampaign(s)
  \/ CloseCampaign(s)
  \/ FailSync(s)
  \/ PublishSyncCompleted(s)

-----------------------------------------------------------------------------
(* Requests: start, pause, resume, and trip, the status callback whose     *)
(* outcome trips the circuit breaker.  Each reads the state, and writes it *)
(* in a later transaction.                                                 *)

Allowed(kind) ==
  CASE kind = "start" -> {"created"}
    [] kind = "pause" -> {"running", "syncing"}
    [] kind = "resume" -> {"paused"}
    [] kind = "trip" -> {"running"}

SlipTarget(kind) == IF kind = "start" THEN "started" ELSE "paused"
Target(kind) ==
  CASE kind = "start" -> "syncing"
    [] kind = "pause" -> "paused"
    [] kind = "resume" -> "running"
    [] kind = "trip" -> "paused"

\* A request that finds another state is refused and changes nothing.
ReadState(q, kind) ==
  /\ req[q] = "free"
  /\ state \in Allowed(kind)
  /\ req' = [req EXCEPT ![q] = kind]
  /\ UNCHANGED <<campaignVars, rowVars, jobs, jobVars, sync, scheduler, monitor>>

WriteState(q) ==
  /\ req[q] \in AllKinds
  /\ state' = Target(req[q])
  /\ req' = [req EXCEPT ![q] = IF req[q] = "start" THEN "enqueueSync" ELSE "done"]
  /\ UNCHANGED <<processed, rowVars, jobs, jobVars, sync, scheduler, monitor>>

\* If Redis refuses the job, the campaign stays in "syncing" without one.
EnqueueSync(q) ==
  /\ req[q] = "enqueueSync"
  /\ \/ \E s \in Syncs : SyncGoto(s, "none", "insert")
     \/ "redis" \in Faults /\ UNCHANGED sync
  /\ req' = [req EXCEPT ![q] = "done"]
  /\ UNCHANGED <<campaignVars, rowVars, jobs, jobVars, scheduler, monitor>>

Request(q) == WriteState(q) \/ EnqueueSync(q)

-----------------------------------------------------------------------------
(* The decisions of the orchestrator. *)

\* _handle_retry_event: a call of the parent row ended unanswered.  The state
\* of the campaign is not looked at; a second event for the same row raises.
ScheduleRetry(r) ==
  /\ row[r] = "absent"
  /\ dials[Parent[r]] > 0
  /\ row' = [row EXCEPT ![r] = "queued"]
  /\ notDue' = notDue \cup {r}
  /\ UNCHANGED <<campaignVars, dials, jobs, jobVars, outsideVars>>

\* Its scheduled_for passes.
RetryDue(r) ==
  /\ r \in notDue
  /\ notDue' = notDue \ {r}
  /\ UNCHANGED <<campaignVars, row, dials, jobs, jobVars, outsideVars>>

\* _schedule_next_batch: reads the state, then counts the queued rows.
ReadForBatch ==
  /\ scheduler = "idle"
  /\ state \in {"running", "syncing"}
  /\ scheduler' = "enqueue"
  /\ UNCHANGED <<campaignVars, rowVars, jobs, jobVars, sync, req, monitor>>

SlipHasPendingWork == Queued \cap notDue # {}
HasPendingWork == Queued # {}

\* The bound MaxJobs only delays it; an exception is logged and forgotten.
EnqueueBatch ==
  /\ scheduler = "enqueue"
  /\ \/ HasPendingWork /\ jobs < MaxJobs /\ jobs' = jobs + 1
     \/ ~HasPendingWork /\ jobs' = jobs
     \/ "redis" \in Faults /\ jobs' = jobs
  /\ scheduler' = "idle"
  /\ UNCHANGED <<campaignVars, rowVars, jobVars, sync, req, monitor>>

\* Its safety net: the breaker is open, so the state it read is overwritten.
TripBeforeBatch ==
  /\ scheduler = "enqueue"
  /\ "trip" \in Kinds
  /\ state' = "paused"
  /\ scheduler' = "idle"
  /\ UNCHANGED <<processed, rowVars, jobs, jobVars, sync, req, monitor>>

\* _check_stale_campaigns reads the running campaigns.
ReadForCompletion ==
  /\ monitor = "idle"
  /\ state = "running"
  /\ monitor' = "check"
  /\ UNCHANGED <<campaignVars, rowVars, jobs, jobVars, sync, req, scheduler>>

\* An hour without activity: jobs live for minutes, requests for seconds only.
\* (CampaignOrchestrator has the hour the code counts, which may be another.)
Quiet ==
  /\ jobs = 0
  /\ \A w \in Workers : pc[w] = "idle"
  /\ \A s \in Syncs : sync[s] \in {"none", "done"}
  /\ \A q \in Requests : req[q] \in {"free", "done"}

\* _should_mark_complete and the check _complete_campaign repeats.
CheckCompletion ==
  /\ monitor = "check"
  /\ monitor' = IF Quiet /\ ~HasPendingWork THEN "complete" ELSE "idle"
  /\ UNCHANGED <<campaignVars, rowVars, jobs, jobVars, sync, req, scheduler>>

CompleteCampaign ==
  /\ monitor = "complete"
  /\ state' = "completed"
  /\ monitor' = "idle"
  /\ UNCHANGED <<processed, rowVars, jobs, jobVars, sync, req, scheduler>>

Schedule == ReadForBatch \/ EnqueueBatch \/ TripBeforeBatch
Monitor == ReadForCompletion \/ CheckCompletion \/ CompleteCampaign

-----------------------------------------------------------------------------
\* Nobody has anything left to do.
Terminating ==
  /\ Quiet
  /\ state \notin {"running", "syncing"}
  /\ UNCHANGED vars

Next ==
  \/ \E w \in Workers : StartBatch(w) \/ Batch(w) \/ CancelBatch(w)
  \/ \E s \in Syncs : Sync(s) \/ CancelSync(s)
  \/ \E q \in Requests : Request(q) \/ \E kind \in Kinds : ReadState(q, kind)
  \/ \E r \in Retries : ScheduleRetry(r) \/ RetryDue(r)
  \/ Schedule
  \/ Monitor
  \/ Terminating

Spec == Init /\ [][Next]_vars

\* Workers, requests, the scheduler and the completion check run on, and
\* scheduled_for passes.
Fairness ==
  /\ \A w \in Workers : WF_vars(StartBatch(w) \/ Batch(w))
  /\ \A s \in Syncs : WF_vars(Sync(s))
  /\ \A q \in Requests : WF_vars(Request(q))
  /\ \A r \in Retries : WF_vars(RetryDue(r))
  /\ WF_vars(ReadForBatch \/ EnqueueBatch)
  /\ WF_vars(Monitor)

FairSpec == Spec /\ Fairness

-----------------------------------------------------------------------------
(* Safety. *)

Dialed == {r \in Rows : dials[r] > 0}
Settled == {"processed", "failed"}

\* No contact is dialed twice for the same row, whatever fails, is cancelled,
\* put back or runs at the same time (claim_queued_runs_for_processing:
\* "multiple workers can call it concurrently without processing the same runs").
DialOnce == \A r \in Rows : dials[r] =< 1

\* Why it is so (the inductive invariant of the proof): a claimed row belongs
\* to one job, which dials it when it has not been dialed yet, and a row that
\* was dialed is never back in the queue.
Mid == {"mark", "count", "markFailed"}
RowsAreOwned ==
  /\ \A w, v \in Workers : w # v => todo[w] \cap todo[v] = {}
  /\ \A w \in Workers : \A r \in todo[w] :
       row[r] = "processing" \/ (row[r] = "processed" /\ r = cur[w] /\ pc[w] \in Mid)
  /\ \A w \in Workers : \A r \in todo[w] : dials[r] = 0 \/ (r = cur[w] /\ pc[w] \in Mid)
  /\ \A w \in Workers : pc[w] \in Mid => cur[w] \in todo[w]
  /\ \A w \in Workers : pc[w] \in {"mark", "count"} => dials[cur[w]] > 0
  /\ \A w \in Workers : pc[w] \notin Mid \cup {"dial", "revert"} => todo[w] = {}
  /\ \A r \in Dialed : row[r] \in {"processing"} \cup Settled

\* processed_rows never claims more than was dialed, although every batch
\* counts from its own stale copy of the campaign.
ProcessedNeverOverstates == processed =< Cardinality(Dialed)

\* Unless arq cancels the job or the database refuses a write, every row that is
\* "processing" is being processed: none is forgotten between claim and verdict.
NoRowForgotten == \A r \in Rows : row[r] = "processing" => \E w \in Workers : r \in todo[w]

-----------------------------------------------------------------------------
(* Liveness. *)

\* A contact in the queue gets its verdict unless the campaign is paused or
\* fails; a retry may also come too late, when the campaign is complete already.
EveryRowSettles ==
  \A r \in Rows : row[r] = "queued" ~>
    \/ row[r] \in Settled
    \/ state \in {"paused", "failed"}
    \/ r \in Retries /\ state = "completed"

\* A campaign that was started comes to an end: no sync, batch or schedule is
\* waited for in vain.
CampaignEnds == state \in {"syncing", "running"} ~> state \in {"completed", "paused", "failed"}

-----------------------------------------------------------------------------
(* The promise to the contacts. *)

CQ == INSTANCE CallQueue WITH
        Contacts <- Rows,
        waiting <- Queued,
        taken <- {r \in Rows : row[r] = "processing"},
        settled <- {r \in Rows : row[r] \in Settled},
        called <- Dialed

\* Every step of campaign, batches and orchestrator is a step of CallQueue or
\* leaves the queue alone.
ImplementsCallQueue == CQ!Spec
=============================================================================
