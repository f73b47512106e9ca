------------------------ MODULE CampaignOrchestrator ------------------------
(***************************************************************************)
(* The campaign orchestrator and one campaign: what keeps a campaign going *)
(* is that every batch reports its end over Redis pub/sub and the          *)
(* orchestrator answers with the next batch.                               *)
(*                                                                         *)
(* Two tasks of one process work on the same in-memory maps: the listener  *)
(* handles one event after the other, the monitor looks at the running     *)
(* campaigns every minute.  Between two awaits nothing else happens; at    *)
(* every await the other task, the jobs and the requests go on.  The       *)
(* memory is lost with the process, and so is every event nobody listens   *)
(* to.  Rows are counted here (CampaignBatch has them one by one), and     *)
(* instants are what the code compares them to: 5 seconds, 5 minutes, an   *)
(* hour.                                                                   *)
(***************************************************************************)
EXTENDS Integers, Sequences, SequencesExt, FiniteSets

CONSTANTS
  SourceRows,   \* contacts the sync job inserts
  BatchSize,    \* rows per batch
  MaxReleases,  \* bound on the releases that are kept in mind
  MaxClashes,   \* bound on the batches lost from sight, for a release to add one
  Faults,       \* what may go wrong in a run, a subset of AllFaults
  MaxMishaps    \* bound on how often something does

\* lost:    an event is published while nobody listens
\* restart: the orchestrator is stopped and started again
\* long:    a batch is older than five minutes and not over (it waited for a worker)
\* slow:    the work that was under way takes longer than the five seconds of the lock
\* cancel:  arq drops a batch job (its timeout): no event
\* fail:    a batch fails
\* busy:    a call is not answered, and a retry is asked for
\* trip:    the circuit breaker opens
\* pause:   a user pauses the campaign, and may resume it
\* db:      a query or a write of the orchestrator, its enqueue_job or its publish raises
\* window:  the campaign has a schedule, whose slots open and close
AllFaults == {"lost", "restart", "long", "slow", "cancel", "fail", "busy", "trip", "pause", "db",
              "window"}

ASSUME RowsAssumption == SourceRows \in Nat /\ BatchSize \in Nat \ {0}
ASSUME ReleasesAssumption == MaxReleases \in Nat \ {0} /\ MaxClashes \in Nat
ASSUME FaultAssumption == Faults \subseteq AllFaults /\ MaxMishaps \in Nat

VARIABLES
  state,     \* campaigns.state
  due,       \* queued rows that may be claimed
  later,     \* queued rows whose scheduled_for lies in the future
  recorded,  \* campaigns.last_activity_at: within the last hour, or not
  open,      \* the schedule window is open
  sync,      \* where sync_campaign_source stands
  waiting,   \* process_campaign_batch jobs that have not claimed their rows
  working,   \* those that have
  calls,     \* calls placed for the campaign whose outcome is not known
  channel,   \* events published and not handled
  flag,      \* _batch_in_progress: none, fresh, or older than five minutes
  lock,      \* the entry of _processing_locks while it is younger than five seconds:
             \* the task that set it, "left" once that task is done, or "none"
  releases,  \* _release_lock_after_delay tasks that sleep, without that of the present lock
  activity,  \* _last_activity: none, within the last hour, or old
  pc,        \* where each task stands
  seen,      \* last_activity_at in the campaign object of the monitor
  disowned,  \* history: the batches the orchestrator has lost sight of
  mishaps

rowVars == <<due, later>>
jobVars == <<sync, waiting, working, calls>>
lockVars == <<lock, releases>>
memory == <<flag, lockVars, activity>>
taskVars == <<pc, seen>>
vars == <<state, rowVars, recorded, open, jobVars, channel, memory, taskVars, disowned, mishaps>>

Tasks == {"listener", "monitor"}
States == {"syncing", "running", "paused", "completed", "failed"}
Events == {"syncCompleted", "batchCompleted", "batchFailed", "retryNeeded", "tripped"}
MayEnqueue == {"read", "pending", "enqueue"}
Steps == MayEnqueue \cup {"idle", "trip", "tell", "mark", "stamp", "completed", "look", "stuck",
                         "count", "decide", "confirm", "write", "clear"}

TypeOK ==
  /\ state \in States
  /\ due \in Nat /\ later \in Nat
  /\ recorded \in {"recent", "old"} /\ seen \in {"recent", "old"}
  /\ open \in BOOLEAN
  /\ sync \in {"insert", "publish", "done"}
  /\ waiting \in Nat /\ working \in Nat /\ calls \in Nat
  /\ channel \in Seq(Events)
  /\ flag \in {"none", "fresh", "stuck"}
  /\ lock \in Tasks \cup {"left", "none"}
  /\ releases \in Nat
  /\ activity \in {"none", "recent", "old"}
  /\ pc \in [Tasks -> Steps]
  /\ disowned \in Nat /\ mishaps \in 0 .. MaxMishaps

\* start_campaign has written syncing and started_at, and enqueued the sync job.
Init ==
  /\ state = "syncing"
  /\ due = 0 /\ later = 0
  /\ recorded = "recent" /\ seen = "recent"
  /\ open = TRUE
  /\ sync = "insert"
  /\ waiting = 0 /\ working = 0 /\ calls = 0
  /\ channel = <<>>
  /\ flag = "none" /\ lock = "none" /\ releases = 0 /\ activity = "none"
  /\ pc = [p \in Tasks |-> "idle"]
  /\ disowned = 0 /\ mishaps = 0

Mishap(kind) ==
  /\ kind \in Faults
  /\ mishaps < MaxMishaps
  /\ mishaps' = mishaps + 1

Goto(p, from, to) ==
  /\ pc[p] = from
  /\ pc' = [pc EXCEPT ![p] = to]

-----------------------------------------------------------------------------
(* Batches in flight: jobs, and the ends of jobs nobody has heard of yet. *)

EndEvents == {i \in DOMAIN channel : channel[i] \in {"batchCompleted", "batchFailed"}}
InFlight == waiting + working + Cardinality(EndEvents)

\* A task that has passed the lock and may enqueue a batch.
Reserved == {p \in Tasks : pc[p] \in MayEnqueue}

\* With the batches that are about to be enqueued.
UnderWay == InFlight + (IF "listener" \in Reserved THEN 1 ELSE 0)
                     + (IF "monitor" \in Reserved THEN 1 ELSE 0)

\* syncCompleted is still to be handled.
SyncAhead == sync # "done" \/ \E i \in DOMAIN channel : channel[i] = "syncCompleted"

\* Without the lock somebody may schedule: no flag is set, or he will not look
\* at it, because he has already or never does.
OnlyLock ==
  \/ flag = "none"
  \/ pc["monitor"] \in {"stuck", "count"}
  \/ pc["listener"] = "completed"
  \/ SyncAhead

\* What stood for the batches under way is dropped: they are lost from sight.
Disown(dropped) ==
  disowned' = IF dropped /\ UnderWay > disowned THEN UnderWay ELSE disowned

HasPendingWork == due + later > 0

-----------------------------------------------------------------------------
(* _schedule_next_batch, in either task.  As in CallSlots, a definition     *)
(* named Slip... is the one that follows it with a plausible mistake.       *)

\* Back in the caller: the listener notes the time, the monitor goes to the
\* next campaign.
Returned(p) == IF p = "listener" THEN "recent" ELSE activity

Return(p, from) ==
  /\ Goto(p, from, "idle")
  /\ activity' = Returned(p)

\* A lock younger than five seconds turns the caller away.
SlipLocked == FALSE
Locked == lock # "none"

Enter(p, from) ==
  \/ Locked /\ Return(p, from) /\ UNCHANGED lockVars
  \/ /\ ~Locked
     /\ Goto(p, from, "read")
     /\ lock' = p
     /\ UNCHANGED <<releases, activity>>

\* One release more that may find a newer lock.
AddRelease(n) == IF n < MaxReleases THEN n + 1 ELSE n

\* The lock goes.  The release that its schedule has asked for does not.
DropLock ==
  /\ lock' = "none"
  /\ releases' = IF lock = "left" THEN AddRelease(releases) ELSE releases

\* finally: five seconds from now the lock is released, whoever has it then.
ReleaseLater(p) ==
  /\ lock' = IF lock = p THEN "left" ELSE lock
  /\ releases' = IF lock = p THEN releases ELSE AddRelease(releases)

Leave(p, from) == Return(p, from) /\ ReleaseLater(p)

\* _clear_campaign_state
ClearCampaignState == flag' = "none" /\ DropLock /\ activity' = "none"

\* State, schedule window and circuit breaker; an exception is logged and dropped.
ReadCampaign(p) ==
  /\ \/ /\ Goto(p, "read", "pending")
        /\ state \in {"running", "syncing"} /\ open
        /\ UNCHANGED <<lockVars, activity, mishaps>>
     \/ /\ Goto(p, "read", "trip")
        /\ state \in {"running", "syncing"} /\ open
        /\ Mishap("trip")
        /\ UNCHANGED <<lockVars, activity>>
     \/ /\ Leave(p, "read")
        /\ \/ (state \notin {"running", "syncing"} \/ ~open) /\ UNCHANGED mishaps
           \/ Mishap("db")
  /\ UNCHANGED <<state, rowVars, recorded, open, jobVars, channel, flag, seen, disowned>>

\* The breaker is open: paused is written over whatever the state is by now,
\* or the write raises and the campaign stays as it is (the mishap is counted).
PauseCampaign(p) ==
  /\ \/ /\ Goto(p, "trip", "tell")
        /\ state' = "paused"
        /\ UNCHANGED <<lockVars, activity>>
     \/ Leave(p, "trip") /\ "db" \in Faults /\ UNCHANGED state
  /\ UNCHANGED <<rowVars, recorded, open, jobVars, channel, flag, seen, disowned, mishaps>>

\* _clear_campaign_state, after the event was published; not if that raises.
TellTripped(p) ==
  /\ \/ /\ Goto(p, "tell", "idle")
        /\ channel' = Append(channel, "tripped")
        /\ flag' = "none"
        /\ lock' = "none"
        /\ releases' = AddRelease(IF lock = "left" THEN AddRelease(releases) ELSE releases)
        /\ activity' = IF p = "listener" THEN "recent" ELSE "none"
        /\ Disown(TRUE)
     \/ Leave(p, "tell") /\ "db" \in Faults /\ UNCHANGED <<channel, flag, disowned>>
  /\ UNCHANGED <<state, rowVars, recorded, open, jobVars, seen, mishaps>>

CountWork(p) ==
  /\ \/ HasPendingWork /\ Goto(p, "pending", "enqueue") /\ UNCHANGED <<lockVars, activity, mishaps>>
     \/ Leave(p, "pending") /\ ~HasPendingWork /\ UNCHANGED mishaps
     \/ Leave(p, "pending") /\ Mishap("db")
  /\ UNCHANGED <<state, rowVars, recorded, open, jobVars, channel, flag, seen, disowned>>

\* The job is in the queue before the flag is set.  An exception may come
\* before or after it is there, and leaves no flag.
EnqueueBatch(p) ==
  /\ \/ /\ Goto(p, "enqueue", "mark")
        /\ waiting' = waiting + 1
        /\ UNCHANGED <<lockVars, activity, disowned, mishaps>>
     \/ /\ Leave(p, "enqueue")
        /\ Mishap("db")
        /\ waiting' \in {waiting, waiting + 1}
        /\ Disown(waiting' > waiting)
  /\ UNCHANGED <<state, rowVars, recorded, open, sync, working, calls, channel, flag, seen>>

\* The job may be running by now, or over.
MarkInProgress(p) ==
  /\ Goto(p, "mark", "stamp")
  /\ flag' = "fresh"
  /\ UNCHANGED <<state, rowVars, recorded, open, jobVars, channel, lockVars, activity, seen, disowned,
                 mishaps>>

RecordActivity(p) ==
  /\ Leave(p, "stamp")
  /\ \/ recorded' = "recent" /\ UNCHANGED mishaps
     \/ UNCHANGED recorded /\ Mishap("db")
  /\ UNCHANGED <<state, rowVars, open, jobVars, channel, flag, seen, disowned>>

ScheduleNextBatch(p) ==
  \/ ReadCampaign(p)
  \/ PauseCampaign(p)
  \/ TellTripped(p)
  \/ CountWork(p)
  \/ EnqueueBatch(p)
  \/ MarkInProgress(p)
  \/ RecordActivity(p)

-----------------------------------------------------------------------------
(* _handle_event: the listener takes the events in the order they came.     *)

Take(event) ==
  /\ pc["listener"] = "idle"
  /\ channel # <<>>
  /\ Head(channel) = event
  /\ channel' = Tail(channel)

\* The row is at its last retry (or retries are switched off), or a row for
\* later is created.  The state of the campaign is not looked at.
HandleRetryNeeded ==
  /\ Take("retryNeeded")
  /\ \/ later' = later + 1 /\ activity' = "recent"
     \/ UNCHANGED <<later, activity>>
  /\ UNCHANGED <<state, due, recorded, open, jobVars, flag, lockVars, taskVars, disowned, mishaps>>

\* The flag is cleared before the state is read.
HandleBatchCompleted ==
  /\ Take("batchCompleted")
  /\ Goto("listener", "idle", "completed")
  /\ flag' = "none"
  /\ UNCHANGED <<state, rowVars, recorded, open, jobVars, lockVars, activity, seen, disowned, mishaps>>

\* Not running: all memory of the campaign is dropped.
AfterBatchCompleted ==
  /\ \/ /\ state = "running"
        /\ Enter("listener", "completed")
        /\ UNCHANGED <<flag, disowned, mishaps>>
     \/ /\ state # "running"
        /\ Goto("listener", "completed", "idle")
        /\ ClearCampaignState
        /\ Disown(TRUE)
        /\ UNCHANGED mishaps
     \/ /\ Goto("listener", "completed", "idle")
        /\ Mishap("db")
        /\ UNCHANGED <<memory, disowned>>
  /\ UNCHANGED <<state, rowVars, recorded, open, jobVars, channel, seen>>

HandleBatchFailed ==
  /\ Take("batchFailed")
  /\ flag' = "none"
  /\ activity' = "recent"
  /\ UNCHANGED <<state, rowVars, recorded, open, jobVars, lockVars, taskVars, disowned, mishaps>>

HandleSyncCompleted ==
  /\ Take("syncCompleted")
  /\ Enter("listener", "idle")
  /\ UNCHANGED <<state, rowVars, recorded, open, jobVars, flag, seen, disowned, mishaps>>

HandleTripped ==
  /\ Take("tripped")
  /\ ClearCampaignState
  /\ Disown(TRUE)
  /\ UNCHANGED <<state, rowVars, recorded, open, jobVars, taskVars, mishaps>>

HandleEvent ==
  \/ HandleRetryNeeded
  \/ HandleBatchCompleted
  \/ AfterBatchCompleted
  \/ HandleBatchFailed
  \/ HandleSyncCompleted
  \/ HandleTripped

-----------------------------------------------------------------------------
(* _check_stale_campaigns: one pass of the monitor over this campaign.      *)

\* get_campaigns_by_status: the object carries the timestamps of this instant.
ReadRunning ==
  /\ Goto("monitor", "idle", "look")
  /\ state = "running"
  /\ seen' = recorded
  /\ UNCHANGED <<state, rowVars, recorded, open, jobVars, channel, memory, disowned, mishaps>>

\* A batch that was scheduled and has not reported, and one that should have.
SlipInProgress == FALSE
InProgress == flag # "none"
SlipTooOld == FALSE
TooOld == flag = "stuck"

LookAtFlag ==
  /\ \/ TooOld /\ Goto("monitor", "look", "stuck") /\ flag' = "none"
     \/ ~InProgress /\ Goto("monitor", "look", "count") /\ UNCHANGED flag
     \/ InProgress /\ ~TooOld /\ Goto("monitor", "look", "idle") /\ UNCHANGED flag
  /\ Disown(flag' # flag)
  /\ UNCHANGED <<state, rowVars, recorded, open, jobVars, channel, lockVars, activity, seen, mishaps>>

\* Pending work after a stuck batch is scheduled at once; if there is none the
\* flag is looked at again, which the listener may have set.
CountAfterStuck ==
  /\ \/ HasPendingWork /\ Enter("monitor", "stuck") /\ UNCHANGED mishaps
     \/ /\ ~HasPendingWork
        /\ Goto("monitor", "stuck", IF InProgress THEN "idle" ELSE "count")
        /\ UNCHANGED <<lockVars, activity, mishaps>>
     \/ Goto("monitor", "stuck", "idle") /\ Mishap("db") /\ UNCHANGED <<lockVars, activity>>
  /\ UNCHANGED <<state, rowVars, recorded, open, jobVars, channel, flag, seen, disowned>>

\* Orphaned work is scheduled if the window is open; without work the campaign
\* may be complete, unless a batch is in progress again.
CountOrphans ==
  /\ \/ HasPendingWork /\ open /\ Enter("monitor", "count") /\ UNCHANGED mishaps
     \/ /\ HasPendingWork /\ ~open
        /\ Goto("monitor", "count", "idle")
        /\ UNCHANGED <<lockVars, activity, mishaps>>
     \/ /\ ~HasPendingWork
        /\ Goto("monitor", "count", IF InProgress THEN "idle" ELSE "decide")
        /\ UNCHANGED <<lockVars, activity, mishaps>>
     \/ Goto("monitor", "count", "idle") /\ Mishap("db") /\ UNCHANGED <<lockVars, activity>>
  /\ UNCHANGED <<state, rowVars, recorded, open, jobVars, channel, flag, seen, disowned>>

\* No activity for an hour: what is in memory counts, the campaign object only
\* where memory has nothing.
SlipInactive == activity = "old"
Inactive == activity = "old" \/ (activity = "none" /\ seen = "old")

ShouldMarkComplete ==
  /\ \/ ~HasPendingWork /\ Inactive /\ Goto("monitor", "decide", "confirm") /\ UNCHANGED mishaps
     \/ (HasPendingWork \/ ~Inactive) /\ Goto("monitor", "decide", "idle") /\ UNCHANGED mishaps
     \/ Goto("monitor", "decide", "idle") /\ Mishap("db")
  /\ UNCHANGED <<state, rowVars, recorded, open, jobVars, channel, memory, seen, disowned>>

\* _complete_campaign counts once more, then writes.
ConfirmCompletion ==
  /\ Goto("monitor", "confirm", IF HasPendingWork THEN "idle" ELSE "write")
  /\ UNCHANGED <<state, rowVars, recorded, open, jobVars, channel, memory, seen, disowned, mishaps>>

WriteCompleted ==
  /\ Goto("monitor", "write", "clear")
  /\ state' = "completed"
  /\ UNCHANGED <<rowVars, recorded, open, jobVars, channel, memory, seen, disowned, mishaps>>

ForgetCampaign ==
  /\ Goto("monitor", "clear", "idle")
  /\ ClearCampaignState
  /\ Disown(TRUE)
  /\ UNCHANGED <<state, rowVars, recorded, open, jobVars, channel, seen, mishaps>>

Monitor ==
  \/ ReadRunning
  \/ LookAtFlag
  \/ CountAfterStuck
  \/ CountOrphans
  \/ ShouldMarkComplete
  \/ ConfirmCompletion
  \/ WriteCompleted
  \/ ForgetCampaign

-----------------------------------------------------------------------------
(* Jobs, calls and users, as the orchestrator sees them (CampaignBatch has  *)
(* the details).                                                            *)

outside == <<open, memory, taskVars, disowned>>

\* sync_campaign_source: rows and state, then the event.
InsertRows ==
  /\ sync = "insert"
  /\ sync' = "publish"
  /\ due' = due + SourceRows
  /\ state' = "running"
  /\ UNCHANGED <<later, recorded, waiting, working, calls, channel, mishaps, outside>>

PublishSyncCompleted ==
  /\ sync = "publish"
  /\ sync' = "done"
  /\ channel' = Append(channel, "syncCompleted")
  /\ UNCHANGED <<state, rowVars, recorded, waiting, working, calls, mishaps, outside>>

SlipSmallerOf(m, n) == m
SmallerOf(m, n) == IF m < n THEN m ELSE n

\* process_batch: a campaign that is not running gets an empty batch.
ClaimRows ==
  /\ waiting > 0
  /\ waiting' = waiting - 1
  /\ working' = working + 1
  /\ LET n == IF state = "running" THEN SmallerOf(BatchSize, due) ELSE 0 IN
       /\ due' = due - n
       /\ calls' = calls + n
  /\ UNCHANGED <<state, later, recorded, sync, channel, mishaps, outside>>

\* batch_completed; or batch_failed, and the campaign is failed as well.
ReportBatch ==
  /\ working > 0
  /\ working' = working - 1
  /\ \/ /\ channel' = Append(channel, "batchCompleted")
        /\ UNCHANGED <<state, mishaps>>
     \/ /\ channel' = Append(channel, "batchFailed")
        /\ state' = "failed"
        /\ Mishap("fail")
  /\ UNCHANGED <<rowVars, recorded, sync, waiting, calls, outside>>

DropJob ==
  /\ Mishap("cancel")
  /\ \/ waiting > 0 /\ waiting' = waiting - 1 /\ UNCHANGED working
     \/ working > 0 /\ working' = working - 1 /\ UNCHANGED waiting
  /\ UNCHANGED <<state, rowVars, recorded, sync, calls, channel, outside>>

\* A status callback (busy, no answer) asks for a retry.
CallUnanswered ==
  /\ calls > 0
  /\ Mishap("busy")
  /\ calls' = calls - 1
  /\ channel' = Append(channel, "retryNeeded")
  /\ UNCHANGED <<state, rowVars, recorded, sync, waiting, working, outside>>

RetryDue ==
  /\ later > 0
  /\ later' = later - 1
  /\ due' = due + 1
  /\ UNCHANGED <<state, recorded, jobVars, channel, mishaps, outside>>

\* record_and_evaluate in a status callback: the state, then the event.
BreakerTrips ==
  /\ state = "running"
  /\ calls > 0
  /\ Mishap("trip")
  /\ state' = "paused"
  /\ channel' = Append(channel, "tripped")
  /\ UNCHANGED <<rowVars, recorded, jobVars, outside>>

PauseByUser ==
  /\ state \in {"syncing", "running"}
  /\ Mishap("pause")
  /\ state' = "paused"
  /\ UNCHANGED <<rowVars, recorded, jobVars, channel, outside>>

ResumeByUser ==
  /\ "pause" \in Faults
  /\ state = "paused"
  /\ state' = "running"
  /\ UNCHANGED <<rowVars, recorded, jobVars, channel, mishaps, outside>>

\* The connection of the listener was down when the event was published.
LoseEvent ==
  /\ Mishap("lost")
  /\ \E i \in DOMAIN channel : channel' = RemoveAt(channel, i)
  /\ UNCHANGED <<state, rowVars, recorded, jobVars, outside>>

\* A new process starts with empty maps and hears what is published from now on.
Restart ==
  /\ Mishap("restart")
  /\ channel' = <<>>
  /\ flag' = "none" /\ lock' = "none" /\ releases' = 0 /\ activity' = "none"
  /\ pc' = [p \in Tasks |-> "idle"]
  /\ Disown(TRUE)
  /\ UNCHANGED <<state, rowVars, recorded, open, jobVars, seen>>

-----------------------------------------------------------------------------
(* Time. *)

\* Neither task is in the middle of something, and no event is on its way.
Idle == channel = <<>> /\ \A p \in Tasks : pc[p] = "idle"

\* The lock is five seconds old.  Who set it is done by then, and whoever might
\* schedule a second batch has come and was turned away, unless something is slow.
LockExpires ==
  /\ lock # "none"
  /\ DropLock
  /\ \/ lock = "left" /\ (OnlyLock => UnderWay =< disowned) /\ UNCHANGED <<disowned, mishaps>>
     \/ Mishap("slow") /\ Disown(OnlyLock)
  /\ UNCHANGED <<state, rowVars, recorded, open, jobVars, channel, flag, activity, taskVars>>

\* _release_lock_after_delay: five seconds after the end of a schedule the entry
\* goes, also one that was set since, which a caller may do as soon as the lock
\* of that schedule is five seconds old or was cleared.
ReleaseLock ==
  /\ releases > 0
  /\ lock # "none" /\ OnlyLock /\ UnderWay > disowned => disowned < MaxClashes
  /\ lock' = "none"
  /\ releases' = IF lock = "left" THEN releases ELSE releases - 1
  /\ Disown(lock # "none" /\ OnlyLock)
  /\ UNCHANGED <<state, rowVars, recorded, open, jobVars, channel, flag, activity, taskVars, mishaps>>

FiveMinutesPass ==
  /\ flag = "fresh" /\ lock = "none" /\ releases = 0 /\ Idle
  /\ flag' = "stuck"
  /\ (InFlight = 0 /\ UNCHANGED mishaps) \/ (InFlight > 0 /\ Mishap("long"))
  /\ UNCHANGED <<state, rowVars, recorded, open, jobVars, channel, lockVars, activity, taskVars, disowned>>

\* Nothing was scheduled for an hour, although the monitor looked sixty times.
HourPasses ==
  /\ Idle /\ lock = "none" /\ releases = 0 /\ InFlight = 0 /\ flag # "fresh"
  /\ state = "running" => flag = "none" /\ (~open \/ ~HasPendingWork)
  /\ recorded' = "old"
  /\ activity' = IF activity = "recent" THEN "old" ELSE activity
  /\ <<recorded, activity>>' # <<recorded, activity>>
  /\ UNCHANGED <<state, rowVars, open, jobVars, channel, flag, lockVars, taskVars, disowned, mishaps>>

CloseWindow ==
  /\ open
  /\ Mishap("window")
  /\ open' = FALSE
  /\ UNCHANGED <<state, rowVars, recorded, jobVars, channel, memory, taskVars, disowned>>

OpenWindow ==
  /\ ~open
  /\ open' = TRUE
  /\ UNCHANGED <<state, rowVars, recorded, jobVars, channel, memory, taskVars, disowned, mishaps>>

-----------------------------------------------------------------------------
Orchestrate == HandleEvent \/ Monitor \/ \E p \in Tasks : ScheduleNextBatch(p)
Sync == InsertRows \/ PublishSyncCompleted
Jobs == ClaimRows \/ ReportBatch \/ DropJob \/ CallUnanswered \/ RetryDue
Users == BreakerTrips \/ PauseByUser \/ ResumeByUser
Losses == LoseEvent \/ Restart
Time == LockExpires \/ ReleaseLock \/ FiveMinutesPass \/ HourPasses \/ CloseWindow \/ OpenWindow

\* The campaign is over and so is everything that was done for it.
Terminating ==
  /\ state \notin {"syncing", "running"}
  /\ InFlight = 0 /\ Idle
  /\ UNCHANGED vars

Next == Orchestrate \/ Sync \/ Jobs \/ Users \/ Losses \/ Time \/ Terminating

Spec == Init /\ [][Next]_vars

\* The tasks, the sync job and the workers run on, scheduled_for passes, the
\* window opens again.  Time passes whenever the tasks are idle, which they are
\* again and again (the monitor sleeps between two passes): strong fairness.
Fairness ==
  /\ WF_vars(HandleEvent) /\ WF_vars(Monitor)
  /\ \A p \in Tasks : WF_vars(ScheduleNextBatch(p))
  /\ WF_vars(Sync) /\ WF_vars(ClaimRows) /\ WF_vars(ReportBatch)
  /\ WF_vars(RetryDue) /\ WF_vars(OpenWindow)
  /\ WF_vars(ReleaseLock)
  /\ SF_vars(LockExpires) /\ SF_vars(FiveMinutesPass) /\ SF_vars(HourPasses)

FairSpec == Spec /\ Fairness

-----------------------------------------------------------------------------
(* Safety. *)

\* One batch at a time: a second one is in flight only if the orchestrator has
\* lost sight of the first, with two tasks that both schedule, a completion that
\* clears whatever flag it finds, and a job that may be over before its flag is
\* set.  Among the ways to lose sight of it is one that takes no fault, the
\* delayed release (NoDuplicateScheduling); the property says there is no other
\* than the drops that Disown counts.
OneBatchAtATime == InFlight =< 1 + disowned

\* Why it is so (the inductive invariant of the proof): whoever may pass the
\* lock next finds a batch less in flight than that.
BatchesHaveOwners ==
  /\ UnderWay =< 1 + disowned
  /\ flag = "none" /\ (\A p \in Tasks : pc[p] \notin MayEnqueue \cup {"mark"})
       => UnderWay =< disowned
  /\ lock = "none" /\ OnlyLock => UnderWay =< disowned

\* "Prevent duplicate scheduling with in-memory lock": never are both tasks past
\* the lock.  They are: the delayed release of an earlier schedule deletes the
\* lock that the first of them has just set.
NoDuplicateScheduling == Cardinality(Reserved) =< 1

-----------------------------------------------------------------------------
(* Liveness. *)

\* Whatever events, jobs and memory are lost, a contact in the queue of a
\* running campaign gets its batch.
WorkIsPickedUp == state = "running" /\ due > 0 ~> due = 0 \/ state # "running"

\* No flag stays for ever, so the campaign comes to an end.
CampaignEnds == state \in {"syncing", "running"} ~> state \in {"completed", "paused", "failed"}
=============================================================================
