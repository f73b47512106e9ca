-------------------------- MODULE FollowUpCallbacks --------------------------
(***************************************************************************)
(* Scheduled follow-up callbacks of one source run.                        *)
(*                                                                         *)
(* A request (the agent's tool during the call, the extraction after it)   *)
(* creates a row of callbacks, or moves the one that is still scheduled.   *)
(* A cron job claims the due rows every minute and places their calls one  *)
(* after the other; jobs may overlap.  Status handlers in other processes  *)
(* record the outcome, and a failed first attempt gets a retry, which is a *)
(* row of its own.  Every database transaction is a step.  Rows and runs   *)
(* are numbered in the order of their creation, as their ids are.          *)
(***************************************************************************)
EXTENDS Integers, FiniteSets

CONSTANTS
  MaxCallbacks,   \* bound on the rows of callbacks
  MaxRuns,        \* bound on the workflow runs created for them
  MaxRequests,    \* bound on the requests of the source run
  MaxRoots,       \* bound on the requests that create a row
  Jobs,           \* check_due_callbacks jobs that may run at once
  Handlers,       \* concurrent requests that carry a terminal call status
  BatchLimit,     \* rows per claim
  MaxDeliveries,  \* how often a provider may report the end of one call
  Faults          \* what may go wrong in a run, a subset of AllFaults

\* refuse: initiate_call raises before the call is placed
\* save:   recording a call that was placed raises, or its answer is lost
\* db:     any other transaction raises, before or after its commit
\* early:  a status overtakes the update that links run and callback
\* cancel: arq cancels a job
AllFaults == {"refuse", "save", "db", "early", "cancel"}

Callbacks == 1 .. MaxCallbacks
Runs == 1 .. MaxRuns
None == 0

ASSUME BoundAssumption ==
  /\ MaxCallbacks \in Nat /\ MaxRuns \in Nat /\ MaxRequests \in Nat /\ MaxRoots \in Nat
  /\ BatchLimit \in Nat \ {0}
  /\ MaxDeliveries \in Nat \ {0}
ASSUME ScopeAssumption == Faults \subseteq AllFaults

VARIABLES
  cb,        \* callbacks.state, "absent" before the row exists
  later,     \* rows whose scheduled_for lies in the future
  parent,    \* parent_callback_id; retry_count is 1 for a row that has one
  requests,  \* requests made so far
  found,     \* the row a request has found, or "none" while there is no request
  run,       \* the callback a workflow run was created for
  linked,    \* runs whose gathered_context holds the callback_id
  call,      \* the provider's view of a run's call
  outcome,   \* how the call ended
  due,       \* terminal statuses still to be delivered for the call
  jpc,       \* where each job stands
  todo,      \* rows the job has claimed and not finished, the current one included
  cur,       \* the callback it is placing
  curRun,    \* the workflow run it has created for it
  hpc,       \* where each handler stands
  hcb        \* the callback whose attempt the handler settles

rowVars == <<cb, later, parent>>
requestVars == <<requests, found>>
runVars == <<run, linked>>
callVars == <<call, outcome, due>>
jobVars == <<jpc, todo, cur, curRun>>
handlerVars == <<hpc, hcb>>
vars == <<rowVars, requestVars, runVars, callVars, jobVars, handlerVars>>

RowStates == {"absent", "scheduled", "in_progress", "completed", "failed"}
Outcomes == {"completed", "failed", "no-answer"}
JobSteps == {"idle", "next", "place", "initiate", "link", "giveUp", "retry", "settle",
             "release"}
HandlerSteps == {"idle", "completed", "failed", "no-answer", "settle"}

TypeOK ==
  /\ cb \in [Callbacks -> RowStates]
  /\ later \subseteq Callbacks
  /\ parent \in [Callbacks -> Callbacks \cup {None}]
  /\ requests \in 0 .. MaxRequests
  /\ found \in Callbacks \cup {None, -1}
  /\ run \in [Runs -> Callbacks \cup {None}]
  /\ linked \subseteq Runs
  /\ call \in [Runs -> {"none", "live", "ended"}]
  /\ outcome \in [Runs -> Outcomes \cup {"none"}]
  /\ due \in [Runs -> 0 .. MaxDeliveries]
  /\ jpc \in [Jobs -> JobSteps]
  /\ todo \in [Jobs -> SUBSET Callbacks]
  /\ cur \in [Jobs -> Callbacks \cup {None}]
  /\ curRun \in [Jobs -> Runs \cup {None}]
  /\ hpc \in [Handlers -> HandlerSteps]
  /\ hcb \in [Handlers -> Callbacks \cup {None}]

NoRequest == -1

Init ==
  /\ cb = [c \in Callbacks |-> "absent"]
  /\ later = {}
  /\ parent = [c \in Callbacks |-> None]
  /\ requests = 0
  /\ found = NoRequest
  /\ run = [r \in Runs |-> None]
  /\ linked = {}
  /\ call = [r \in Runs |-> "none"]
  /\ outcome = [r \in Runs |-> "none"]
  /\ due = [r \in Runs |-> 0]
  /\ jpc = [j \in Jobs |-> "idle"]
  /\ todo = [j \in Jobs |-> {}]
  /\ cur = [j \in Jobs |-> None]
  /\ curRun = [j \in Jobs |-> None]
  /\ hpc = [h \in Handlers |-> "idle"]
  /\ hcb = [h \in Handlers |-> None]

-----------------------------------------------------------------------------
(* The rows. *)

Scheduled == {c \in Callbacks : cb[c] = "scheduled"}
Due == Scheduled \ later

NewCallback(c) == cb[c] = "absent" /\ \A d \in 1 .. c - 1 : cb[d] # "absent"
NewRun(r) == run[r] = None /\ \A s \in 1 .. r - 1 : run[s] # None

\* create_callback: always scheduled for a time to come.
CreateCallback(p) ==
  \E c \in Callbacks :
    /\ NewCallback(c)
    /\ cb' = [cb EXCEPT ![c] = "scheduled"]
    /\ later' = later \cup {c}
    /\ parent' = [parent EXCEPT ![c] = p]

SetState(c, state) ==
  /\ cb' = [cb EXCEPT ![c] = state]
  /\ UNCHANGED <<later, parent>>

\* Definitions named Slip... are the one that follows them with a plausible
\* mistake; some property notices each of them.

\* The single retry: retry_count of the attempt is 0.
SlipMayRetry(c) == TRUE
MayRetry(c) == parent[c] = None

-----------------------------------------------------------------------------
(* schedule_callback_for_run: read, then write in another transaction. *)

FindScheduled ==
  /\ found = NoRequest
  /\ requests < MaxRequests
  /\ requests' = requests + 1
  /\ \/ /\ Scheduled = {}
        /\ Cardinality({c \in Callbacks : cb[c] # "absent" /\ parent[c] = None}) < MaxRoots
        /\ found' = None
     \/ \E c \in Scheduled : (\A d \in Scheduled : d =< c) /\ found' = c
  /\ UNCHANGED <<rowVars, runVars, callVars, jobVars, handlerVars>>

\* The row that was found gets a new time, whatever has become of it.
ScheduleCallback ==
  /\ \/ found = None /\ CreateCallback(None)
     \/ /\ found \in Callbacks
        /\ later' = later \cup {found}
        /\ UNCHANGED <<cb, parent>>
  /\ found' = NoRequest
  /\ UNCHANGED <<requests, runVars, callVars, jobVars, handlerVars>>

\* Rows are postponed by an hour at least, and jobs are over before that.
BecomeDue(c) ==
  /\ c \in later
  /\ \A j \in Jobs : c \notin todo[j]
  /\ later' = later \ {c}
  /\ UNCHANGED <<cb, parent, requestVars, runVars, callVars, jobVars, handlerVars>>

-----------------------------------------------------------------------------
(* check_due_callbacks and place_callback_call. *)

Goto(j, from, to) ==
  /\ jpc[j] = from
  /\ jpc' = [jpc EXCEPT ![j] = to]

SmallerOf(m, n) == IF m < n THEN m ELSE n

SlipClaimed(S) == cb
Claimed(S) == [c \in Callbacks |-> IF c \in S THEN "in_progress" ELSE cb[c]]

\* One transaction, SKIP LOCKED.
ClaimDueCallbacks(j) ==
  /\ Goto(j, "idle", "next")
  /\ \E S \in SUBSET Due \ {{}} :
       /\ Cardinality(S) = SmallerOf(BatchLimit, Cardinality(Due))
       /\ cb' = Claimed(S)
       /\ todo' = [todo EXCEPT ![j] = S]
  /\ UNCHANGED <<later, parent, requestVars, runVars, callVars, cur, curRun, handlerVars>>

\* A tick that finds nothing to do.
NothingDue(j) ==
  /\ jpc[j] = "idle"
  /\ Due = {}
  /\ UNCHANGED vars

\* get_callback_by_id; a row that is neither scheduled nor in progress is skipped.
FetchCallback(j) ==
  /\ \E c \in todo[j] :
       \/ /\ Goto(j, "next", "place")
          /\ cb[c] \in {"in_progress", "scheduled"}
          /\ cur' = [cur EXCEPT ![j] = c]
          /\ UNCHANGED todo
       \/ /\ Goto(j, "next", IF todo[j] = {c} THEN "idle" ELSE "next")
          /\ cb[c] \notin {"in_progress", "scheduled"}
          /\ todo' = [todo EXCEPT ![j] = @ \ {c}]
          /\ UNCHANGED cur
  /\ UNCHANGED <<rowVars, requestVars, runVars, callVars, curRun, handlerVars>>

\* The job is done with its current callback.
Finish(j, from) ==
  /\ Goto(j, from, IF todo[j] = {cur[j]} THEN "idle" ELSE "next")
  /\ todo' = [todo EXCEPT ![j] = @ \ {cur[j]}]
  /\ cur' = [cur EXCEPT ![j] = None]
  /\ curRun' = [curRun EXCEPT ![j] = None]

\* An exception that leaves place_callback_call.
Raise(j, from) ==
  /\ "db" \in Faults
  /\ Goto(j, from, "release")
  /\ UNCHANGED <<todo, cur, curRun>>

\* Quiet hours, or no quota left.  After an exception in quiet hours the release
\* of the row has the same effect; one of the quota guard is swallowed, and the
\* placement goes on.
Postpone(j) ==
  /\ \/ Finish(j, "place")
     \/ "db" \in Faults /\ jpc[j] = "place" /\ UNCHANGED jobVars
  /\ cb' = [cb EXCEPT ![cur[j]] = "scheduled"]
  /\ later' = later \cup {cur[j]}
  /\ UNCHANGED <<parent, requestVars, runVars, callVars, handlerVars>>

\* No workflow, no provider, or no number to call from.
Reject(j) ==
  /\ Finish(j, "place") \/ Raise(j, "place")
  /\ SetState(cur[j], "failed")
  /\ UNCHANGED <<requestVars, runVars, callVars, handlerVars>>

CreateWorkflowRun(j) ==
  /\ \/ \E r \in Runs :
          /\ NewRun(r)
          /\ run' = [run EXCEPT ![r] = cur[j]]
          /\ \/ /\ Goto(j, "place", "initiate")
                /\ curRun' = [curRun EXCEPT ![j] = r]
                /\ UNCHANGED <<todo, cur>>
             \/ Raise(j, "place")
     \/ Raise(j, "place") /\ UNCHANGED run
  /\ UNCHANGED <<rowVars, requestVars, linked, callVars, handlerVars>>

InitiateCall(j) ==
  /\ \/ Goto(j, "initiate", "link") /\ call' = [call EXCEPT ![curRun[j]] = "live"]
     \/ "refuse" \in Faults /\ Goto(j, "initiate", "giveUp") /\ UNCHANGED call
  /\ UNCHANGED <<rowVars, requestVars, runVars, outcome, due, todo, cur, curRun, handlerVars>>

\* The update of gathered_context names the callback.
SlipWithCallback(r) == linked
WithCallback(r) == linked \cup {r}

\* Only now can a status of the run find the callback.
LinkRun(j) ==
  /\ \/ Finish(j, "link") /\ linked' = WithCallback(curRun[j])
     \/ /\ "save" \in Faults
        /\ Goto(j, "link", "giveUp")
        /\ linked' \in {linked, WithCallback(curRun[j])}
        /\ UNCHANGED <<todo, cur, curRun>>
  /\ UNCHANGED <<rowVars, requestVars, run, callVars, handlerVars>>

\* The except branch closes the run and records a failed attempt.
GiveUp(j) ==
  /\ \/ /\ Goto(j, "giveUp", "retry")
        /\ linked' = WithCallback(curRun[j])
        /\ UNCHANGED <<todo, cur, curRun>>
     \/ /\ Raise(j, "giveUp")
        /\ linked' \in {linked, WithCallback(curRun[j])}
  /\ UNCHANGED <<rowVars, requestVars, run, callVars, handlerVars>>

\* handle_callback_attempt_outcome of a failed attempt: create the retry ...
RetryOfJob(j) ==
  /\ jpc[j] = "retry"
  /\ \/ /\ MayRetry(cur[j])
        /\ CreateCallback(cur[j])
        /\ (Goto(j, "retry", "settle") /\ UNCHANGED <<todo, cur, curRun>>) \/ Raise(j, "retry")
     \/ /\ ~MayRetry(cur[j])
        /\ Goto(j, "retry", "settle")
        /\ UNCHANGED <<rowVars, todo, cur, curRun>>
  /\ UNCHANGED <<requestVars, runVars, callVars, handlerVars>>

\* ... and close the attempt.
SettleOfJob(j) ==
  /\ \/ Finish(j, "settle") /\ SetState(cur[j], "failed")
     \/ Raise(j, "settle") /\ (SetState(cur[j], "failed") \/ UNCHANGED rowVars)
  /\ UNCHANGED <<requestVars, runVars, callVars, handlerVars>>

\* check_due_callbacks puts a callback that raised back, whatever it had done.
ReleaseCallback(j) ==
  /\ Finish(j, "release")
  /\ SetState(cur[j], "scheduled") \/ UNCHANGED rowVars
  /\ UNCHANGED <<requestVars, runVars, callVars, handlerVars>>

CancelJob(j) ==
  /\ "cancel" \in Faults
  /\ jpc[j] # "idle"
  /\ jpc' = [jpc EXCEPT ![j] = "idle"]
  /\ todo' = [todo EXCEPT ![j] = {}]
  /\ cur' = [cur EXCEPT ![j] = None]
  /\ curRun' = [curRun EXCEPT ![j] = None]
  /\ UNCHANGED <<rowVars, requestVars, runVars, callVars, handlerVars>>

Work(j) ==
  \/ FetchCallback(j)
  \/ Postpone(j)
  \/ Reject(j)
  \/ CreateWorkflowRun(j)
  \/ InitiateCall(j)
  \/ LinkRun(j)
  \/ GiveUp(j)
  \/ RetryOfJob(j)
  \/ SettleOfJob(j)
  \/ ReleaseCallback(j)

-----------------------------------------------------------------------------
(* The provider, and the outcome hook of its status handlers. *)

\* A job is between the call and the update that links it.
Unlinked(r) == \E j \in Jobs : curRun[j] = r /\ jpc[j] \in {"link", "giveUp"}

EndCall(r) ==
  /\ call[r] = "live"
  /\ "early" \in Faults \/ ~Unlinked(r)
  /\ call' = [call EXCEPT ![r] = "ended"]
  /\ \E o \in Outcomes, k \in 1 .. MaxDeliveries :
       /\ outcome' = [outcome EXCEPT ![r] = o]
       /\ due' = [due EXCEPT ![r] = k]
  /\ UNCHANGED <<rowVars, requestVars, runVars, jobVars, handlerVars>>

\* The status of a run that is not linked yet is of no callback.
ReceiveStatus(h, r) ==
  /\ hpc[h] = "idle"
  /\ due[r] > 0
  /\ due' = [due EXCEPT ![r] = @ - 1]
  /\ \/ /\ r \in linked
        /\ hpc' = [hpc EXCEPT ![h] = outcome[r]]
        /\ hcb' = [hcb EXCEPT ![h] = run[r]]
     \/ r \notin linked /\ UNCHANGED handlerVars
  /\ UNCHANGED <<rowVars, requestVars, runVars, call, outcome, jobVars>>

HandlerDone(h) ==
  /\ hpc' = [hpc EXCEPT ![h] = "idle"]
  /\ hcb' = [hcb EXCEPT ![h] = None]

SlipOutcomeState(o) == o
OutcomeState(o) == IF o = "completed" THEN "completed" ELSE "failed"

\* Connected, unanswered, or the retry has failed as well: the row is closed.
CloseAttempt(h) ==
  /\ \/ hpc[h] \in {"completed", "no-answer", "settle"}
     \/ hpc[h] = "failed" /\ ~MayRetry(hcb[h])
  /\ SetState(hcb[h], OutcomeState(hpc[h])) \/ ("db" \in Faults /\ UNCHANGED rowVars)
  /\ HandlerDone(h)
  /\ UNCHANGED <<requestVars, runVars, callVars, jobVars>>

\* A failed first attempt: nobody asks whether it has a retry already.
RetryAttempt(h) ==
  /\ hpc[h] = "failed"
  /\ MayRetry(hcb[h])
  /\ CreateCallback(hcb[h])
  /\ \/ hpc' = [hpc EXCEPT ![h] = "settle"] /\ UNCHANGED hcb
     \/ "db" \in Faults /\ HandlerDone(h)
  /\ UNCHANGED <<requestVars, runVars, callVars, jobVars>>

Handle(h) == CloseAttempt(h) \/ RetryAttempt(h)

-----------------------------------------------------------------------------
Next ==
  \/ FindScheduled
  \/ ScheduleCallback
  \/ \E c \in Callbacks : BecomeDue(c)
  \/ \E j \in Jobs : ClaimDueCallbacks(j) \/ NothingDue(j) \/ Work(j) \/ CancelJob(j)
  \/ \E r \in Runs : EndCall(r) \/ \E h \in Handlers : ReceiveStatus(h, r)
  \/ \E h \in Handlers : Handle(h)

Spec == Init /\ [][Next]_vars

\* Jobs and handlers run on, calls end and their statuses arrive.
Fairness ==
  /\ \A j \in Jobs : WF_vars(Work(j))
  /\ \A r \in Runs : WF_vars(EndCall(r)) /\ WF_vars(\E h \in Handlers : ReceiveStatus(h, r))
  /\ \A h \in Handlers : WF_vars(Handle(h))

FairSpec == Spec /\ Fairness

-----------------------------------------------------------------------------
(* Properties. *)

\* Two overlapping cron jobs never place the same callback ("Atomically claim
\* due callbacks"), although failed placements put rows back while other jobs
\* and handlers are at work.
JobsOwnCallbacks ==
  \A j, k \in Jobs : j # k => todo[j] \cap todo[k] = {}

\* A retry is never retried ("busy/failed outcomes consume the single retry"),
\* whoever settles it: a job whose call was refused, or one or two handlers.
RetriesAreLeaves ==
  \A c \in Callbacks : parent[c] # None => parent[parent[c]] = None

\* Every retry of an attempt answers a report of its own: there are no more of
\* them than reports of one call, whatever jobs, refusals and other handlers do
\* meanwhile.  The code says "Schedule the single retry" and keeps that only if
\* the failure is reported once, which its own handlers are told not to count on
\* ("they should handle multiple API calls").
RetriesOf(p) == {c \in Callbacks : parent[c] = p}

RetriesAreReported ==
  \A p \in Callbacks : Cardinality(RetriesOf(p)) =< MaxDeliveries

\* "A connected call marks the callback completed".
ConnectedMeansCompleted ==
  \A r \in Runs :
    outcome[r] = "completed" /\ due[r] = 0 /\ (\A h \in Handlers : hcb[h] # run[r])
      => cb[run[r]] = "completed"

\* An attempt that was claimed ends, or is postponed: no callback stays in
\* progress for ever.
EveryAttemptResolves ==
  \A c \in Callbacks : cb[c] = "in_progress" ~> cb[c] # "in_progress"

-----------------------------------------------------------------------------
(* The promise to the caller. *)

\* The request a workflow run goes back to.  A retry of a retry, were there one,
\* would count as the third call of its request.
Attempted(c) == IF parent[c] = None THEN c ELSE parent[c]
Origin(r) == Attempted(Attempted(run[r]))
Placed == {r \in Runs : call[r] # "none"}

CP == INSTANCE CallbackPromise WITH
        Requests <- Callbacks,
        Retries <- MaxDeliveries,
        calls <- [c \in Callbacks |-> Cardinality({r \in Placed : Origin(r) = c})],
        open <- [c \in Callbacks |-> Cardinality({r \in Runs : call[r] = "live" /\ Origin(r) = c})],
        connected <- {Origin(r) : r \in {s \in Runs : outcome[s] = "completed"}}

\* Cron jobs, handlers and requests together call a caller as CallbackPromise says.
ImplementsCallbackPromise == CP!Spec
=============================================================================
