----------------------- MODULE FollowUpCallbacks_proofs -----------------------
(***************************************************************************)
(* Theorems about FollowUpCallbacks for every bound on rows, runs,         *)
(* requests and batches and every set of jobs and handlers.  Where one     *)
(* needs that some fault does not happen, its ASSUME says so.              *)
(***************************************************************************)
EXTENDS FollowUpCallbacks, FiniteSetTheorems, TLAPS

-----------------------------------------------------------------------------
(* The inductive invariant. *)

\* What a program counter says of the job's locals: the current callback is one
\* it has claimed, and a workflow run it has created is one of some callback.
JobsKnowTheirWork ==
  \A j \in Jobs :
    /\ jpc[j] \notin {"idle", "next"} => cur[j] \in todo[j]
    /\ jpc[j] \in {"initiate", "link", "giveUp"} =>
         curRun[j] \in Runs /\ run[curRun[j]] # None

\* A run that is linked has a callback, a handler at work knows its own, and a
\* status that is due says how its call ended.
HandlersKnowTheirWork ==
  /\ \A r \in linked : run[r] # None
  /\ \A h \in Handlers : hpc[h] # "idle" => hcb[h] \in Callbacks
  /\ \A r \in Runs : due[r] > 0 => outcome[r] # "none"

\* Whoever holds the number of a row holds that of one that exists, and only a
\* row that exists has a parent.
Exist(c) == c # None => cb[c] # "absent"
NothingDangles ==
  /\ \A c \in Callbacks : Exist(parent[c]) /\ (parent[c] # None => cb[c] # "absent")
  /\ \A r \in Runs : Exist(run[r])
  /\ \A h \in Handlers : Exist(hcb[h])
  /\ \A j \in Jobs : \A c \in todo[j] : cb[c] # "absent"

\* A row that a job still has in hand is not due: neither the outcome of an
\* earlier call nor a new request makes it so under the job.
ClaimedIsNotDue ==
  \A j \in Jobs : \A c \in todo[j] : c \notin Due

WorkInv == TypeOK /\ JobsKnowTheirWork /\ HandlersKnowTheirWork
OwnInv == JobsOwnCallbacks /\ ClaimedIsNotDue
RetryInv == NothingDangles /\ RetriesAreLeaves

-----------------------------------------------------------------------------
(* Types. *)

\* The variables keep their types, and locals their meaning, through every
\* transaction of jobs, handlers and requests.
LEMMA WorkStep == WorkInv /\ [Next]_vars => WorkInv'
<1> SUFFICES ASSUME WorkInv, [Next]_vars PROVE WorkInv'
  OBVIOUS
<1> USE BoundAssumption
<1> USE DEF WorkInv, TypeOK, JobsKnowTheirWork, HandlersKnowTheirWork, RowStates, Outcomes,
            JobSteps, HandlerSteps, None, rowVars, requestVars, runVars,
            callVars, jobVars, handlerVars, Goto, SetState
<1>1. CASE FindScheduled
  BY <1>1 DEF FindScheduled, Scheduled, NoRequest
<1>2. CASE ScheduleCallback
  BY <1>2 DEF ScheduleCallback, CreateCallback, NoRequest
<1>3. ASSUME NEW c \in Callbacks, BecomeDue(c) PROVE WorkInv'
  BY <1>3 DEF BecomeDue
<1>4. ASSUME NEW j \in Jobs, ClaimDueCallbacks(j) PROVE WorkInv'
  BY <1>4 DEF ClaimDueCallbacks, Claimed, Due, Scheduled
<1>5. ASSUME NEW j \in Jobs, Work(j) PROVE WorkInv'
  <2>1. CASE FetchCallback(j)
    BY <2>1 DEF FetchCallback
  <2>2. CASE Postpone(j)
    BY <2>2 DEF Postpone, Finish
  <2>3. CASE Reject(j)
    BY <2>3 DEF Reject, Finish, Raise
  <2>4. CASE CreateWorkflowRun(j)
    <3>1. cur[j] \in Callbacks /\ cur[j] # None
      <4>1. jpc[j] = "place"
        BY <2>4 DEF CreateWorkflowRun, Raise
      <4>2. cur[j] \in Callbacks
        BY <4>1
      <4>3. QED
        BY <4>2 DEF Callbacks
    <3>2. ASSUME NEW r \in Runs, NewRun(r), run' = [run EXCEPT ![r] = cur[j]]
          PROVE  /\ run' \in [Runs -> Callbacks \cup {None}]
                 /\ run'[r] # None
                 /\ \A s \in Runs : run[s] # None => run'[s] # None
      BY <3>1, <3>2
    <3>3. QED
      BY <2>4, <3>2 DEF CreateWorkflowRun, Raise
  <2>5. CASE InitiateCall(j)
    BY <2>5 DEF InitiateCall
  <2>6. CASE LinkRun(j)
    BY <2>6 DEF LinkRun, Finish, WithCallback
  <2>7. CASE GiveUp(j)
    BY <2>7 DEF GiveUp, Raise, WithCallback
  <2>8. CASE RetryOfJob(j)
    BY <2>8 DEF RetryOfJob, CreateCallback, Raise
  <2>9. CASE SettleOfJob(j)
    BY <2>9 DEF SettleOfJob, Finish, Raise
  <2>10. CASE ReleaseCallback(j)
    BY <2>10 DEF ReleaseCallback, Finish
  <2>11. QED
    BY <1>5, <2>1, <2>2, <2>3, <2>4, <2>5, <2>6, <2>7, <2>8, <2>9, <2>10 DEF Work
<1>6. ASSUME NEW j \in Jobs, CancelJob(j) PROVE WorkInv'
  BY <1>6 DEF CancelJob
<1>7. ASSUME NEW r \in Runs, EndCall(r) PROVE WorkInv'
  <2>1. PICK o \in Outcomes, k \in 1 .. MaxDeliveries :
          outcome' = [outcome EXCEPT ![r] = o] /\ due' = [due EXCEPT ![r] = k]
    BY <1>7 DEF EndCall
  <2>2. due' \in [Runs -> 0 .. MaxDeliveries]
    BY <2>1
  <2>3. outcome' \in [Runs -> Outcomes \cup {"none"}]
    BY <2>1
  <2>4. \A s \in Runs : due'[s] > 0 => outcome'[s] # "none"
    BY <2>1
  <2>5. /\ call' = [call EXCEPT ![r] = "ended"]
        /\ UNCHANGED <<rowVars, requestVars, runVars, jobVars, handlerVars>>
    BY <1>7 DEF EndCall
  <2>6. TypeOK'
    BY <2>2, <2>3, <2>5
  <2>7. JobsKnowTheirWork'
    BY <2>5
  <2>8. HandlersKnowTheirWork'
    BY <2>4, <2>5
  <2>9. QED
    BY <2>6, <2>7, <2>8
<1>8. ASSUME NEW r \in Runs, NEW h \in Handlers, ReceiveStatus(h, r) PROVE WorkInv'
  <2>1. due' \in [Runs -> 0 .. MaxDeliveries] /\ (\A s \in Runs : due'[s] > 0 => due[s] > 0)
    BY <1>8 DEF ReceiveStatus
  <2>2. outcome[r] \in Outcomes
    BY <1>8 DEF ReceiveStatus
  <2>3. CASE r \notin linked
    BY <1>8, <2>1, <2>3 DEF ReceiveStatus
  <2>4. CASE r \in linked
    BY <1>8, <2>1, <2>2, <2>4 DEF ReceiveStatus
  <2>5. QED
    BY <2>3, <2>4
<1>9. ASSUME NEW h \in Handlers, Handle(h) PROVE WorkInv'
  <2>1. CASE CloseAttempt(h)
    BY <2>1 DEF CloseAttempt, OutcomeState, HandlerDone
  <2>2. CASE RetryAttempt(h)
    BY <2>2 DEF RetryAttempt, CreateCallback, HandlerDone
  <2>3. QED
    BY <1>9, <2>1, <2>2 DEF Handle
<1>10. CASE UNCHANGED vars
  BY <1>10 DEF vars
<1>11. QED
  BY <1>1, <1>2, <1>3, <1>4, <1>5, <1>6, <1>7, <1>8, <1>9, <1>10 DEF Next, NothingDue

\* The same invariant, from the initial state on.
LEMMA WorkCorrect == Spec => []WorkInv
<1>1. Init => WorkInv
  BY BoundAssumption
     DEF Init, WorkInv, TypeOK, JobsKnowTheirWork, HandlersKnowTheirWork, RowStates,
         JobSteps, HandlerSteps, None, NoRequest
<1>2. QED
  BY <1>1, WorkStep, PTL DEF Spec

\* The type invariant of FollowUpCallbacks holds in every reachable state.
THEOREM TypeCorrect == Spec => []TypeOK
<1>1. WorkInv => TypeOK
  BY DEF WorkInv
<1>2. QED
  BY <1>1, WorkCorrect, PTL

-----------------------------------------------------------------------------
(* What a step does to the rows and to those who hold their numbers. *)

\* The rows that some job or handler has in hand.
Held == {c \in Callbacks : (\E j \in Jobs : c \in todo[j]) \/ (\E h \in Handlers : c = hcb[h])}

\* Rows stay; a new one is the request's own or the retry of a row in hand that
\* is no retry; numbers are passed on and never made up.
Effects ==
  /\ \A c \in Callbacks : cb[c] # "absent" => cb'[c] # "absent"
  /\ \/ UNCHANGED parent
     \/ \E p \in Held \cup {None} : CreateCallback(p) /\ (p # None => MayRetry(p))
  /\ \A j \in Jobs : todo'[j] \subseteq todo[j] \cup Scheduled
  /\ \A r \in Runs : run'[r] # run[r] => run[r] = None /\ run'[r] \in Held
  /\ \A h \in Handlers : hcb'[h] \in {hcb[h], None} \/ \E r \in Runs : hcb'[h] = run[r]

\* Every step has these effects.
LEMMA StepEffects == WorkInv /\ [Next]_vars => Effects
<1> SUFFICES ASSUME WorkInv, [Next]_vars PROVE Effects
  OBVIOUS
<1> USE DEF WorkInv, TypeOK, JobsKnowTheirWork, HandlersKnowTheirWork, Effects, Held,
            rowVars, requestVars, runVars, callVars, jobVars, handlerVars, Goto, SetState
<1>1. CASE FindScheduled
  BY <1>1 DEF FindScheduled
<1>2. CASE ScheduleCallback
  BY <1>2 DEF ScheduleCallback, CreateCallback, NewCallback
<1>3. ASSUME NEW c \in Callbacks, BecomeDue(c) PROVE Effects
  BY <1>3 DEF BecomeDue
<1>4. ASSUME NEW j \in Jobs, ClaimDueCallbacks(j) PROVE Effects
  BY <1>4 DEF ClaimDueCallbacks, Claimed, Due
<1>5. ASSUME NEW j \in Jobs, Work(j) PROVE Effects
  <2>1. CASE FetchCallback(j)
    BY <2>1 DEF FetchCallback
  <2>2. CASE Postpone(j)
    BY <2>2 DEF Postpone, Finish
  <2>3. CASE Reject(j)
    BY <2>3 DEF Reject, Finish, Raise
  <2>4. CASE CreateWorkflowRun(j)
    BY <2>4 DEF CreateWorkflowRun, NewRun, Raise
  <2>5. CASE InitiateCall(j)
    BY <2>5 DEF InitiateCall
  <2>6. CASE LinkRun(j)
    BY <2>6 DEF LinkRun, Finish
  <2>7. CASE GiveUp(j)
    BY <2>7 DEF GiveUp, Raise
  <2>8. CASE RetryOfJob(j)
    <3>1. cur[j] \in Held /\ UNCHANGED <<run, hcb, todo>>
      BY <2>8 DEF RetryOfJob, Raise
    <3>2. CASE UNCHANGED rowVars
      BY <3>1, <3>2
    <3>3. CASE MayRetry(cur[j]) /\ CreateCallback(cur[j])
      BY <3>1, <3>3 DEF CreateCallback, NewCallback
    <3>4. QED
      BY <2>8, <3>2, <3>3 DEF RetryOfJob
  <2>9. CASE SettleOfJob(j)
    BY <2>9 DEF SettleOfJob, Finish, Raise
  <2>10. CASE ReleaseCallback(j)
    BY <2>10 DEF ReleaseCallback, Finish
  <2>11. QED
    BY <1>5, <2>1, <2>2, <2>3, <2>4, <2>5, <2>6, <2>7, <2>8, <2>9, <2>10 DEF Work
<1>6. ASSUME NEW j \in Jobs, CancelJob(j) PROVE Effects
  BY <1>6 DEF CancelJob
<1>7. ASSUME NEW r \in Runs, EndCall(r) PROVE Effects
  BY <1>7 DEF EndCall
<1>8. ASSUME NEW r \in Runs, NEW h \in Handlers, ReceiveStatus(h, r) PROVE Effects
  BY <1>8 DEF ReceiveStatus
<1>9. ASSUME NEW h \in Handlers, Handle(h) PROVE Effects
  <2>1. CASE CloseAttempt(h)
    BY <2>1 DEF CloseAttempt, OutcomeState, HandlerDone
  <2>2. CASE RetryAttempt(h)
    <3>1. /\ hcb[h] \in Held
          /\ MayRetry(hcb[h]) /\ CreateCallback(hcb[h])
          /\ UNCHANGED <<run, todo>>
          /\ \A i \in Handlers : hcb'[i] \in {hcb[i], None}
      BY <2>2 DEF RetryAttempt, HandlerDone
    <3>2. QED
      BY <3>1 DEF CreateCallback, NewCallback
  <2>3. QED
    BY <1>9, <2>1, <2>2 DEF Handle
<1>10. CASE UNCHANGED vars
  BY <1>10 DEF vars
<1>11. QED
  BY <1>1, <1>2, <1>3, <1>4, <1>5, <1>6, <1>7, <1>8, <1>9, <1>10 DEF Next, NothingDue

-----------------------------------------------------------------------------
(* The single retry. *)

\* A new row is nobody's parent, because everybody's number is that of a row that
\* existed before; so only the new row's own parent matters, which is no retry.
LEMMA RetryStep == WorkInv /\ RetryInv /\ [Next]_vars => RetryInv'
<1> SUFFICES ASSUME WorkInv, RetryInv, Effects, WorkInv' PROVE RetryInv'
  BY StepEffects, WorkStep
<1> USE DEF WorkInv, TypeOK, RetryInv
<1>1. \A c \in Held : cb[c] # "absent" /\ c # None
  BY DEF Held, NothingDangles, Exist, Callbacks, None
<1>2. ASSUME NEW c \in Callbacks, parent'[c] # parent[c]
      PROVE  /\ cb[c] = "absent" /\ cb'[c] = "scheduled"
             /\ parent'[c] \in Held /\ parent[parent'[c]] = None
             /\ \A d \in Callbacks : d # c => parent'[d] = parent[d]
  <2>1. PICK p \in Held \cup {None} : CreateCallback(p) /\ (p # None => MayRetry(p))
    BY <1>2 DEF Effects
  <2>2. cb[c] = "absent" /\ cb'[c] = "scheduled" /\ parent' = [parent EXCEPT ![c] = p]
    BY <1>2, <2>1 DEF CreateCallback, NewCallback
  <2>3. p # None
    BY <1>2, <2>2 DEF NothingDangles
  <2>4. QED
    BY <2>1, <2>2, <2>3 DEF MayRetry
<1>3. \A c \in Held : cb'[c] # "absent"
  BY <1>1 DEF Effects, Held
<1>4. NothingDangles'
  <2>1. ASSUME NEW c \in Callbacks
        PROVE  Exist(parent[c])' /\ (parent'[c] # None => cb'[c] # "absent")
    <3>1. CASE parent'[c] = parent[c]
      BY <3>1 DEF NothingDangles, Exist, Effects
    <3>2. CASE parent'[c] # parent[c]
      BY <1>2, <1>3, <3>2 DEF Exist
    <3>3. QED
      BY <3>1, <3>2
  <2>2. ASSUME NEW r \in Runs PROVE Exist(run[r])'
    BY <1>3 DEF NothingDangles, Exist, Effects
  <2>3. ASSUME NEW h \in Handlers PROVE Exist(hcb[h])'
    BY DEF NothingDangles, Exist, Effects
  <2>4. ASSUME NEW j \in Jobs, NEW c \in todo'[j] PROVE cb'[c] # "absent"
    BY <2>4 DEF NothingDangles, Effects, Scheduled
  <2>5. QED
    BY <2>1, <2>2, <2>3, <2>4 DEF NothingDangles
<1>5. RetriesAreLeaves'
  <2>1. ASSUME NEW c \in Callbacks, parent'[c] # None PROVE parent'[parent'[c]] = None
    <3>1. parent'[c] \in Callbacks /\ parent[parent'[c]] = None
      BY <1>2, <2>1 DEF RetriesAreLeaves, Held
    <3>2. cb[parent'[c]] # "absent"
      BY <1>1, <1>2, <2>1 DEF NothingDangles, Exist
    <3>3. QED
      BY <1>2, <3>1, <3>2
  <2>2. QED
    BY <2>1 DEF RetriesAreLeaves
<1>6. QED
  BY <1>4, <1>5

\* A retry is never retried (RetriesAreLeaves), under every fault and however
\* often the end of a call is reported.
THEOREM RetriesEnd == Spec => []RetriesAreLeaves
<1>1. Init => RetryInv
  BY DEF Init, RetryInv, NothingDangles, Exist, RetriesAreLeaves
<1>2. RetryInv => RetriesAreLeaves
  BY DEF RetryInv
<1>3. QED
  BY <1>1, <1>2, RetryStep, WorkCorrect, PTL DEF Spec

-----------------------------------------------------------------------------
(* Who owns a claimed callback. *)

\* A claim takes due rows only, no row in hand is due, and a job that puts a row
\* back lets go of it in the same step or leaves it for later.
LEMMA OwnStep == WorkInv /\ NothingDangles /\ OwnInv /\ [Next]_vars => OwnInv'
<1> SUFFICES ASSUME WorkInv, NothingDangles, OwnInv, [Next]_vars PROVE OwnInv'
  OBVIOUS
<1> USE DEF WorkInv, TypeOK, OwnInv, JobsOwnCallbacks, ClaimedIsNotDue
<1>1. ASSUME \A j \in Jobs : todo'[j] \subseteq todo[j],
             \A c \in Callbacks : c \in Due' =>
               c \in Due \/ cb[c] = "absent" \/ \A j \in Jobs : c \notin todo'[j]
      PROVE  OwnInv'
  BY <1>1 DEF NothingDangles
<1> USE DEF Due, Scheduled, rowVars, requestVars, runVars, callVars, jobVars, handlerVars, Goto,
            SetState
<1>2. CASE FindScheduled \/ UNCHANGED vars
  BY <1>1, <1>2 DEF FindScheduled, vars
<1>3. ASSUME NEW p, CreateCallback(p), UNCHANGED todo PROVE OwnInv'
  BY <1>1, <1>3 DEF CreateCallback, NewCallback
<1>4. CASE ScheduleCallback
  BY <1>1, <1>3, <1>4 DEF ScheduleCallback
<1>5. ASSUME NEW c \in Callbacks, BecomeDue(c) PROVE OwnInv'
  BY <1>1, <1>5 DEF BecomeDue
<1>6. ASSUME NEW j \in Jobs, ClaimDueCallbacks(j) PROVE OwnInv'
  BY <1>6 DEF ClaimDueCallbacks, Claimed
<1>7. ASSUME NEW j \in Jobs, Work(j) PROVE OwnInv'
  <2>1. ASSUME NEW from \in JobSteps \ {"idle", "next"}, Finish(j, from)
        PROVE  /\ \A k \in Jobs : todo'[k] \subseteq todo[k]
               /\ \A k \in Jobs : cur[j] \notin todo'[k]
    BY <2>1 DEF Finish, JobsKnowTheirWork
  <2>2. ASSUME NEW from, Raise(j, from) PROVE UNCHANGED todo
    BY <2>2 DEF Raise
  <2> USE DEF JobSteps
  <2>3. CASE FetchCallback(j)
    BY <1>1, <2>3 DEF FetchCallback
  <2>4. CASE Postpone(j)
    BY <1>1, <2>1, <2>4 DEF Postpone
  <2>5. CASE Reject(j)
    BY <1>1, <2>1, <2>2, <2>5 DEF Reject
  <2>6. CASE CreateWorkflowRun(j) \/ InitiateCall(j) \/ GiveUp(j)
    BY <1>1, <2>2, <2>6 DEF CreateWorkflowRun, InitiateCall, GiveUp
  <2>7. CASE LinkRun(j)
    BY <1>1, <2>1, <2>7 DEF LinkRun
  <2>8. CASE RetryOfJob(j)
    BY <1>1, <1>3, <2>2, <2>8 DEF RetryOfJob
  <2>9. CASE SettleOfJob(j)
    BY <1>1, <2>1, <2>2, <2>9 DEF SettleOfJob
  <2>10. CASE ReleaseCallback(j)
    BY <1>1, <2>1, <2>10 DEF ReleaseCallback
  <2>11. QED
    BY <1>7, <2>3, <2>4, <2>5, <2>6, <2>7, <2>8, <2>9, <2>10 DEF Work
<1>8. ASSUME NEW j \in Jobs, CancelJob(j) PROVE OwnInv'
  BY <1>1, <1>8 DEF CancelJob
<1>9. ASSUME NEW r \in Runs, EndCall(r) \/ \E h \in Handlers : ReceiveStatus(h, r)
      PROVE  OwnInv'
  BY <1>1, <1>9 DEF EndCall, ReceiveStatus
<1>10. ASSUME NEW h \in Handlers, Handle(h) PROVE OwnInv'
  <2>1. CASE CloseAttempt(h)
    BY <1>1, <2>1 DEF CloseAttempt, OutcomeState
  <2>2. CASE RetryAttempt(h)
    BY <1>3, <2>2 DEF RetryAttempt
  <2>3. QED
    BY <1>10, <2>1, <2>2 DEF Handle
<1>11. QED
  BY <1>2, <1>4, <1>5, <1>6, <1>7, <1>8, <1>9, <1>10 DEF Next, NothingDue

\* Overlapping cron jobs never have the same callback in hand (JobsOwnCallbacks),
\* under every fault.
THEOREM JobsApart == Spec => []JobsOwnCallbacks
<1>1. Init => RetryInv /\ OwnInv
  BY DEF Init, RetryInv, NothingDangles, Exist, RetriesAreLeaves, OwnInv, JobsOwnCallbacks,
         ClaimedIsNotDue
<1>2. RetryInv => NothingDangles
  BY DEF RetryInv
<1>3. OwnInv => JobsOwnCallbacks
  BY DEF OwnInv
<1>4. QED
  BY <1>1, <1>2, <1>3, RetryStep, OwnStep, WorkCorrect, PTL DEF Spec
-----------------------------------------------------------------------------
(* One call per row. *)

\* No transaction raises, neither the record of a call that was placed ("save") nor
\* another ("db"): after one that does, the code may call a row that has had its
\* call, or give an attempt one retry too many.  Calls are refused, statuses come
\* early and jobs are cancelled all the same.
TransactionsHold == Faults \subseteq {"refuse", "early", "cancel"}

\* Whether a run has had a call at all.
Called(r) == call[r] # "none"

\* A row in a job's hands is in progress and has no call yet, but the one its
\* job has just placed for it and not linked.
ClaimedIsUncalled ==
  \A j \in Jobs : \A c \in todo[j] :
    /\ cb[c] = "in_progress"
    /\ \A r \in Runs : Called(r) /\ run[r] = c =>
         jpc[j] = "link" /\ curRun[j] = r /\ r \notin linked

\* No job puts rows back, and the run a job works on is that of its callback.
JobsFollowOneRun ==
  \A j \in Jobs :
    /\ jpc[j] # "release"
    /\ jpc[j] \in {"initiate", "link", "giveUp"} => run[curRun[j]] = cur[j]
    /\ jpc[j] \in {"initiate", "link"} => curRun[j] \notin linked
    /\ jpc[j] = "link" => Called(curRun[j])

\* A row gets one call in its life; it has left the schedule for good, and how
\* the call ended is known when it has.
OneCallPerRow ==
  /\ \A r \in Runs : Called(r) =>
       run[r] # None /\ cb[run[r]] \in {"in_progress", "completed", "failed"}
  /\ \A r, s \in Runs : Called(r) /\ Called(s) /\ run[r] = run[s] => r = s
  /\ \A r \in Runs : outcome[r] # "none" <=> call[r] = "ended"

\* A handler at work settles a linked call that has ended, by its outcome.
HandlersFollowCalls ==
  \A h \in Handlers : hpc[h] # "idle" =>
    \E r \in linked :
      /\ call[r] = "ended" /\ run[r] = hcb[h]
      /\ hpc[h] = outcome[r] \/ (hpc[h] = "settle" /\ outcome[r] = "failed")

CallInv == ClaimedIsUncalled /\ JobsFollowOneRun /\ OneCallPerRow /\ HandlersFollowCalls

\* Refusals by the provider are all that goes wrong.
OnlyRefusals == Faults \subseteq {"refuse"}

\* An ended call can be found by its callback, and one that was answered is on
\* its way to the row: as a status, in a handler's hands, or written.
AnswersArrive ==
  /\ \A r \in Runs : Called(r) => r \in linked \/ Unlinked(r)
  /\ \A r \in Runs : call[r] = "ended" => r \in linked
  /\ \A r \in Runs : outcome[r] = "completed" =>
       \/ due[r] > 0
       \/ \E h \in Handlers : hcb[h] = run[r] /\ hpc[h] = "completed"
       \/ cb[run[r]] = "completed"

\* A row in a job's hands is in no handler's.
LEMMA ClaimedIsUnhandled ==
  ASSUME WorkInv, CallInv, NEW j \in Jobs, NEW c \in todo[j], NEW h \in Handlers, hpc[h] # "idle"
  PROVE  hcb[h] # c
BY DEF WorkInv, TypeOK, CallInv, ClaimedIsUncalled, HandlersFollowCalls, Called

\* A claim finds rows without a call, a job places one call for each, and a
\* handler is at work only once the job has let go of the row.
LEMMA CallStep ==
  ASSUME TransactionsHold, WorkInv, RetryInv, OwnInv, CallInv, [Next]_vars
  PROVE  CallInv'
<1> USE DEF WorkInv, TypeOK, JobsKnowTheirWork, HandlersKnowTheirWork, CallInv
<1>1. "db" \notin Faults /\ "save" \notin Faults
  BY DEF TransactionsHold
<1>2. \A j \in Jobs, from \in JobSteps : ~Raise(j, from)
  BY <1>1 DEF Raise
<1> USE DEF rowVars, requestVars, runVars, callVars, jobVars, handlerVars, Goto, SetState, JobSteps
<1>3. CASE FindScheduled \/ UNCHANGED vars
  BY <1>3 DEF FindScheduled, vars, ClaimedIsUncalled, JobsFollowOneRun, OneCallPerRow,
         HandlersFollowCalls, Called
\* Steps that leave jobs, runs, calls and handlers alone.
<1>4. ASSUME UNCHANGED <<jobVars, runVars, call, outcome, handlerVars>>,
             \A c \in Callbacks : cb[c] \notin {"absent", "scheduled"} => cb'[c] = cb[c]
      PROVE  CallInv'
  BY <1>4 DEF ClaimedIsUncalled, JobsFollowOneRun, OneCallPerRow, HandlersFollowCalls, Called
<1>5. ASSUME NEW p, CreateCallback(p)
      PROVE  /\ \A c \in Callbacks : cb[c] # "absent" => cb'[c] = cb[c]
             /\ cb' \in [Callbacks -> RowStates]
  BY <1>5 DEF CreateCallback, NewCallback, RowStates
<1>6. CASE ScheduleCallback
  BY <1>4, <1>5, <1>6 DEF ScheduleCallback
<1>7. ASSUME NEW c \in Callbacks, BecomeDue(c) PROVE CallInv'
  BY <1>4, <1>7 DEF BecomeDue
<1>8. ASSUME NEW j \in Jobs, ClaimDueCallbacks(j) PROVE CallInv'
  <2>1. PICK S \in SUBSET Due : cb' = Claimed(S) /\ todo' = [todo EXCEPT ![j] = S]
    BY <1>8 DEF ClaimDueCallbacks
  <2>2. /\ jpc[j] = "idle" /\ jpc' = [jpc EXCEPT ![j] = "next"]
        /\ UNCHANGED <<cur, curRun, runVars, call, outcome, handlerVars>>
    BY <1>8 DEF ClaimDueCallbacks
  <2>3. \A c \in Callbacks : cb'[c] = IF c \in S THEN "in_progress" ELSE cb[c]
    BY <2>1 DEF Claimed
  <2>4. \A c \in S : c \in Callbacks /\ cb[c] = "scheduled"
    BY DEF Due, Scheduled
  <2>5. ClaimedIsUncalled'
    BY <2>1, <2>2, <2>3, <2>4 DEF ClaimedIsUncalled, OneCallPerRow, Called
  <2>6. JobsFollowOneRun'
    BY <2>2 DEF JobsFollowOneRun, Called
  <2>7. OneCallPerRow' /\ HandlersFollowCalls'
    BY <2>2, <2>3, <2>4 DEF OneCallPerRow, HandlersFollowCalls, Called
  <2>8. QED
    BY <2>5, <2>6, <2>7
<1>9. ASSUME NEW j \in Jobs, CancelJob(j) PROVE CallInv'
  BY <1>9 DEF CancelJob, ClaimedIsUncalled, JobsFollowOneRun, OneCallPerRow, HandlersFollowCalls,
         Called
<1>10. ASSUME NEW j \in Jobs, NEW from \in JobSteps \ {"idle", "next"}, Finish(j, from),
              UNCHANGED <<run, callVars, handlerVars>>,
              linked' \in {linked, linked \cup {curRun[j]}},
              \A c \in Callbacks : c # cur[j] => cb'[c] = cb[c],
              cb' \in [Callbacks -> RowStates],
              from = "link" => cb' = cb,
              from # "link" => UNCHANGED linked
       PROVE  CallInv'
  <2> USE DEF Finish
  <2>1. cur[j] \in todo[j] /\ cur[j] \in Callbacks
    BY <1>10
  <2>2. \A k \in Jobs : todo'[k] \subseteq todo[k] /\ cur[j] \notin todo'[k]
    BY <1>10, <2>1 DEF OwnInv, JobsOwnCallbacks
  <2>3. \A r \in Runs : Called(r) /\ run[r] = cur[j] => from = "link"
    BY <1>10, <2>1 DEF ClaimedIsUncalled
  <2>4. \A h \in Handlers : hpc[h] # "idle" => hcb[h] # cur[j]
    BY <2>1, ClaimedIsUnhandled
  <2>5. from = "link" => \A k \in Jobs \ {j} :
          jpc[k] \in {"initiate", "link"} => curRun[k] # curRun[j]
    BY <1>10, <2>1 DEF JobsFollowOneRun, OwnInv, JobsOwnCallbacks
  <2>6. ClaimedIsUncalled'
    BY <1>10, <2>1, <2>2, <2>5 DEF ClaimedIsUncalled, Called, JobsFollowOneRun
  <2>7. JobsFollowOneRun'
    BY <1>10, <2>1, <2>5 DEF JobsFollowOneRun, Called
  <2>8. OneCallPerRow'
    BY <1>10, <2>3 DEF OneCallPerRow, Called
  <2>9. HandlersFollowCalls'
    BY <1>10 DEF HandlersFollowCalls
  <2>10. QED
    BY <2>6, <2>7, <2>8, <2>9
<1>11. ASSUME NEW j \in Jobs, Work(j) PROVE CallInv'
  <2> USE DEF RowStates
  <2>1. CASE FetchCallback(j)
    BY <2>1 DEF FetchCallback, ClaimedIsUncalled, JobsFollowOneRun, OneCallPerRow,
           HandlersFollowCalls, Called
  <2>2. CASE Postpone(j)
    BY <1>1, <1>10, <2>2 DEF Postpone
  <2>3. CASE Reject(j)
    BY <1>2, <1>10, <2>3 DEF Reject
  <2>4. CASE CreateWorkflowRun(j)
    <3>1. PICK r \in Runs : NewRun(r) /\ run' = [run EXCEPT ![r] = cur[j]]
                             /\ jpc' = [jpc EXCEPT ![j] = "initiate"]
                             /\ curRun' = [curRun EXCEPT ![j] = r]
      BY <1>2, <2>4 DEF CreateWorkflowRun
    <3>2. /\ jpc[j] = "place" /\ cur[j] \in todo[j]
          /\ UNCHANGED <<rowVars, linked, callVars, handlerVars, todo, cur>>
      BY <1>2, <2>4 DEF CreateWorkflowRun
    <3>3. run[r] = None /\ ~Called(r) /\ r \notin linked
      BY <3>1 DEF NewRun, OneCallPerRow
    <3>4. \A s \in Runs : s # r => run'[s] = run[s]
      BY <3>1
    <3>5. ClaimedIsUncalled'
      BY <3>1, <3>2, <3>3, <3>4 DEF ClaimedIsUncalled, Called
    <3>6. JobsFollowOneRun'
      <4>1. \A k \in Jobs : k # j /\ jpc[k] \in {"initiate", "link", "giveUp"} =>
               curRun[k] \in Runs /\ curRun[k] # r
        BY <3>3
      <4>2. QED
        BY <3>1, <3>2, <3>3, <3>4, <4>1 DEF JobsFollowOneRun, Called
    <3>7. OneCallPerRow'
      BY <3>2, <3>3, <3>4 DEF OneCallPerRow, Called
    <3>8. HandlersFollowCalls'
      BY <3>2, <3>3, <3>4 DEF HandlersFollowCalls
    <3>9. QED
      BY <3>5, <3>6, <3>7, <3>8
  <2>5. CASE InitiateCall(j)
    <3>1. /\ jpc[j] = "initiate" /\ cur[j] \in todo[j] /\ cur[j] \in Callbacks
          /\ cb[cur[j]] = "in_progress"
          /\ curRun[j] \in Runs /\ run[curRun[j]] = cur[j] /\ curRun[j] \notin linked
          /\ UNCHANGED <<rowVars, runVars, outcome, handlerVars, todo, cur, curRun>>
      BY <2>5 DEF InitiateCall, JobsFollowOneRun, ClaimedIsUncalled
    <3>2. \A r \in Runs : Called(r) => run[r] # cur[j]
      BY <3>1 DEF ClaimedIsUncalled
    <3>3. CASE jpc' = [jpc EXCEPT ![j] = "link"] /\ call' = [call EXCEPT ![curRun[j]] = "live"]
      <4>1. ClaimedIsUncalled'
        BY <3>1, <3>2, <3>3 DEF ClaimedIsUncalled, Called, OwnInv, JobsOwnCallbacks
      <4>2. JobsFollowOneRun'
        BY <3>1, <3>3 DEF JobsFollowOneRun, Called
      <4>3. OneCallPerRow'
        BY <3>1, <3>2, <3>3 DEF OneCallPerRow, Called, Callbacks, None
      <4>4. HandlersFollowCalls'
        BY <3>1, <3>3 DEF HandlersFollowCalls
      <4>5. QED
        BY <4>1, <4>2, <4>3, <4>4
    <3>4. CASE jpc' = [jpc EXCEPT ![j] = "giveUp"] /\ UNCHANGED call
      BY <3>1, <3>2, <3>4 DEF ClaimedIsUncalled, JobsFollowOneRun, OneCallPerRow,
             HandlersFollowCalls, Called
    <3>5. QED
      BY <2>5, <3>3, <3>4 DEF InitiateCall
  <2>6. CASE LinkRun(j)
    BY <1>1, <1>10, <2>6 DEF LinkRun, WithCallback
  <2>7. CASE GiveUp(j)
    <3>1. /\ jpc[j] = "giveUp" /\ cur[j] \in todo[j]
          /\ curRun[j] \in Runs /\ run[curRun[j]] = cur[j]
          /\ jpc' = [jpc EXCEPT ![j] = "retry"] /\ linked' = linked \cup {curRun[j]}
          /\ UNCHANGED <<rowVars, run, call, outcome, handlerVars, todo, cur, curRun>>
      BY <1>2, <2>7 DEF GiveUp, WithCallback, JobsFollowOneRun
    <3>2. ~Called(curRun[j])
      BY <3>1 DEF ClaimedIsUncalled
    <3>3. \A k \in Jobs \ {j} : jpc[k] \in {"initiate", "link"} => curRun[k] # curRun[j]
      BY <3>1 DEF JobsFollowOneRun, OwnInv, JobsOwnCallbacks
    <3>4. ClaimedIsUncalled'
      BY <3>1, <3>2 DEF ClaimedIsUncalled, Called
    <3>5. JobsFollowOneRun'
      BY <3>1, <3>3 DEF JobsFollowOneRun, Called
    <3>6. OneCallPerRow' /\ HandlersFollowCalls'
      BY <3>1 DEF OneCallPerRow, HandlersFollowCalls, Called
    <3>7. QED
      BY <3>4, <3>5, <3>6
  <2>8. CASE RetryOfJob(j)
    <3>1. /\ jpc[j] = "retry" /\ jpc' = [jpc EXCEPT ![j] = "settle"]
          /\ UNCHANGED <<runVars, call, outcome, handlerVars, todo, cur, curRun>>
          /\ \A c \in Callbacks : cb[c] # "absent" => cb'[c] = cb[c]
      BY <1>2, <1>5, <2>8 DEF RetryOfJob
    <3>2. QED
      BY <3>1 DEF ClaimedIsUncalled, JobsFollowOneRun, OneCallPerRow, HandlersFollowCalls, Called
  <2>9. CASE SettleOfJob(j)
    BY <1>2, <1>10, <2>9 DEF SettleOfJob
  <2>10. ~ReleaseCallback(j)
    BY DEF ReleaseCallback, Finish, JobsFollowOneRun
  <2>11. QED
    BY <1>11, <2>1, <2>2, <2>3, <2>4, <2>5, <2>6, <2>7, <2>8, <2>9, <2>10 DEF Work
<1>12. ASSUME NEW r \in Runs, EndCall(r) PROVE CallInv'
  BY <1>12 DEF EndCall, ClaimedIsUncalled, JobsFollowOneRun, OneCallPerRow, HandlersFollowCalls,
         Called, Outcomes
<1>13. ASSUME NEW r \in Runs, NEW h \in Handlers, ReceiveStatus(h, r) PROVE CallInv'
  BY <1>13 DEF ReceiveStatus, ClaimedIsUncalled, JobsFollowOneRun, OneCallPerRow,
         HandlersFollowCalls, Called, Outcomes
<1>14. ASSUME NEW h \in Handlers, Handle(h) PROVE CallInv'
  <2>1. hcb[h] \in Callbacks /\ \A j \in Jobs : hcb[h] \notin todo[j]
    BY <1>14, ClaimedIsUnhandled DEF Handle, CloseAttempt, RetryAttempt
  <2>2. UNCHANGED <<runVars, call, outcome, jobVars>>
    BY <1>14 DEF Handle, CloseAttempt, RetryAttempt
  <2>3. CASE CloseAttempt(h)
    <3>1. /\ \A c \in Callbacks \ {hcb[h]} : cb'[c] = cb[c]
          /\ cb'[hcb[h]] \in {"completed", "failed"}
          /\ \A k \in Handlers \ {h} : hpc'[k] = hpc[k] /\ hcb'[k] = hcb[k]
          /\ hpc'[h] = "idle"
      BY <1>1, <2>1, <2>3 DEF CloseAttempt, OutcomeState, HandlerDone
    <3>2. QED
      BY <2>1, <2>2, <3>1 DEF ClaimedIsUncalled, JobsFollowOneRun, OneCallPerRow,
             HandlersFollowCalls, Called
  <2>4. CASE RetryAttempt(h)
    <3>1. /\ \A c \in Callbacks : cb[c] # "absent" => cb'[c] = cb[c]
          /\ hcb' = hcb /\ \A k \in Handlers \ {h} : hpc'[k] = hpc[k]
          /\ hpc[h] = "failed" /\ hpc'[h] = "settle"
      BY <1>1, <1>5, <2>4 DEF RetryAttempt
    <3>2. QED
      BY <2>2, <3>1 DEF ClaimedIsUncalled, JobsFollowOneRun, OneCallPerRow, HandlersFollowCalls,
             Called
  <2>5. QED
    BY <1>14, <2>3, <2>4 DEF Handle
<1>15. QED
  BY <1>3, <1>6, <1>7, <1>8, <1>9, <1>11, <1>12, <1>13, <1>14 DEF Next, NothingDue

\* The row of a called run, and that of a handler at work, have left the schedule.
LEMMA CalledIsOver ==
  ASSUME WorkInv, CallInv
  PROVE  /\ \A h \in Handlers : hpc[h] # "idle" =>
              cb[hcb[h]] \in {"in_progress", "completed", "failed"}
         /\ \A h \in Handlers, r \in Runs : hpc[h] # "idle" /\ Called(r) /\ run[r] = hcb[h] =>
              /\ call[r] = "ended"
              /\ hpc[h] = outcome[r] \/ (hpc[h] = "settle" /\ outcome[r] = "failed")
BY DEF WorkInv, TypeOK, CallInv, OneCallPerRow, HandlersFollowCalls, Called

\* With transactions that hold, a row gets one call, from its job.
LEMMA CallCorrect ==
  ASSUME TransactionsHold
  PROVE  Spec => [](WorkInv /\ RetryInv /\ OwnInv /\ CallInv)
<1>1. Init => RetryInv /\ OwnInv /\ CallInv
  BY DEF Init, RetryInv, NothingDangles, Exist, RetriesAreLeaves, OwnInv, JobsOwnCallbacks,
         ClaimedIsNotDue, CallInv, ClaimedIsUncalled, JobsFollowOneRun, OneCallPerRow,
         HandlersFollowCalls, Called
<1>2. RetryInv => NothingDangles
  BY DEF RetryInv
<1>3. WorkInv /\ RetryInv /\ OwnInv /\ CallInv /\ [Next]_vars => CallInv'
  BY CallStep
<1>4. QED
  BY <1>1, <1>2, <1>3, RetryStep, OwnStep, WorkCorrect, PTL DEF Spec

-----------------------------------------------------------------------------
(* One call per callback. *)

\* No transaction raises but the record of a call that was placed: what raises
\* elsewhere puts a row back that may have had its call.
NothingPutBack == "db" \notin Faults

\* A row in a job's hands was taken off the schedule and stays off it, and a call
\* it has had is the one this job has placed.
ClaimedHaveTheirJobsCall ==
  \A j \in Jobs :
    /\ jpc[j] # "release"
    /\ jpc[j] \in {"initiate", "link", "giveUp"} => run[curRun[j]] = cur[j]
    /\ \A c \in todo[j] : cb[c] # "scheduled"
    /\ \A r \in Runs : Called(r) /\ run[r] \in todo[j] =>
         cur[j] = run[r] /\ jpc[j] \in {"link", "giveUp", "retry", "settle"}

\* A row that had a call is never put back on the schedule, and a job that claims
\* a row places one call at most before it lets go of it.
LEMMA OneCallStep ==
  ASSUME NothingPutBack, WorkInv, NothingDangles, OwnInv, ClaimedHaveTheirJobsCall,
         OneCallPerRow, [Next]_vars
  PROVE  ClaimedHaveTheirJobsCall' /\ OneCallPerRow'
<1> DEFINE Inv == ClaimedHaveTheirJobsCall /\ OneCallPerRow
<1> SUFFICES Inv'
  OBVIOUS
<1> USE DEF WorkInv, TypeOK, JobsKnowTheirWork, HandlersKnowTheirWork
<1>1. "db" \notin Faults
  BY DEF NothingPutBack
<1>2. \A j \in Jobs, from \in JobSteps : ~Raise(j, from)
  BY <1>1 DEF Raise
<1> USE DEF rowVars, requestVars, runVars, callVars, jobVars, handlerVars, Goto, SetState, JobSteps
\* Steps that leave jobs and calls alone, and put no row that exists on the schedule.
<1>3. ASSUME UNCHANGED <<jobVars, run, call, outcome>>,
             \A c \in Callbacks :
               \/ cb'[c] = cb[c]
               \/ cb[c] = "absent"
               \/ cb'[c] \in {"completed", "failed"}
      PROVE  Inv'
  BY <1>3 DEF ClaimedHaveTheirJobsCall, OneCallPerRow, NothingDangles, Called
<1>4. ASSUME NEW p, CreateCallback(p)
      PROVE  \A c \in Callbacks : cb'[c] = cb[c] \/ cb[c] = "absent"
  BY <1>4 DEF CreateCallback, NewCallback
<1>5. CASE FindScheduled \/ ScheduleCallback \/ UNCHANGED vars
  <2>1. \A c \in Callbacks : cb'[c] = cb[c] \/ cb[c] = "absent"
    BY <1>4, <1>5 DEF FindScheduled, ScheduleCallback, vars
  <2>2. UNCHANGED <<jobVars, run, call, outcome>>
    BY <1>5 DEF FindScheduled, ScheduleCallback, vars
  <2>3. QED
    BY <1>3, <2>1, <2>2
<1>6. ASSUME NEW c \in Callbacks, BecomeDue(c) PROVE Inv'
  BY <1>3, <1>6 DEF BecomeDue
<1>7. ASSUME NEW j \in Jobs, ClaimDueCallbacks(j) PROVE Inv'
  <2>1. PICK S \in SUBSET Due : cb' = Claimed(S) /\ todo' = [todo EXCEPT ![j] = S]
    BY <1>7 DEF ClaimDueCallbacks
  <2>2. /\ jpc[j] = "idle" /\ jpc' = [jpc EXCEPT ![j] = "next"]
        /\ UNCHANGED <<cur, curRun, run, call, outcome>>
    BY <1>7 DEF ClaimDueCallbacks
  <2>3. \A c \in Callbacks : cb'[c] = IF c \in S THEN "in_progress" ELSE cb[c]
    BY <2>1 DEF Claimed
  <2>4. \A c \in S : c \in Callbacks /\ cb[c] = "scheduled"
    BY DEF Due, Scheduled
  <2>5. ClaimedHaveTheirJobsCall'
    BY <2>1, <2>2, <2>3, <2>4 DEF ClaimedHaveTheirJobsCall, OneCallPerRow, Called
  <2>6. OneCallPerRow'
    BY <2>2, <2>3, <2>4 DEF OneCallPerRow, Called
  <2>7. QED
    BY <2>5, <2>6
\* Steps that let go of a row at most, and write the row only as said.
<1>8. ASSUME NEW j \in Jobs, NEW from \in JobSteps \ {"idle", "next"}, Finish(j, from),
             UNCHANGED <<run, call, outcome>>,
             \A c \in Callbacks : c # cur[j] => cb'[c] = cb[c],
             from = "place" \/ cb' = cb \/ cb'[cur[j]] = "failed"
      PROVE  Inv'
  <2> USE DEF Finish
  <2>1. cur[j] \in todo[j] /\ cur[j] \in Callbacks /\ jpc[j] = from
    BY <1>8
  <2>2. \A k \in Jobs : todo'[k] \subseteq todo[k] /\ cur[j] \notin todo'[k]
    BY <1>8, <2>1 DEF OwnInv, JobsOwnCallbacks
  <2>3. \A r \in Runs : Called(r) /\ run[r] = cur[j] => from # "place"
    BY <2>1 DEF ClaimedHaveTheirJobsCall
  <2>4. ClaimedHaveTheirJobsCall'
    BY <1>8, <2>1, <2>2 DEF ClaimedHaveTheirJobsCall, Called
  <2>5. OneCallPerRow'
    BY <1>8, <2>1, <2>3 DEF OneCallPerRow, Called
  <2>6. QED
    BY <2>4, <2>5
<1>9. ASSUME NEW j \in Jobs, Work(j) PROVE Inv'
  <2>1. CASE FetchCallback(j)
    <3>1. /\ jpc[j] = "next" /\ jpc'[j] \in {"idle", "next", "place"}
          /\ todo'[j] \subseteq todo[j]
          /\ \A k \in Jobs \ {j} : jpc'[k] = jpc[k] /\ todo'[k] = todo[k] /\ cur'[k] = cur[k]
          /\ UNCHANGED <<cb, run, call, outcome, curRun>>
      BY <2>1 DEF FetchCallback
    <3>2. ClaimedHaveTheirJobsCall'
      BY <3>1 DEF ClaimedHaveTheirJobsCall, Called
    <3>3. OneCallPerRow'
      BY <3>1 DEF OneCallPerRow, Called
    <3>4. QED
      BY <3>2, <3>3
  <2>2. CASE Postpone(j)
    BY <1>1, <1>8, <2>2 DEF Postpone
  <2>3. CASE Reject(j)
    BY <1>2, <1>8, <2>3 DEF Reject
  <2>4. CASE CreateWorkflowRun(j)
    <3>1. PICK r \in Runs : /\ NewRun(r) /\ run' = [run EXCEPT ![r] = cur[j]]
                            /\ jpc[j] = "place" /\ jpc' = [jpc EXCEPT ![j] = "initiate"]
                            /\ curRun' = [curRun EXCEPT ![j] = r]
      BY <1>2, <2>4 DEF CreateWorkflowRun
    <3>2. UNCHANGED <<rowVars, callVars, todo, cur>>
      BY <1>2, <2>4 DEF CreateWorkflowRun
    <3>3. ~Called(r) /\ \A k \in Jobs :
            jpc[k] \in {"initiate", "link", "giveUp"} => curRun[k] # r
      BY <3>1 DEF NewRun, OneCallPerRow
    <3>4. QED
      BY <3>1, <3>2, <3>3 DEF ClaimedHaveTheirJobsCall, OneCallPerRow, Called
  <2>5. CASE InitiateCall(j)
    <3>1. /\ jpc[j] = "initiate" /\ cur[j] \in todo[j] /\ cur[j] \in Callbacks
          /\ curRun[j] \in Runs /\ run[curRun[j]] = cur[j]
          /\ UNCHANGED <<rowVars, runVars, outcome, todo, cur, curRun>>
      BY <2>5 DEF InitiateCall, ClaimedHaveTheirJobsCall
    <3>2. \A r \in Runs : Called(r) => run[r] # cur[j]
      BY <3>1 DEF ClaimedHaveTheirJobsCall
    <3>3. \A k \in Jobs \ {j} : cur[j] \notin todo[k]
      BY <3>1 DEF OwnInv, JobsOwnCallbacks
    <3>4. CASE jpc' = [jpc EXCEPT ![j] = "link"] /\ call' = [call EXCEPT ![curRun[j]] = "live"]
      <4>1. cur[j] # None /\ cb[cur[j]] \in {"in_progress", "completed", "failed"}
        BY <3>1 DEF ClaimedHaveTheirJobsCall, NothingDangles, RowStates, Callbacks, None
      <4>2. ClaimedHaveTheirJobsCall'
        BY <3>1, <3>3, <3>4 DEF ClaimedHaveTheirJobsCall, Called
      <4>3. OneCallPerRow'
        BY <3>1, <3>2, <3>4, <4>1 DEF OneCallPerRow, Called
      <4>4. QED
        BY <4>2, <4>3
    <3>5. CASE jpc' = [jpc EXCEPT ![j] = "giveUp"] /\ UNCHANGED call
      BY <3>1, <3>2, <3>5 DEF ClaimedHaveTheirJobsCall, OneCallPerRow, Called
    <3>6. QED
      BY <2>5, <3>4, <3>5 DEF InitiateCall
  <2>6. CASE LinkRun(j)
    <3>1. CASE Finish(j, "link")
      BY <1>8, <2>6, <3>1 DEF LinkRun
    <3>2. CASE Goto(j, "link", "giveUp") /\ UNCHANGED <<todo, cur, curRun>>
      BY <2>6, <3>2 DEF LinkRun, ClaimedHaveTheirJobsCall, OneCallPerRow, Called
    <3>3. QED
      BY <2>6, <3>1, <3>2 DEF LinkRun
  <2>7. CASE GiveUp(j)
    BY <1>2, <2>7 DEF GiveUp, ClaimedHaveTheirJobsCall, OneCallPerRow, Called
  <2>8. CASE RetryOfJob(j)
    <3>1. /\ jpc[j] = "retry" /\ jpc' = [jpc EXCEPT ![j] = "settle"]
          /\ UNCHANGED <<todo, cur, curRun, runVars, callVars>>
      BY <1>2, <2>8 DEF RetryOfJob
    <3>2. \A c \in Callbacks : cb'[c] = cb[c] \/ cb[c] = "absent"
      BY <1>4, <2>8 DEF RetryOfJob
    <3>3. QED
      BY <3>1, <3>2 DEF ClaimedHaveTheirJobsCall, OneCallPerRow, NothingDangles, Called
  <2>9. CASE SettleOfJob(j)
    BY <1>2, <1>8, <2>9 DEF SettleOfJob
  <2>10. ~ReleaseCallback(j)
    BY DEF ReleaseCallback, Finish, ClaimedHaveTheirJobsCall
  <2>11. QED
    BY <1>9, <2>1, <2>2, <2>3, <2>4, <2>5, <2>6, <2>7, <2>8, <2>9, <2>10 DEF Work
<1>10. ASSUME NEW j \in Jobs, CancelJob(j) PROVE Inv'
  BY <1>10 DEF CancelJob, ClaimedHaveTheirJobsCall, OneCallPerRow, Called
<1>11. ASSUME NEW r \in Runs, EndCall(r) PROVE Inv'
  <2>1. PICK o \in Outcomes : outcome' = [outcome EXCEPT ![r] = o]
    BY <1>11 DEF EndCall
  <2>2. /\ call[r] = "live" /\ call' = [call EXCEPT ![r] = "ended"]
        /\ UNCHANGED <<rowVars, runVars, jobVars>>
    BY <1>11 DEF EndCall
  <2>3. QED
    BY <2>1, <2>2 DEF ClaimedHaveTheirJobsCall, OneCallPerRow, Called, Outcomes
<1>12. ASSUME NEW r \in Runs, NEW h \in Handlers, ReceiveStatus(h, r) PROVE Inv'
  BY <1>3, <1>12 DEF ReceiveStatus
<1>13. ASSUME NEW h \in Handlers, Handle(h) PROVE Inv'
  <2>1. UNCHANGED <<jobVars, run, call, outcome>>
    BY <1>13 DEF Handle, CloseAttempt, RetryAttempt
  <2>2. CASE CloseAttempt(h)
    BY <1>1, <1>3, <2>1, <2>2 DEF CloseAttempt, OutcomeState
  <2>3. CASE RetryAttempt(h)
    BY <1>3, <1>4, <2>1, <2>3 DEF RetryAttempt
  <2>4. QED
    BY <1>13, <2>2, <2>3 DEF Handle
<1>14. QED
  BY <1>5, <1>6, <1>7, <1>9, <1>10, <1>11, <1>12, <1>13 DEF Next, NothingDue

\* A callback is called once in its life, by whichever job, and its run and row
\* are found by that call (OneCallPerRow): however many jobs overlap or are
\* cancelled, when a call was placed and could not be recorded, and however
\* often or early the end of the call is reported.
THEOREM OneCall ==
  ASSUME NothingPutBack
  PROVE  Spec => []OneCallPerRow
<1>1. Init => NothingDangles /\ OwnInv /\ ClaimedHaveTheirJobsCall /\ OneCallPerRow
  BY DEF Init, NothingDangles, Exist, OwnInv, JobsOwnCallbacks, ClaimedIsNotDue,
         ClaimedHaveTheirJobsCall, OneCallPerRow, Called
<1>2. Init => RetryInv
  BY <1>1 DEF Init, RetryInv, RetriesAreLeaves
<1>3. RetryInv => NothingDangles
  BY DEF RetryInv
<1>4. /\ WorkInv /\ NothingDangles /\ OwnInv /\ ClaimedHaveTheirJobsCall /\ OneCallPerRow
      /\ [Next]_vars
      => ClaimedHaveTheirJobsCall' /\ OneCallPerRow'
  BY OneCallStep
<1>5. QED
  BY <1>1, <1>2, <1>3, <1>4, RetryStep, OwnStep, WorkCorrect, PTL DEF Spec

-----------------------------------------------------------------------------
(* What is recorded. *)

\* A row that had a call is closed after the call has ended, and as it ended.
ClosedByItsCall ==
  \A r \in Runs : Called(r) /\ cb[run[r]] \in {"completed", "failed"} =>
    call[r] = "ended" /\ cb[run[r]] = OutcomeState(outcome[r])

\* A callback that is closed stays as it was closed.
Closed(c) == cb[c] \in {"completed", "failed"}
ClosedForGood == [][\A c \in Callbacks : Closed(c) => cb'[c] = cb[c]]_vars

\* Jobs write rows they have in hand, which are in progress; handlers write the
\* outcome of the one call there is.
LEMMA ClosedStep ==
  ASSUME TransactionsHold, WorkInv, RetryInv, CallInv, ClosedByItsCall, [Next]_vars
  PROVE  ClosedByItsCall' /\ \A c \in Callbacks : Closed(c) => cb'[c] = cb[c]
<1> DEFINE Stands == \A c \in Callbacks : Closed(c) => cb'[c] = cb[c]
<1> SUFFICES ClosedByItsCall' /\ Stands
  OBVIOUS
<1> USE DEF WorkInv, TypeOK, JobsKnowTheirWork, HandlersKnowTheirWork, Closed
<1>1. "db" \notin Faults /\ "save" \notin Faults
  BY DEF TransactionsHold
<1>2. \A j \in Jobs, from \in JobSteps : ~Raise(j, from)
  BY <1>1 DEF Raise
<1> USE DEF rowVars, requestVars, runVars, callVars, jobVars, handlerVars, Goto, SetState, JobSteps
\* A called run keeps its row.
<1>3. \A r \in Runs : Called(r) => run[r] \in Callbacks /\ run'[r] = run[r]
  BY StepEffects DEF Effects, CallInv, OneCallPerRow
\* Steps that leave calls alone, and write only rows in a job's hands or on the schedule.
<1>4. ASSUME UNCHANGED <<call, outcome>>,
             \A c \in Callbacks :
               \/ cb'[c] = cb[c]
               \/ cb[c] \in {"absent", "scheduled"}
               \/ \E j \in Jobs : c \in todo[j] /\ jpc[j] # "link"
       PROVE  ClosedByItsCall' /\ Stands
  BY <1>3, <1>4 DEF ClosedByItsCall, Called, CallInv, ClaimedIsUncalled, OneCallPerRow
<1>5. ASSUME NEW p, CreateCallback(p)
      PROVE  \A c \in Callbacks : cb'[c] = cb[c] \/ cb[c] = "absent"
  BY <1>5 DEF CreateCallback, NewCallback
<1>6. CASE FindScheduled \/ UNCHANGED vars
  BY <1>4, <1>6 DEF FindScheduled, vars
<1>7. CASE ScheduleCallback
  BY <1>4, <1>5, <1>7 DEF ScheduleCallback
<1>8. ASSUME NEW c \in Callbacks, BecomeDue(c) PROVE ClosedByItsCall' /\ Stands
  BY <1>4, <1>8 DEF BecomeDue
<1>9. ASSUME NEW j \in Jobs, ClaimDueCallbacks(j) PROVE ClosedByItsCall' /\ Stands
  BY <1>4, <1>9 DEF ClaimDueCallbacks, Claimed, Due, Scheduled
<1>10. ASSUME NEW j \in Jobs, Work(j) PROVE ClosedByItsCall' /\ Stands
  <2>1. CASE FetchCallback(j) \/ LinkRun(j) \/ GiveUp(j)
    BY <1>4, <2>1 DEF FetchCallback, LinkRun, GiveUp, Finish, Raise
  <2>2. CASE Postpone(j)
    BY <1>1, <1>4, <2>2 DEF Postpone, Finish
  <2>3. CASE Reject(j)
    BY <1>2, <1>4, <2>3 DEF Reject, Finish
  <2>4. CASE CreateWorkflowRun(j)
    BY <1>2, <1>4, <2>4 DEF CreateWorkflowRun
  <2>5. CASE InitiateCall(j)
    <3>1. /\ UNCHANGED <<cb, run, outcome>> /\ curRun[j] \in Runs
          /\ cb[run[curRun[j]]] = "in_progress"
          /\ \A r \in Runs \ {curRun[j]} : call'[r] = call[r]
      BY <2>5 DEF InitiateCall, CallInv, JobsFollowOneRun, ClaimedIsUncalled
    <3>2. QED
      BY <3>1 DEF ClosedByItsCall, Called
  <2>6. CASE RetryOfJob(j)
    BY <1>2, <1>4, <1>5, <2>6 DEF RetryOfJob
  <2>7. CASE SettleOfJob(j)
    BY <1>2, <1>4, <2>7 DEF SettleOfJob, Finish
  <2>8. ~ReleaseCallback(j)
    BY DEF ReleaseCallback, Finish, CallInv, JobsFollowOneRun
  <2>9. QED
    BY <1>10, <2>1, <2>2, <2>3, <2>4, <2>5, <2>6, <2>7, <2>8 DEF Work
<1>11. ASSUME NEW j \in Jobs, CancelJob(j) PROVE ClosedByItsCall' /\ Stands
  BY <1>4, <1>11 DEF CancelJob
<1>12. ASSUME NEW r \in Runs, EndCall(r) PROVE ClosedByItsCall' /\ Stands
  <2>1. /\ call[r] = "live" /\ UNCHANGED <<cb, run>>
        /\ \A s \in Runs \ {r} : call'[s] = call[s] /\ outcome'[s] = outcome[s]
    BY <1>12 DEF EndCall
  <2>2. QED
    BY <2>1 DEF ClosedByItsCall, Called
<1>13. ASSUME NEW r \in Runs, NEW h \in Handlers, ReceiveStatus(h, r)
       PROVE  ClosedByItsCall' /\ Stands
  BY <1>4, <1>13 DEF ReceiveStatus
<1>14. ASSUME NEW h \in Handlers, Handle(h) PROVE ClosedByItsCall' /\ Stands
  <2>1. CASE RetryAttempt(h)
    BY <1>4, <1>5, <2>1 DEF RetryAttempt
  <2>2. CASE CloseAttempt(h)
    <3>1. /\ hpc[h] # "idle" /\ UNCHANGED <<run, call, outcome>>
          /\ cb' = [cb EXCEPT ![hcb[h]] = OutcomeState(hpc[h])]
      BY <1>1, <2>2 DEF CloseAttempt
    <3>2. PICK r \in Runs : /\ call[r] = "ended" /\ run[r] = hcb[h]
                            /\ OutcomeState(hpc[h]) = OutcomeState(outcome[r])
      BY <3>1 DEF CallInv, HandlersFollowCalls, OutcomeState
    <3>3. \A s \in Runs : Called(s) /\ run[s] = hcb[h] => s = r
      BY <3>2 DEF CallInv, OneCallPerRow, Called
    <3>4. QED
      BY <1>3, <3>1, <3>2, <3>3 DEF ClosedByItsCall, Called
  <2>3. QED
    BY <1>14, <2>1, <2>2 DEF Handle
<1>15. QED
  BY <1>6, <1>7, <1>8, <1>9, <1>10, <1>11, <1>12, <1>13, <1>14 DEF Next, NothingDue

\* What a callback was closed with is what its call ended with, and no status that
\* is late or reported again, and no job that is behind, writes over it
\* (ClosedForGood).
THEOREM OutcomeStands ==
  ASSUME TransactionsHold
  PROVE  Spec => []ClosedByItsCall /\ ClosedForGood
<1>1. Init => ClosedByItsCall
  BY DEF Init, ClosedByItsCall, Called
<1>2. WorkInv /\ RetryInv /\ CallInv /\ ClosedByItsCall /\ [Next]_vars
        => ClosedByItsCall' /\ \A c \in Callbacks : Closed(c) => cb'[c] = cb[c]
  BY ClosedStep
<1>3. QED
  BY <1>1, <1>2, CallCorrect, PTL DEF Spec, ClosedForGood

-----------------------------------------------------------------------------
(* Which attempts get a retry. *)

\* The attempt has failed, for good: nobody is left who places or answers a call
\* of it.
HasFailed(p) ==
  /\ cb[p] \in {"in_progress", "failed"}
  /\ \A j \in Jobs : p \in todo[j] => cur[j] = p /\ jpc[j] = "settle"
  /\ \A r \in Runs : Called(r) /\ run[r] = p => outcome[r] = "failed"
OnlyFailedAreRetried == \A c \in Callbacks : parent[c] # None => HasFailed(parent[c])

\* A failed attempt stays one: its row is not claimed again, its call is over, and
\* jobs and handlers that still have it close it as failed.
LEMMA FailedStays ==
  ASSUME TransactionsHold, WorkInv, RetryInv, CallInv, NEW p \in Callbacks, HasFailed(p),
         [Next]_vars
  PROVE  HasFailed(p)'
<1> USE DEF WorkInv, TypeOK, JobsKnowTheirWork, HandlersKnowTheirWork, HasFailed
<1>1. "db" \notin Faults /\ "save" \notin Faults
  BY DEF TransactionsHold
<1>2. \A j \in Jobs, from \in JobSteps : ~Raise(j, from)
  BY <1>1 DEF Raise
<1> USE DEF rowVars, requestVars, runVars, callVars, jobVars, handlerVars, Goto, SetState, JobSteps
\* A called run keeps its row.
<1>3. \A r \in Runs : Called(r) => run'[r] = run[r]
  BY StepEffects DEF Effects, CallInv, OneCallPerRow
<1>4. ASSUME NEW q, CreateCallback(q) PROVE cb'[p] = cb[p]
  BY <1>4 DEF CreateCallback, NewCallback
<1>5. CASE FindScheduled \/ ScheduleCallback \/ UNCHANGED vars
  <2>1. cb'[p] = cb[p] /\ UNCHANGED <<runVars, callVars, jobVars>>
    BY <1>4, <1>5 DEF FindScheduled, ScheduleCallback, vars
  <2>2. QED
    BY <2>1 DEF Called
<1>6. ASSUME NEW c \in Callbacks, BecomeDue(c) PROVE HasFailed(p)'
  BY <1>6 DEF BecomeDue, Called
<1>7. ASSUME NEW j \in Jobs, ClaimDueCallbacks(j) PROVE HasFailed(p)'
  <2>1. PICK S \in SUBSET Due : cb' = Claimed(S) /\ todo' = [todo EXCEPT ![j] = S]
    BY <1>7 DEF ClaimDueCallbacks
  <2>2. p \notin S
    BY DEF Due, Scheduled
  <2>3. /\ jpc[j] = "idle" /\ jpc' = [jpc EXCEPT ![j] = "next"]
        /\ UNCHANGED <<cur, runVars, callVars>>
    BY <1>7 DEF ClaimDueCallbacks
  <2>4. QED
    BY <2>1, <2>2, <2>3 DEF Claimed, Called
<1>8. ASSUME NEW j \in Jobs, Work(j) PROVE HasFailed(p)'
  \* Only the step that closes it is left to a job that has the row.
  <2>1. jpc[j] \in JobSteps \ {"idle", "settle"} => p \notin todo[j]
    OBVIOUS
  <2>2. jpc[j] \in JobSteps \ {"idle", "next", "settle"} => cur[j] # p
    BY <2>1
  <2>3. CASE FetchCallback(j)
    BY <2>1, <2>3 DEF FetchCallback, Called
  <2>4. CASE Postpone(j)
    BY <1>1, <2>1, <2>2, <2>4 DEF Postpone, Finish, Called
  <2>5. CASE Reject(j)
    BY <1>2, <2>1, <2>2, <2>5 DEF Reject, Finish, Called
  <2>6. CASE CreateWorkflowRun(j)
    BY <1>2, <1>3, <2>1, <2>2, <2>6 DEF CreateWorkflowRun, NewRun, Called
  <2>7. CASE InitiateCall(j)
    <3>1. curRun[j] \in Runs /\ run[curRun[j]] = cur[j] /\ jpc[j] = "initiate"
      BY <2>7 DEF InitiateCall, CallInv, JobsFollowOneRun
    <3>2. QED
      BY <2>1, <2>2, <2>7, <3>1 DEF InitiateCall, Called
  <2>8. CASE LinkRun(j)
    BY <1>1, <2>1, <2>2, <2>8 DEF LinkRun, Finish, Called
  <2>9. CASE GiveUp(j)
    BY <1>2, <2>1, <2>9 DEF GiveUp, Called
  <2>10. CASE RetryOfJob(j)
    BY <1>2, <1>4, <2>1, <2>10 DEF RetryOfJob, Called
  <2>11. CASE SettleOfJob(j)
    BY <1>2, <2>11 DEF SettleOfJob, Finish, Called
  <2>12. ~ReleaseCallback(j)
    BY DEF ReleaseCallback, Finish, CallInv, JobsFollowOneRun
  <2>13. QED
    BY <1>8, <2>3, <2>4, <2>5, <2>6, <2>7, <2>8, <2>9, <2>10, <2>11, <2>12 DEF Work
<1>9. ASSUME NEW j \in Jobs, CancelJob(j) PROVE HasFailed(p)'
  BY <1>9 DEF CancelJob, Called
<1>10. ASSUME NEW r \in Runs, EndCall(r) PROVE HasFailed(p)'
  <2>1. /\ call[r] = "live" /\ UNCHANGED <<rowVars, runVars, jobVars>>
        /\ \A s \in Runs \ {r} : call'[s] = call[s] /\ outcome'[s] = outcome[s]
    BY <1>10 DEF EndCall
  <2>2. run[r] # p
    BY <2>1 DEF CallInv, OneCallPerRow, Called
  <2>3. QED
    BY <2>1, <2>2 DEF Called
<1>11. ASSUME NEW r \in Runs, NEW h \in Handlers, ReceiveStatus(h, r) PROVE HasFailed(p)'
  BY <1>11 DEF ReceiveStatus, Called
<1>12. ASSUME NEW h \in Handlers, Handle(h) PROVE HasFailed(p)'
  <2>1. UNCHANGED <<runVars, callVars, jobVars>>
    BY <1>12 DEF Handle, CloseAttempt, RetryAttempt
  <2>2. cb'[p] \in {"in_progress", "failed"}
    <3>1. CASE RetryAttempt(h)
      BY <1>4, <3>1 DEF RetryAttempt
    <3>2. CASE CloseAttempt(h) /\ hcb[h] # p
      BY <1>1, <3>2 DEF CloseAttempt
    <3>3. CASE CloseAttempt(h) /\ hcb[h] = p
      <4>1. hpc[h] # "idle" /\ cb' = [cb EXCEPT ![p] = OutcomeState(hpc[h])]
        BY <1>1, <3>3 DEF CloseAttempt
      <4>2. hpc[h] \in {"failed", "settle"}
        BY <3>3, <4>1 DEF CallInv, HandlersFollowCalls, Called
      <4>3. QED
        BY <4>1, <4>2 DEF OutcomeState
    <3>4. QED
      BY <1>12, <3>1, <3>2, <3>3 DEF Handle
  <2>3. QED
    BY <2>1, <2>2 DEF Called
<1>13. QED
  BY <1>5, <1>6, <1>7, <1>8, <1>9, <1>10, <1>11, <1>12 DEF Next, NothingDue

\* Whoever creates a retry has seen the attempt fail: the job whose call was
\* refused, before it closes the row, or the handler of a failed call.
LEMMA RetriedStep ==
  ASSUME TransactionsHold, WorkInv, RetryInv, OwnInv, CallInv, ClosedByItsCall,
         OnlyFailedAreRetried, [Next]_vars
  PROVE  OnlyFailedAreRetried'
<1> USE DEF WorkInv, TypeOK, JobsKnowTheirWork, HandlersKnowTheirWork
<1>1. "db" \notin Faults /\ "save" \notin Faults
  BY DEF TransactionsHold
<1>2. \A j \in Jobs, from \in JobSteps : ~Raise(j, from)
  BY <1>1 DEF Raise
<1> USE DEF rowVars, requestVars, runVars, callVars, jobVars, handlerVars, Goto, SetState, JobSteps
<1>3. ASSUME NEW p \in Callbacks \cup {None}, CreateCallback(p),
             p # None => \E q \in Callbacks : q = p /\ HasFailed(q)'
      PROVE  OnlyFailedAreRetried'
  <2>1. PICK d \in Callbacks : parent' = [parent EXCEPT ![d] = p]
    BY <1>3 DEF CreateCallback
  <2>2. \A q \in Callbacks : HasFailed(q) => HasFailed(q)'
    BY FailedStays
  <2>3. QED
    BY <1>3, <2>1, <2>2 DEF OnlyFailedAreRetried
<1>4. CASE UNCHANGED parent
  BY <1>4, FailedStays DEF OnlyFailedAreRetried
<1>5. CASE ScheduleCallback
  BY <1>3, <1>4, <1>5 DEF ScheduleCallback
<1>6. ASSUME NEW j \in Jobs, RetryOfJob(j), CreateCallback(cur[j]) PROVE OnlyFailedAreRetried'
  <2>1. /\ jpc[j] = "retry" /\ jpc' = [jpc EXCEPT ![j] = "settle"]
        /\ UNCHANGED <<runVars, callVars, todo, cur>>
    BY <1>2, <1>6 DEF RetryOfJob, CreateCallback
  <2>2. PICK p \in Callbacks : p = cur[j] /\ p \in todo[j]
    BY <2>1
  <2>3. cb[p] = "in_progress" /\ \A r \in Runs : Called(r) => run[r] # p
    BY <2>1, <2>2 DEF CallInv, ClaimedIsUncalled
  <2>4. \A k \in Jobs : p \in todo[k] => k = j
    BY <2>2 DEF OwnInv, JobsOwnCallbacks
  <2>5. cb'[p] = cb[p]
    BY <1>6, <2>3 DEF CreateCallback, NewCallback
  <2>6. HasFailed(p)'
    BY <2>1, <2>2, <2>3, <2>4, <2>5 DEF HasFailed, Called
  <2>7. QED
    BY <1>3, <1>6, <2>2, <2>6
<1>7. ASSUME NEW h \in Handlers, RetryAttempt(h) PROVE OnlyFailedAreRetried'
  <2>1. PICK p \in Callbacks : p = hcb[h]
    BY <1>7 DEF RetryAttempt
  <2>2. /\ hpc[h] = "failed" /\ CreateCallback(p)
        /\ UNCHANGED <<runVars, callVars, jobVars>>
    BY <1>7, <2>1 DEF RetryAttempt
  <2>3. PICK r \in Runs : call[r] = "ended" /\ run[r] = p /\ outcome[r] = "failed"
    BY <2>1, <2>2 DEF CallInv, HandlersFollowCalls
  <2>4. \A s \in Runs : Called(s) /\ run[s] = p => s = r
    BY <2>3 DEF CallInv, OneCallPerRow, Called
  <2>5. cb[p] \in {"in_progress", "failed"}
    BY <2>3 DEF CallInv, OneCallPerRow, ClosedByItsCall, OutcomeState, Called
  <2>6. \A j \in Jobs : p \notin todo[j]
    BY <2>1, <2>2, ClaimedIsUnhandled
  <2>7. cb'[p] = cb[p]
    BY <2>2, <2>5 DEF CreateCallback, NewCallback
  <2>8. HasFailed(p)'
    BY <2>2, <2>3, <2>4, <2>5, <2>6, <2>7 DEF HasFailed, Called
  <2>9. QED
    BY <1>3, <2>2, <2>8
<1>8. \/ UNCHANGED parent
      \/ ScheduleCallback
      \/ \E j \in Jobs : RetryOfJob(j) /\ CreateCallback(cur[j])
      \/ \E h \in Handlers : RetryAttempt(h)
  <2>1. ASSUME NEW j \in Jobs, Work(j)
        PROVE  UNCHANGED parent \/ (RetryOfJob(j) /\ CreateCallback(cur[j]))
    BY <2>1 DEF Work, FetchCallback, Postpone, Reject, CreateWorkflowRun, InitiateCall, LinkRun,
           GiveUp, RetryOfJob, SettleOfJob, ReleaseCallback
  <2>2. QED
    BY <2>1 DEF Next, vars, FindScheduled, BecomeDue, ClaimDueCallbacks, NothingDue, CancelJob,
           EndCall, ReceiveStatus, Handle, CloseAttempt
<1>9. QED
  BY <1>4, <1>5, <1>6, <1>7, <1>8

\* Nobody who was reached is called again: whoever creates retries, and however
\* often and late the ends of calls are reported, the attempt that has one failed
\* and is never recorded as anything else (OnlyFailedAreRetried).
THEOREM RetryFollowsFailure ==
  ASSUME TransactionsHold
  PROVE  Spec => []OnlyFailedAreRetried
<1>1. Init => ClosedByItsCall /\ OnlyFailedAreRetried
  BY DEF Init, ClosedByItsCall, Called, OnlyFailedAreRetried
<1>2. WorkInv /\ RetryInv /\ CallInv /\ ClosedByItsCall /\ [Next]_vars => ClosedByItsCall'
  BY ClosedStep
<1>3. WorkInv /\ RetryInv /\ OwnInv /\ CallInv /\ ClosedByItsCall /\ OnlyFailedAreRetried
        /\ [Next]_vars => OnlyFailedAreRetried'
  BY RetriedStep
<1>4. QED
  BY <1>1, <1>2, <1>3, CallCorrect, PTL DEF Spec

-----------------------------------------------------------------------------
(* How many retries an attempt gets. *)

\* The handlers that are about to create a retry of the attempt.
Working(p) == {h \in Handlers : hcb[h] = p /\ hpc[h] = "failed"}

\* A retry answers a report of the attempt's call: those created, those about to
\* be and the reports still to come are together no more than the reports there
\* are.  Only an attempt that was never called has a retry of its job, and one.
Counted(p) ==
  /\ IsFiniteSet(Working(p))
  /\ Cardinality(RetriesOf(p)) =< 1 \/ \E r \in Runs : Called(r) /\ run[r] = p
  /\ \A r \in Runs : Called(r) /\ run[r] = p =>
       Cardinality(RetriesOf(p)) + Cardinality(Working(p)) + due[r] =< MaxDeliveries

RowsCounted == \A p \in Callbacks : Counted(p)

LEMMA FiniteRows == \A S \in SUBSET Callbacks : IsFiniteSet(S) /\ Cardinality(S) \in Nat
<1>1. IsFiniteSet(Callbacks)
  BY BoundAssumption, FS_Interval DEF Callbacks
<1>2. QED
  BY <1>1, FS_Subset, FS_CardinalityType

\* An attempt that gets no retry, no handler, no call and no report.
LEMMA CountedStays ==
  ASSUME WorkInv, WorkInv', NEW p \in Callbacks, Counted(p),
         RetriesOf(p)' \subseteq RetriesOf(p), Working(p)' \subseteq Working(p),
         \A r \in Runs : (Called(r) /\ run[r] = p) <=> (Called(r) /\ run[r] = p)',
         \A r \in Runs : due'[r] =< due[r]
  PROVE  Counted(p)'
<1>1. /\ IsFiniteSet(RetriesOf(p)) /\ Cardinality(RetriesOf(p)) \in Nat
      /\ Cardinality(RetriesOf(p)') \in Nat /\ Cardinality(RetriesOf(p)') =< Cardinality(RetriesOf(p))
  BY FiniteRows, FS_Subset DEF RetriesOf
<1>2. /\ IsFiniteSet(Working(p)') /\ Cardinality(Working(p)) \in Nat
      /\ Cardinality(Working(p)') \in Nat /\ Cardinality(Working(p)') =< Cardinality(Working(p))
  BY FS_Subset, FS_CardinalityType DEF Counted
<1>3. \A r \in Runs : due[r] \in Nat /\ due'[r] \in Nat
  BY BoundAssumption DEF WorkInv, TypeOK
<1>4. MaxDeliveries \in Nat
  BY BoundAssumption
<1>5. IsFiniteSet(Working(p))'
  BY <1>2
<1>6. (Cardinality(RetriesOf(p)) =< 1 \/ \E r \in Runs : Called(r) /\ run[r] = p)'
  BY <1>1 DEF Counted
<1>7. (\A r \in Runs : Called(r) /\ run[r] = p =>
         Cardinality(RetriesOf(p)) + Cardinality(Working(p)) + due[r] =< MaxDeliveries)'
  BY <1>1, <1>2, <1>3, <1>4 DEF Counted
<1>8. QED
  BY <1>5, <1>6, <1>7 DEF Counted

\* A retry that is created belongs to an attempt of nobody else's.
LEMMA CountedNew ==
  ASSUME WorkInv, RetryInv, NEW p, CreateCallback(p), NEW q \in Callbacks
  PROVE  IF p = q THEN Cardinality(RetriesOf(q)') = Cardinality(RetriesOf(q)) + 1
                  ELSE RetriesOf(q)' = RetriesOf(q)
<1> USE DEF WorkInv, TypeOK
<1>1. PICK c \in Callbacks : cb[c] = "absent" /\ parent' = [parent EXCEPT ![c] = p]
  BY DEF CreateCallback, NewCallback
<1>2. parent[c] = None /\ None \notin Callbacks
  BY <1>1 DEF RetryInv, NothingDangles, None, Callbacks
<1>3. RetriesOf(q)' = IF p = q THEN RetriesOf(q) \cup {c} ELSE RetriesOf(q)
  BY <1>1, <1>2 DEF RetriesOf
<1>4. c \notin RetriesOf(q) /\ IsFiniteSet(RetriesOf(q))
  BY <1>2, FiniteRows DEF RetriesOf
<1>5. QED
  BY <1>3, <1>4, FS_AddElement

\* Whoever creates a retry uses up a report, or is the job of an attempt that was
\* never called and has none.
LEMMA CountedStep ==
  ASSUME TransactionsHold, WorkInv, WorkInv', RetryInv, OwnInv, CallInv, OnlyFailedAreRetried,
         RowsCounted, [Next]_vars
  PROVE  RowsCounted'
<1> USE DEF WorkInv, TypeOK, JobsKnowTheirWork, HandlersKnowTheirWork
<1>1. "db" \notin Faults /\ "save" \notin Faults
  BY DEF TransactionsHold
<1>2. \A j \in Jobs, from \in JobSteps : ~Raise(j, from)
  BY <1>1 DEF Raise
<1> SUFFICES ASSUME NEW p \in Callbacks PROVE Counted(p)'
  BY DEF RowsCounted
<1>3. Counted(p) /\ None \notin Callbacks
  BY DEF RowsCounted, None, Callbacks
<1> USE DEF rowVars, requestVars, runVars, callVars, jobVars, handlerVars, Goto, SetState, JobSteps
<1>4. RetriesOf(p) # {} => HasFailed(p)
  BY <1>3 DEF RetriesOf, OnlyFailedAreRetried
\* Steps that leave calls and handlers alone, and give nobody a retry.
<1>5. ASSUME UNCHANGED <<callVars, handlerVars>>, RetriesOf(p)' = RetriesOf(p) PROVE Counted(p)'
  <2>1. \A r \in Runs : Called(r) => run'[r] = run[r]
    BY StepEffects DEF Effects, CallInv, OneCallPerRow
  <2>2. \A r \in Runs : (Called(r) /\ run[r] = p) <=> (Called(r) /\ run[r] = p)'
    BY <1>5, <2>1 DEF Called
  <2>3. Working(p)' \subseteq Working(p) /\ \A r \in Runs : due'[r] =< due[r]
    BY <1>5 DEF Working
  <2>4. QED
    BY <1>3, <1>5, <2>2, <2>3, CountedStays
<1>6. UNCHANGED parent => RetriesOf(p)' = RetriesOf(p)
  BY DEF RetriesOf
<1>7. CASE ScheduleCallback
  BY <1>3, <1>5, <1>6, <1>7, CountedNew DEF ScheduleCallback
<1>8. ASSUME \/ FindScheduled \/ UNCHANGED vars \/ \E c \in Callbacks : BecomeDue(c)
             \/ \E j \in Jobs : ClaimDueCallbacks(j) \/ CancelJob(j)
      PROVE  Counted(p)'
  BY <1>5, <1>6, <1>8 DEF FindScheduled, vars, BecomeDue, ClaimDueCallbacks, CancelJob
<1>9. ASSUME NEW j \in Jobs, InitiateCall(j) PROVE Counted(p)'
  <2>1. CASE UNCHANGED call
    BY <1>5, <1>6, <1>9, <2>1 DEF InitiateCall
  <2>2. CASE call' # call
    <3>1. /\ jpc[j] = "initiate" /\ cur[j] \in todo[j] /\ curRun[j] \in Runs
          /\ run[curRun[j]] = cur[j] /\ call' = [call EXCEPT ![curRun[j]] = "live"]
          /\ UNCHANGED <<parent, run, due, handlerVars>>
      BY <1>9, <2>2 DEF InitiateCall, CallInv, JobsFollowOneRun
    <3>2. CASE p # cur[j]
      BY <1>3, <1>6, <3>1, <3>2, CountedStays DEF Called, Working
    <3>3. CASE p = cur[j]
      <4>1. RetriesOf(p) = {} /\ RetriesOf(p)' = {}
        BY <1>4, <1>6, <3>1, <3>3 DEF HasFailed
      <4>2. Working(p) = {} /\ Working(p)' = {}
        BY <3>1, <3>3, ClaimedIsUnhandled DEF Working
      <4>3. \A r \in Runs : (Called(r) /\ run[r] = p)' => r = curRun[j]
        BY <3>1, <3>3 DEF CallInv, ClaimedIsUncalled, Called
      <4>4. ~Called(curRun[j]) /\ outcome[curRun[j]] = "none"
        BY <3>1 DEF CallInv, ClaimedIsUncalled, OneCallPerRow, Called, Outcomes
      <4>5. due'[curRun[j]] = 0
        BY <3>1, <4>4, BoundAssumption
      <4>6. Cardinality(RetriesOf(p)') = 0 /\ Cardinality(Working(p)') = 0
            /\ IsFiniteSet(Working(p)')
        BY <4>1, <4>2, FS_EmptySet
      <4>7. QED
        BY <4>3, <4>5, <4>6, BoundAssumption DEF Counted
    <3>4. QED
      BY <3>2, <3>3
  <2>3. QED
    BY <2>1, <2>2
<1>10. ASSUME NEW j \in Jobs, RetryOfJob(j), CreateCallback(cur[j]) PROVE Counted(p)'
  <2>1. /\ jpc[j] = "retry" /\ cur[j] \in todo[j]
        /\ UNCHANGED <<runVars, callVars, handlerVars>>
    BY <1>2, <1>10 DEF RetryOfJob
  <2>2. CASE p # cur[j]
    BY <1>5, <1>10, <2>1, <2>2, CountedNew
  <2>3. CASE p = cur[j]
    <3>1. RetriesOf(p) = {}
      BY <1>4, <2>1, <2>3 DEF HasFailed
    <3>2. Cardinality(RetriesOf(p)') = 1
      <4>1. Cardinality(RetriesOf(p)') = Cardinality(RetriesOf(p)) + 1
        BY <1>10, <2>3, CountedNew
      <4>2. Cardinality(RetriesOf(p)) = 0
        BY <3>1, FS_EmptySet
      <4>3. QED
        BY <4>1, <4>2
    <3>3. \A r \in Runs : ~(Called(r) /\ run[r] = p)'
      BY <2>1, <2>3 DEF CallInv, ClaimedIsUncalled, Called
    <3>4. Working(p)' = Working(p)
      BY <2>1 DEF Working
    <3>5. QED
      BY <1>3, <3>2, <3>3, <3>4 DEF Counted
  <2>4. QED
    BY <2>2, <2>3
<1>11. ASSUME NEW j \in Jobs, Work(j), ~InitiateCall(j), ~(RetryOfJob(j) /\ CreateCallback(cur[j]))
       PROVE  Counted(p)'
  <2>1. UNCHANGED <<parent, callVars, handlerVars>>
    BY <1>11 DEF Work, FetchCallback, Postpone, Reject, CreateWorkflowRun, LinkRun, GiveUp,
           RetryOfJob, SettleOfJob, ReleaseCallback
  <2>2. QED
    BY <1>5, <1>6, <2>1
<1>12. ASSUME NEW r \in Runs, EndCall(r) PROVE Counted(p)'
  <2>1. PICK k \in 1 .. MaxDeliveries : due' = [due EXCEPT ![r] = k]
    BY <1>12 DEF EndCall
  <2>2. /\ call[r] = "live" /\ call' = [call EXCEPT ![r] = "ended"] /\ outcome[r] = "none"
        /\ UNCHANGED <<parent, run, handlerVars>>
    BY <1>12 DEF EndCall, CallInv, OneCallPerRow, Outcomes
  <2>3. \A s \in Runs : Called(s)' = Called(s)
    BY <2>2 DEF Called
  <2>4. CASE run[r] # p
    <3>1. \A s \in Runs : Called(s) /\ run[s] = p => due'[s] = due[s]
      BY <2>1, <2>4
    <3>2. RetriesOf(p)' = RetriesOf(p) /\ Working(p)' = Working(p)
      BY <2>2 DEF RetriesOf, Working
    <3>3. QED
      BY <1>3, <2>2, <2>3, <3>1, <3>2 DEF Counted
  <2>5. CASE run[r] = p
    <3>1. RetriesOf(p) = {} /\ RetriesOf(p)' = {}
      BY <1>4, <1>6, <2>2, <2>5 DEF HasFailed, Called
    <3>2. Working(p) = {} /\ Working(p)' = {}
      BY <2>2, <2>5, CalledIsOver DEF Working, Called
    <3>3. Cardinality(RetriesOf(p)') = 0 /\ Cardinality(Working(p)') = 0
          /\ IsFiniteSet(Working(p)')
      BY <3>1, <3>2, FS_EmptySet
    <3>4. \A s \in Runs : (Called(s) /\ run[s] = p)' => due'[s] =< MaxDeliveries /\ due'[s] \in Nat
      BY BoundAssumption
    <3>5. QED
      BY <3>3, <3>4, BoundAssumption DEF Counted
  <2>6. QED
    BY <2>4, <2>5
<1>13. ASSUME NEW r \in Runs, NEW h \in Handlers, ReceiveStatus(h, r) PROVE Counted(p)'
  <2>1. /\ due[r] > 0 /\ due' = [due EXCEPT ![r] = @ - 1]
        /\ UNCHANGED <<parent, run, call, outcome>>
        /\ \A k \in Handlers : k # h => hpc'[k] = hpc[k] /\ hcb'[k] = hcb[k]
    BY <1>13 DEF ReceiveStatus
  <2>2. Called(r) /\ \A s \in Runs : due[s] \in Nat /\ due'[s] \in Nat /\ due'[s] =< due[s]
    BY <2>1, BoundAssumption DEF CallInv, OneCallPerRow, Called
  <2>3. RetriesOf(p)' = RetriesOf(p) /\ \A s \in Runs : Called(s)' = Called(s)
    BY <1>6, <2>1 DEF Called
  <2>4. CASE Working(p)' \subseteq Working(p)
    BY <1>3, <2>1, <2>2, <2>3, <2>4, CountedStays
  <2>5. CASE ~(Working(p)' \subseteq Working(p))
    <3>1. run[r] = p /\ Working(p)' = Working(p) \cup {h}
      BY <1>13, <2>1, <2>5 DEF Working, ReceiveStatus
    <3>2. \A s \in Runs : Called(s) /\ run[s] = p => s = r
      BY <2>2, <3>1 DEF CallInv, OneCallPerRow
    <3>3. /\ IsFiniteSet(Working(p)') /\ Cardinality(Working(p)) \in Nat
          /\ Cardinality(Working(p)') \in Nat
          /\ Cardinality(Working(p)') =< Cardinality(Working(p)) + 1
      <4>1. IsFiniteSet(Working(p)) /\ Cardinality(Working(p)) \in Nat
        BY <1>3, FS_CardinalityType DEF Counted
      <4>2. /\ IsFiniteSet(Working(p) \cup {h})
            /\ Cardinality(Working(p) \cup {h}) \in
                 {Cardinality(Working(p)), Cardinality(Working(p)) + 1}
        BY <4>1, FS_AddElement
      <4>3. QED
        BY <3>1, <4>1, <4>2
    <3>4. Cardinality(RetriesOf(p)) + Cardinality(Working(p)) + due[r] =< MaxDeliveries
          /\ Cardinality(RetriesOf(p)) \in Nat /\ due'[r] = due[r] - 1 /\ MaxDeliveries \in Nat
      BY <1>3, <2>1, <2>2, <3>1, FiniteRows, BoundAssumption DEF Counted, RetriesOf
    <3>5. Cardinality(RetriesOf(p)') + Cardinality(Working(p)') + due'[r] =< MaxDeliveries
      BY <2>2, <2>3, <3>3, <3>4
    <3>6. QED
      BY <1>3, <2>1, <2>2, <2>3, <3>1, <3>2, <3>3, <3>5 DEF Counted
  <2>6. QED
    BY <2>4, <2>5
<1>14. ASSUME NEW h \in Handlers, Handle(h) PROVE Counted(p)'
  <2>1. UNCHANGED <<runVars, callVars>> /\ \A s \in Runs : Called(s)' = Called(s)
    BY <1>14 DEF Handle, CloseAttempt, RetryAttempt, Called
  <2>2. \A r \in Runs : due'[r] =< due[r]
    BY <2>1, BoundAssumption
  <2>3. CASE CloseAttempt(h)
    <3>1. Working(p)' \subseteq Working(p) /\ UNCHANGED parent
      BY <2>3 DEF CloseAttempt, HandlerDone, Working
    <3>2. QED
      BY <1>3, <1>6, <2>1, <2>2, <3>1, CountedStays
  <2>4. CASE RetryAttempt(h)
    <3>1. /\ hpc[h] = "failed" /\ CreateCallback(hcb[h]) /\ UNCHANGED hcb
          /\ hpc' = [hpc EXCEPT ![h] = "settle"]
      BY <1>1, <2>4 DEF RetryAttempt
    <3>2. Working(p)' = Working(p) \ {h}
      BY <3>1 DEF Working
    <3>3. CASE hcb[h] # p
      <4>1. RetriesOf(p)' = RetriesOf(p)
        BY <3>1, <3>3, CountedNew
      <4>2. Working(p)' \subseteq Working(p)
        BY <3>2
      <4>3. QED
        BY <1>3, <2>1, <2>2, <4>1, <4>2, CountedStays
    <3>4. CASE hcb[h] = p
      <4>1. Cardinality(RetriesOf(p)') = Cardinality(RetriesOf(p)) + 1
            /\ Cardinality(RetriesOf(p)) \in Nat
        BY <3>1, <3>4, CountedNew, FiniteRows DEF RetriesOf
      <4>2. h \in Working(p)
        BY <3>1, <3>4 DEF Working
      <4>3. /\ IsFiniteSet(Working(p)') /\ Cardinality(Working(p)) \in Nat
            /\ Cardinality(Working(p)') = Cardinality(Working(p)) - 1
        BY <1>3, <3>2, <4>2, FS_RemoveElement, FS_CardinalityType DEF Counted
      <4>4. \E r \in Runs : Called(r) /\ run[r] = p
        BY <3>1, <3>4 DEF CallInv, HandlersFollowCalls, Called
      <4>5. \A r \in Runs : due[r] \in Nat
        BY BoundAssumption
      <4>6. Cardinality(RetriesOf(p)') + Cardinality(Working(p)')
              = Cardinality(RetriesOf(p)) + Cardinality(Working(p))
        BY <4>1, <4>3
      <4>7. QED
        BY <1>3, <2>1, <4>3, <4>4, <4>6 DEF Counted
    <3>5. QED
      BY <3>3, <3>4
  <2>5. QED
    BY <1>14, <2>3, <2>4 DEF Handle
<1>15. QED
  BY <1>7, <1>8, <1>9, <1>10, <1>11, <1>12, <1>13, <1>14 DEF Next, NothingDue

\* What the count rests on.
LEMMA CountedCorrect ==
  ASSUME TransactionsHold
  PROVE  Spec => []RowsCounted
<1>1. Init => RowsCounted
  <2> SUFFICES ASSUME Init, NEW p \in Callbacks PROVE Counted(p)
    BY DEF RowsCounted
  <2>1. Working(p) = {} /\ RetriesOf(p) = {} /\ \A r \in Runs : ~Called(r)
    BY DEF Init, Working, RetriesOf, Called, None, Callbacks
  <2>2. QED
    BY <2>1, FS_EmptySet DEF Counted
<1>2. WorkInv /\ WorkInv' /\ RetryInv /\ OwnInv /\ CallInv /\ OnlyFailedAreRetried /\ RowsCounted
        /\ [Next]_vars => RowsCounted'
  BY CountedStep
<1>3. QED
  BY <1>1, <1>2, WorkStep, CallCorrect, RetryFollowsFailure, PTL DEF Spec

\* There are no more retries of an attempt than reports of one call
\* (RetriesAreReported), however often a provider reports it: jobs whose calls were
\* refused and the handlers of early, late and repeated statuses all create
\* retries without asking for one that exists, and jobs may be cancelled anywhere.
THEOREM RetriesCounted ==
  ASSUME TransactionsHold
  PROVE  Spec => []RetriesAreReported
<1>1. WorkInv /\ RowsCounted => RetriesAreReported
  <2> SUFFICES ASSUME WorkInv, RowsCounted, NEW p \in Callbacks
               PROVE  Cardinality(RetriesOf(p)) =< MaxDeliveries
    BY DEF RetriesAreReported
  <2>1. Cardinality(RetriesOf(p)) \in Nat
    BY FiniteRows DEF RetriesOf
  <2>2. Cardinality(Working(p)) \in Nat
    BY FS_CardinalityType DEF RowsCounted, Counted
  <2>3. \A r \in Runs : due[r] \in Nat
    BY BoundAssumption DEF WorkInv, TypeOK
  <2>4. QED
    BY <2>1, <2>2, <2>3, BoundAssumption DEF RowsCounted, Counted
<1>2. QED
  BY <1>1, CallCorrect, CountedCorrect, PTL

-----------------------------------------------------------------------------
(* Where an answer is. *)

\* From the end of a call to the row, an answer passes from the status to a
\* handler and from the handler to the row, and nobody overwrites it there.
LEMMA AnswersStep ==
  ASSUME OnlyRefusals, WorkInv, RetryInv, OwnInv, CallInv, AnswersArrive, [Next]_vars
  PROVE  AnswersArrive'
<1> USE DEF WorkInv, TypeOK, JobsKnowTheirWork, HandlersKnowTheirWork
<1>1. "db" \notin Faults /\ "save" \notin Faults /\ "early" \notin Faults /\ "cancel" \notin Faults
  BY DEF OnlyRefusals
<1>2. \A j \in Jobs, from \in JobSteps : ~Raise(j, from)
  BY <1>1 DEF Raise
<1> USE DEF rowVars, requestVars, runVars, callVars, jobVars, handlerVars, Goto, SetState, JobSteps
<1>3. \A r \in Runs : outcome[r] # "none" => call[r] = "ended" /\ Called(r)
  BY DEF CallInv, OneCallPerRow, Called
<1>4. ASSUME UNCHANGED <<runVars, callVars, jobVars, handlerVars>>,
             \A c \in Callbacks : cb[c] \notin {"absent", "scheduled"} => cb'[c] = cb[c]
      PROVE  AnswersArrive'
  BY <1>3, <1>4 DEF AnswersArrive, Called, Unlinked
<1>5. ASSUME NEW p, CreateCallback(p)
      PROVE  \A c \in Callbacks : cb[c] # "absent" => cb'[c] = cb[c]
  BY <1>5 DEF CreateCallback, NewCallback
<1>6. CASE FindScheduled \/ UNCHANGED vars
  BY <1>4, <1>6 DEF FindScheduled, vars
<1>7. CASE ScheduleCallback
  BY <1>4, <1>5, <1>7 DEF ScheduleCallback
<1>8. ASSUME NEW c \in Callbacks, BecomeDue(c) PROVE AnswersArrive'
  BY <1>4, <1>8 DEF BecomeDue
\* A job's step changes the rows it has in hand only, and those have no outcome
\* yet; it leaves no call before it has linked it.
<1>9. ASSUME NEW j \in Jobs, UNCHANGED <<outcome, due, handlerVars>>,
             \A r \in Runs : run[r] # None => run'[r] = run[r],
             \A c \in Callbacks :
               (\A k \in Jobs : c \notin todo[k]) /\ cb[c] = "completed" => cb'[c] = cb[c],
             \A r \in Runs : call'[r] = call[r] \/ (curRun[j] = r /\ jpc'[j] = "link"),
             \A r \in Runs : call'[r] = "ended" => call[r] = "ended",
             \A k \in Jobs \ {j} : jpc'[k] = jpc[k] /\ curRun'[k] = curRun[k],
             linked \subseteq linked',
             jpc[j] \in {"link", "giveUp"} =>
               curRun[j] \in linked' \/ (jpc'[j] \in {"link", "giveUp"} /\ curRun'[j] = curRun[j]),
             jpc'[j] = "link" => curRun'[j] = curRun[j]
      PROVE  AnswersArrive'
  <2>1. \A r \in Runs : outcome[r] = "completed" =>
          \A k \in Jobs : run[r] \notin todo[k]
    BY <1>3 DEF CallInv, ClaimedIsUncalled, AnswersArrive
  <2>2. \A r \in Runs : outcome[r] = "completed" => run'[r] = run[r] /\ run[r] \in Callbacks
    BY <1>3, <1>9 DEF CallInv, OneCallPerRow
  <2>3. \A r \in Runs : Called(r)' => r \in linked' \/ Unlinked(r)'
    BY <1>9 DEF AnswersArrive, Called, Unlinked
  <2>4. QED
    BY <1>9, <2>1, <2>2, <2>3 DEF AnswersArrive
<1>10. ASSUME NEW j \in Jobs, ClaimDueCallbacks(j) PROVE AnswersArrive'
  BY <1>9, <1>10 DEF ClaimDueCallbacks, Claimed, Due, Scheduled
<1>11. ASSUME NEW j \in Jobs, Work(j) PROVE AnswersArrive'
  <2> USE DEF RowStates
  <2>1. CASE FetchCallback(j)
    BY <1>9, <2>1 DEF FetchCallback
  <2>2. CASE Postpone(j)
    BY <1>1, <1>9, <2>2 DEF Postpone, Finish
  <2>3. CASE Reject(j)
    BY <1>2, <1>9, <2>3 DEF Reject, Finish
  <2>4. CASE CreateWorkflowRun(j)
    BY <1>2, <1>9, <2>4 DEF CreateWorkflowRun, NewRun
  <2>5. CASE InitiateCall(j)
    BY <1>9, <2>5 DEF InitiateCall
  <2>6. CASE LinkRun(j)
    BY <1>1, <1>9, <2>6 DEF LinkRun, Finish, WithCallback
  <2>7. CASE GiveUp(j)
    BY <1>2, <1>9, <2>7 DEF GiveUp, WithCallback
  <2>8. CASE RetryOfJob(j)
    BY <1>2, <1>5, <1>9, <2>8 DEF RetryOfJob
  <2>9. CASE SettleOfJob(j)
    BY <1>2, <1>9, <2>9 DEF SettleOfJob, Finish
  <2>10. ~ReleaseCallback(j)
    BY DEF ReleaseCallback, Finish, CallInv, JobsFollowOneRun
  <2>11. QED
    BY <1>11, <2>1, <2>2, <2>3, <2>4, <2>5, <2>6, <2>7, <2>8, <2>9, <2>10 DEF Work
<1>12. \A j \in Jobs : ~CancelJob(j)
  BY <1>1 DEF CancelJob
<1>13. ASSUME NEW r \in Runs, EndCall(r) PROVE AnswersArrive'
  <2>1. PICK o \in Outcomes, k \in 1 .. MaxDeliveries :
          outcome' = [outcome EXCEPT ![r] = o] /\ due' = [due EXCEPT ![r] = k]
    BY <1>13 DEF EndCall
  <2>2. due'[r] > 0 /\ \A s \in Runs \ {r} : outcome'[s] = outcome[s] /\ due'[s] = due[s]
    BY <2>1
  <2>3. /\ call[r] = "live" /\ ~Unlinked(r) /\ call' = [call EXCEPT ![r] = "ended"]
        /\ UNCHANGED <<rowVars, runVars, jobVars, handlerVars>>
    BY <1>1, <1>13 DEF EndCall
  <2>4. QED
    BY <2>2, <2>3 DEF AnswersArrive, Called, Unlinked
<1>14. ASSUME NEW r \in Runs, NEW h \in Handlers, ReceiveStatus(h, r) PROVE AnswersArrive'
  <2>1. /\ hpc[h] = "idle" /\ r \in linked
        /\ \A s \in Runs \ {r} : due'[s] = due[s]
        /\ hpc' = [hpc EXCEPT ![h] = outcome[r]] /\ hcb' = [hcb EXCEPT ![h] = run[r]]
        /\ UNCHANGED <<rowVars, runVars, call, outcome, jobVars>>
    BY <1>3, <1>14 DEF ReceiveStatus, AnswersArrive
  <2>2. QED
    BY <2>1 DEF AnswersArrive, Called, Unlinked
<1>15. ASSUME NEW h \in Handlers, Handle(h) PROVE AnswersArrive'
  <2>1. UNCHANGED <<runVars, callVars, jobVars>>
    BY <1>15 DEF Handle, CloseAttempt, RetryAttempt
  <2>2. \A r \in Runs : outcome[r] = "completed" /\ run[r] = hcb[h] /\ hpc[h] # "idle" =>
          hpc[h] = "completed"
    BY <1>3, CalledIsOver
  <2>3. CASE CloseAttempt(h)
    <3>1. /\ \A c \in Callbacks \ {hcb[h]} : cb'[c] = cb[c]
          /\ hpc[h] # "idle" /\ hcb[h] \in Callbacks
          /\ hpc[h] = "completed" => cb'[hcb[h]] = "completed"
          /\ \A k \in Handlers \ {h} : hpc'[k] = hpc[k] /\ hcb'[k] = hcb[k]
      BY <1>1, <2>3 DEF CloseAttempt, OutcomeState, HandlerDone
    <3>2. \A r \in Runs : outcome[r] = "completed" => run[r] \in Callbacks
      BY <1>3 DEF CallInv, OneCallPerRow
    <3>3. QED
      BY <2>1, <2>2, <3>1, <3>2 DEF AnswersArrive, Called, Unlinked
  <2>4. CASE RetryAttempt(h)
    <3>1. /\ \A c \in Callbacks : cb[c] # "absent" => cb'[c] = cb[c]
          /\ hcb' = hcb /\ hpc[h] = "failed" /\ \A k \in Handlers \ {h} : hpc'[k] = hpc[k]
      BY <1>1, <1>5, <2>4 DEF RetryAttempt
    <3>2. \A r \in Runs : outcome[r] = "completed" => run[r] \in Callbacks
      BY <1>3 DEF CallInv, OneCallPerRow
    <3>3. QED
      BY <2>1, <3>1, <3>2 DEF AnswersArrive, Called, Unlinked
  <2>5. QED
    BY <1>15, <2>3, <2>4 DEF Handle
<1>16. QED
  BY <1>6, <1>7, <1>8, <1>10, <1>11, <1>12, <1>13, <1>14, <1>15 DEF Next, NothingDue

\* A connected call marks its callback completed, once its statuses have been
\* handled (ConnectedMeansCompleted), however many of them there are.
THEOREM ConnectedCompletes ==
  ASSUME OnlyRefusals
  PROVE  Spec => []ConnectedMeansCompleted
<1>1. TransactionsHold
  BY DEF OnlyRefusals, TransactionsHold
<1>2. Init => AnswersArrive
  BY DEF Init, AnswersArrive, Called
<1>3. WorkInv /\ RetryInv /\ OwnInv /\ CallInv /\ AnswersArrive /\ [Next]_vars => AnswersArrive'
  BY AnswersStep
<1>4. WorkInv /\ AnswersArrive => ConnectedMeansCompleted
  BY DEF WorkInv, TypeOK, AnswersArrive, ConnectedMeansCompleted
<1>5. QED
  BY <1>1, <1>2, <1>3, <1>4, CallCorrect, PTL DEF Spec

-----------------------------------------------------------------------------
(* Who will close a callback. *)

\* Nothing raises but the provider and the record of a call that was placed, no
\* status is early and no job is cancelled.
Accountable == Faults \subseteq {"refuse", "save"}

\* Somebody will close the row: the job that has it, the call that can be found
\* by it, a status of that call, or a handler at work.
InHand(c) ==
  \/ \E j \in Jobs : c \in todo[j]
  \/ \E r \in linked : run[r] = c /\ (call[r] = "live" \/ due[r] > 0)
  \/ \E h \in Handlers : hpc[h] # "idle" /\ hcb[h] = c

\* The safety half of EveryAttemptResolves: a callback in progress is in somebody's
\* hand.
NoCallbackForgotten == \A c \in Callbacks : cb[c] = "in_progress" => InHand(c)

\* What the hand-over from job to call needs: the job lets go of a row while its
\* call goes on, and no call ends that cannot be found.
CallsCanBeFound ==
  /\ \A j \in Jobs :
       /\ jpc[j] # "release" /\ (jpc[j] = "idle" => todo[j] = {})
       /\ jpc[j] \in {"initiate", "link", "giveUp"} => run[curRun[j]] = cur[j]
       /\ jpc[j] = "link" => call[curRun[j]] = "live"
  /\ \A r \in Runs : Called(r) => r \in linked \/ Unlinked(r)
  /\ \A r \in Runs : due[r] > 0 => r \in linked

\* The hand-over, step by step.
LEMMA FoundStep ==
  ASSUME Accountable, WorkInv, CallsCanBeFound, [Next]_vars
  PROVE  CallsCanBeFound'
<1> USE DEF WorkInv, TypeOK, JobsKnowTheirWork, HandlersKnowTheirWork
<1>1. "db" \notin Faults /\ "early" \notin Faults /\ "cancel" \notin Faults
  BY DEF Accountable
<1>2. \A j \in Jobs, from \in JobSteps : ~Raise(j, from)
  BY <1>1 DEF Raise
<1> USE DEF rowVars, requestVars, runVars, callVars, jobVars, handlerVars, Goto, SetState, JobSteps
<1>3. ASSUME UNCHANGED <<runVars, call, jobVars>>, \A r \in Runs : due'[r] > 0 => due[r] > 0
      PROVE  CallsCanBeFound'
  BY <1>3 DEF CallsCanBeFound, Called, Unlinked
<1>4. CASE FindScheduled \/ ScheduleCallback \/ UNCHANGED vars
  BY <1>3, <1>4 DEF FindScheduled, ScheduleCallback, vars
<1>5. ASSUME NEW c \in Callbacks, BecomeDue(c) PROVE CallsCanBeFound'
  BY <1>3, <1>5 DEF BecomeDue
<1>6. ASSUME NEW j \in Jobs, ClaimDueCallbacks(j) PROVE CallsCanBeFound'
  BY <1>6 DEF ClaimDueCallbacks, CallsCanBeFound, Called, Unlinked
<1>7. ASSUME NEW j \in Jobs, Work(j) PROVE CallsCanBeFound'
  <2>1. CASE FetchCallback(j)
    BY <2>1 DEF FetchCallback, CallsCanBeFound, Called, Unlinked
  <2>2. CASE Postpone(j)
    BY <1>1, <2>2 DEF Postpone, Finish, CallsCanBeFound, Called, Unlinked
  <2>3. CASE Reject(j)
    BY <1>2, <2>3 DEF Reject, Finish, CallsCanBeFound, Called, Unlinked
  <2>4. CASE CreateWorkflowRun(j)
    <3>1. PICK r \in Runs : /\ NewRun(r) /\ run' = [run EXCEPT ![r] = cur[j]]
                            /\ jpc[j] = "place" /\ jpc' = [jpc EXCEPT ![j] = "initiate"]
                            /\ curRun' = [curRun EXCEPT ![j] = r]
      BY <1>2, <2>4 DEF CreateWorkflowRun
    <3>2. UNCHANGED <<linked, callVars, cur, todo>>
      BY <1>2, <2>4 DEF CreateWorkflowRun
    <3>3. \A k \in Jobs \ {j} : jpc[k] \in {"initiate", "link", "giveUp"} => curRun[k] # r
      BY <3>1 DEF NewRun
    <3>4. QED
      BY <3>1, <3>2, <3>3 DEF CallsCanBeFound, Called, Unlinked
  <2>5. CASE InitiateCall(j)
    BY <2>5 DEF InitiateCall, CallsCanBeFound, Called, Unlinked
  <2>6. CASE LinkRun(j)
    BY <2>6 DEF LinkRun, Finish, WithCallback, CallsCanBeFound, Called, Unlinked
  <2>7. CASE GiveUp(j)
    BY <1>2, <2>7 DEF GiveUp, WithCallback, CallsCanBeFound, Called, Unlinked
  <2>8. CASE RetryOfJob(j)
    BY <1>2, <2>8 DEF RetryOfJob, CallsCanBeFound, Called, Unlinked
  <2>9. CASE SettleOfJob(j)
    BY <1>2, <2>9 DEF SettleOfJob, Finish, CallsCanBeFound, Called, Unlinked
  <2>10. ~ReleaseCallback(j)
    BY DEF ReleaseCallback, Finish, CallsCanBeFound
  <2>11. QED
    BY <1>7, <2>1, <2>2, <2>3, <2>4, <2>5, <2>6, <2>7, <2>8, <2>9, <2>10 DEF Work
<1>8. \A j \in Jobs : ~CancelJob(j)
  BY <1>1 DEF CancelJob
<1>9. ASSUME NEW r \in Runs, EndCall(r) PROVE CallsCanBeFound'
  <2>1. /\ call[r] = "live" /\ ~Unlinked(r) /\ call' = [call EXCEPT ![r] = "ended"]
        /\ \A s \in Runs \ {r} : due'[s] = due[s]
        /\ UNCHANGED <<runVars, jobVars>>
    BY <1>1, <1>9 DEF EndCall
  <2>2. r \in linked
    BY <2>1 DEF CallsCanBeFound, Called
  <2>3. QED
    BY <2>1, <2>2 DEF CallsCanBeFound, Called, Unlinked
<1>10. ASSUME NEW r \in Runs, NEW h \in Handlers, ReceiveStatus(h, r) PROVE CallsCanBeFound'
  BY <1>3, <1>10 DEF ReceiveStatus
<1>11. ASSUME NEW h \in Handlers, Handle(h) PROVE CallsCanBeFound'
  BY <1>3, <1>11 DEF Handle, CloseAttempt, RetryAttempt
<1>12. QED
  BY <1>4, <1>5, <1>6, <1>7, <1>8, <1>9, <1>10, <1>11 DEF Next, NothingDue

\* A row passes from one hand to the next, or is closed or put back.
LEMMA HandStep ==
  ASSUME Accountable, WorkInv, CallsCanBeFound, NoCallbackForgotten, [Next]_vars
  PROVE  NoCallbackForgotten'
<1> USE DEF WorkInv, TypeOK, JobsKnowTheirWork, HandlersKnowTheirWork
<1>1. "db" \notin Faults /\ "cancel" \notin Faults
  BY DEF Accountable
<1>2. \A j \in Jobs, from \in JobSteps : ~Raise(j, from)
  BY <1>1 DEF Raise
<1> USE DEF rowVars, requestVars, runVars, callVars, jobVars, handlerVars, Goto, SetState, JobSteps
\* Nobody lets go of a row that stays in progress.
<1>3. ASSUME \A c \in Callbacks : cb'[c] = "in_progress" => cb[c] = "in_progress",
             \A c \in Callbacks, j \in Jobs :
               cb'[c] = "in_progress" /\ c \in todo[j] => InHand(c)',
             \A r \in linked : r \in linked' /\ run'[r] = run[r],
             \A r \in Runs : call[r] = "live" => call'[r] = "live",
             UNCHANGED <<due, handlerVars>>
      PROVE  NoCallbackForgotten'
  <2> SUFFICES ASSUME NEW c \in Callbacks, cb'[c] = "in_progress" PROVE InHand(c)'
    BY DEF NoCallbackForgotten
  <2>1. InHand(c)
    BY <1>3 DEF NoCallbackForgotten
  <2>2. QED
    BY <1>3, <2>1 DEF InHand
<1>4. ASSUME NEW p, CreateCallback(p)
      PROVE  \A c \in Callbacks : cb'[c] = "in_progress" => cb[c] = "in_progress"
  BY <1>4 DEF CreateCallback
<1>5. CASE FindScheduled \/ ScheduleCallback \/ UNCHANGED vars
  <2>1. UNCHANGED <<runVars, callVars, jobVars, handlerVars>>
    BY <1>5 DEF FindScheduled, ScheduleCallback, vars
  <2>2. \A c \in Callbacks : cb'[c] = "in_progress" => cb[c] = "in_progress"
    BY <1>4, <1>5 DEF FindScheduled, ScheduleCallback, vars
  <2>3. QED
    BY <1>3, <2>1, <2>2 DEF InHand
<1>6. ASSUME NEW c \in Callbacks, BecomeDue(c) PROVE NoCallbackForgotten'
  BY <1>6 DEF BecomeDue, NoCallbackForgotten, InHand
<1>7. ASSUME NEW j \in Jobs, ClaimDueCallbacks(j) PROVE NoCallbackForgotten'
  <2>1. PICK S \in SUBSET Due : cb' = Claimed(S) /\ todo' = [todo EXCEPT ![j] = S]
    BY <1>7 DEF ClaimDueCallbacks
  <2>2. UNCHANGED <<runVars, callVars, handlerVars>>
    BY <1>7 DEF ClaimDueCallbacks
  <2>3. ASSUME NEW c \in Callbacks, cb'[c] = "in_progress" PROVE InHand(c)'
    <3>1. todo[j] = {}
      BY <1>7 DEF ClaimDueCallbacks, CallsCanBeFound
    <3>2. CASE c \in S
      BY <2>1, <3>2 DEF InHand
    <3>3. CASE c \notin S
      <4>1. InHand(c)
        BY <2>1, <2>3, <3>3 DEF Claimed, NoCallbackForgotten
      <4>2. \A k \in Jobs : todo[k] \subseteq todo'[k]
        BY <2>1, <3>1
      <4>3. QED
        BY <2>2, <4>1, <4>2 DEF InHand
    <3>4. QED
      BY <3>2, <3>3
  <2>4. QED
    BY <2>3 DEF NoCallbackForgotten
<1>8. ASSUME NEW j \in Jobs, Work(j) PROVE NoCallbackForgotten'
  <2>1. CASE FetchCallback(j)
    BY <1>3, <2>1 DEF FetchCallback, InHand
  <2>2. CASE Postpone(j)
    BY <1>1, <1>3, <2>2 DEF Postpone, Finish, InHand
  <2>3. CASE Reject(j)
    BY <1>2, <1>3, <2>3 DEF Reject, Finish, InHand
  <2>4. CASE CreateWorkflowRun(j)
    BY <1>2, <1>3, <2>4 DEF CreateWorkflowRun, NewRun, InHand
  <2>5. CASE InitiateCall(j)
    BY <1>3, <2>5 DEF InitiateCall, InHand
  <2>6. CASE LinkRun(j)
    <3>1. /\ jpc[j] = "link" /\ curRun[j] \in Runs /\ run[curRun[j]] = cur[j]
          /\ call[curRun[j]] = "live" /\ UNCHANGED <<rowVars, run, callVars, handlerVars>>
      BY <2>6 DEF LinkRun, Finish, CallsCanBeFound
    <3>2. CASE Finish(j, "link") /\ linked' = WithCallback(curRun[j])
      <4>1. linked' = linked \cup {curRun[j]}
        BY <3>2 DEF WithCallback
      <4>2. \A c \in Callbacks : c = cur[j] => InHand(c)'
        BY <3>1, <4>1 DEF InHand
      <4>3. \A k \in Jobs : todo[k] \ {cur[j]} \subseteq todo'[k]
        BY <3>2 DEF Finish
      <4>4. \A c \in Callbacks, k \in Jobs : c \in todo[k] => c = cur[j] \/ InHand(c)'
        BY <4>3 DEF InHand
      <4>5. \A c \in Callbacks, k \in Jobs : c \in todo[k] => InHand(c)'
        BY <4>2, <4>4
      <4>6. QED
        BY <1>3, <3>1, <4>1, <4>5
    <3>3. CASE UNCHANGED todo /\ linked' \in {linked, WithCallback(curRun[j])}
      BY <1>3, <3>1, <3>3 DEF WithCallback, InHand
    <3>4. QED
      BY <2>6, <3>2, <3>3 DEF LinkRun
  <2>7. CASE GiveUp(j)
    BY <1>2, <1>3, <2>7 DEF GiveUp, WithCallback, InHand
  <2>8. CASE RetryOfJob(j)
    BY <1>2, <1>3, <1>4, <2>8 DEF RetryOfJob, InHand
  <2>9. CASE SettleOfJob(j)
    BY <1>2, <1>3, <2>9 DEF SettleOfJob, Finish, InHand
  <2>10. ~ReleaseCallback(j)
    BY DEF ReleaseCallback, Finish, CallsCanBeFound
  <2>11. QED
    BY <1>8, <2>1, <2>2, <2>3, <2>4, <2>5, <2>6, <2>7, <2>8, <2>9, <2>10 DEF Work
<1>9. \A j \in Jobs : ~CancelJob(j)
  BY <1>1 DEF CancelJob
<1>10. ASSUME NEW r \in Runs, EndCall(r) PROVE NoCallbackForgotten'
  <2>1. PICK o \in Outcomes, k \in 1 .. MaxDeliveries :
          outcome' = [outcome EXCEPT ![r] = o] /\ due' = [due EXCEPT ![r] = k]
    BY <1>10 DEF EndCall
  <2>2. due'[r] > 0 /\ \A s \in Runs \ {r} : due'[s] = due[s]
    BY <2>1
  <2>3. /\ call' = [call EXCEPT ![r] = "ended"]
        /\ UNCHANGED <<rowVars, runVars, jobVars, handlerVars>>
    BY <1>10 DEF EndCall
  <2>4. QED
    BY <2>2, <2>3 DEF NoCallbackForgotten, InHand
<1>11. ASSUME NEW r \in Runs, NEW h \in Handlers, ReceiveStatus(h, r) PROVE NoCallbackForgotten'
  <2>1. /\ hpc[h] = "idle" /\ r \in linked /\ outcome[r] \in Outcomes
        /\ \A s \in Runs \ {r} : due'[s] = due[s]
        /\ hpc' = [hpc EXCEPT ![h] = outcome[r]] /\ hcb' = [hcb EXCEPT ![h] = run[r]]
        /\ UNCHANGED <<rowVars, runVars, call, jobVars>>
    BY <1>11 DEF ReceiveStatus, CallsCanBeFound
  <2>2. \A c \in Callbacks : InHand(c) => InHand(c)'
    BY <2>1 DEF InHand, Outcomes
  <2>3. QED
    BY <2>1, <2>2 DEF NoCallbackForgotten
<1>12. ASSUME NEW h \in Handlers, Handle(h) PROVE NoCallbackForgotten'
  <2>1. UNCHANGED <<runVars, callVars, jobVars>>
    BY <1>12 DEF Handle, CloseAttempt, RetryAttempt
  <2>2. CASE CloseAttempt(h)
    BY <1>1, <2>1, <2>2 DEF CloseAttempt, OutcomeState, HandlerDone, NoCallbackForgotten, InHand
  <2>3. CASE RetryAttempt(h)
    BY <1>1, <1>4, <2>1, <2>3 DEF RetryAttempt, NoCallbackForgotten, InHand
  <2>4. QED
    BY <1>12, <2>2, <2>3 DEF Handle
<1>13. QED
  BY <1>5, <1>6, <1>7, <1>8, <1>9, <1>10, <1>11, <1>12 DEF Next, NothingDue

\* No callback is left in progress with nobody to close it (NoCallbackForgotten),
\* although jobs hand it over to calls and calls to statuses: fairness is all that
\* EveryAttemptResolves needs besides.
THEOREM CallbacksRemembered ==
  ASSUME Accountable
  PROVE  Spec => []NoCallbackForgotten
<1>1. Init => CallsCanBeFound /\ NoCallbackForgotten
  BY DEF Init, CallsCanBeFound, NoCallbackForgotten, Called
<1>2. WorkInv /\ CallsCanBeFound /\ [Next]_vars => CallsCanBeFound'
  BY FoundStep
<1>3. WorkInv /\ CallsCanBeFound /\ NoCallbackForgotten /\ [Next]_vars => NoCallbackForgotten'
  BY HandStep
<1>4. QED
  BY <1>1, <1>2, <1>3, WorkCorrect, PTL DEF Spec

-----------------------------------------------------------------------------
(* The promise to the caller. *)

\* A called run goes back to its row or to that row's parent.
LEMMA OriginOfCalled ==
  ASSUME WorkInv, RetryInv, NEW r \in Runs, run[r] \in Callbacks
  PROVE  Origin(r) = Attempted(run[r]) /\ Origin(r) \in Callbacks
BY DEF WorkInv, TypeOK, RetryInv, RetriesAreLeaves, Origin, Attempted

\* A called run keeps its row and its origin: only a row that is created gets a
\* parent, and a run gets its row when it is created.
LEMMA OriginsStay ==
  ASSUME WorkInv, RetryInv, CallInv, [Next]_vars, NEW r \in Runs, Called(r)
  PROVE  Origin(r)' = Origin(r) /\ run'[r] = run[r]
<1> USE DEF WorkInv, TypeOK
<1>1. run[r] \in Callbacks /\ cb[run[r]] # "absent"
  BY DEF CallInv, OneCallPerRow
<1>2. Effects
  BY StepEffects
<1>3. \A c \in Callbacks : cb[c] # "absent" => parent'[c] = parent[c]
  BY <1>2 DEF Effects, CreateCallback, NewCallback
<1>4. run'[r] = run[r]
  BY <1>1, <1>2 DEF Effects, CallInv, OneCallPerRow
<1>5. parent[run[r]] # None => cb[parent[run[r]]] # "absent"
  BY <1>1 DEF RetryInv, NothingDangles, Exist
<1>6. QED
  BY <1>1, <1>3, <1>4, <1>5 DEF Origin, Attempted

\* The calls of a callback and its retries, those of them in progress, and the
\* callbacks whose calls they can be.
CallsOf(o) == {s \in Placed : Origin(s) = o}
LiveOf(o) == {s \in Runs : call[s] = "live" /\ Origin(s) = o}
RowsOf(o) == {o} \cup RetriesOf(o)

LEMMA FiniteCalls == \A S \in SUBSET Runs : IsFiniteSet(S) /\ Cardinality(S) \in Nat
<1>1. IsFiniteSet(Runs)
  BY BoundAssumption, FS_Interval DEF Runs
<1>2. QED
  BY <1>1, FS_Subset, FS_CardinalityType

LEMMA OneMore ==
  ASSUME NEW S, IsFiniteSet(S), NEW x, x \notin S
  PROVE  IsFiniteSet(S \cup {x}) /\ Cardinality(S \cup {x}) = Cardinality(S) + 1
BY FS_AddElement

LEMMA OneLess ==
  ASSUME NEW S, IsFiniteSet(S), NEW x \in S
  PROVE  IsFiniteSet(S \ {x}) /\ Cardinality(S \ {x}) = Cardinality(S) - 1
BY FS_RemoveElement

\* Calls of one origin are calls of different rows, its own or its retries'.
LEMMA CallsHaveRows ==
  ASSUME WorkInv, RetryInv, CallInv, NEW o \in Callbacks
  PROVE  /\ \A s \in CallsOf(o) : s \in Runs /\ Called(s) /\ run[s] \in RowsOf(o)
         /\ \A s, t \in CallsOf(o) : run[s] = run[t] => s = t
<1> USE DEF WorkInv, TypeOK
<1>1. \A s \in CallsOf(o) : s \in Runs /\ Called(s) /\ run[s] \in Callbacks
  BY DEF CallsOf, Placed, Called, CallInv, OneCallPerRow
<1>2. \A s \in CallsOf(o) : Attempted(run[s]) = o
  BY <1>1, OriginOfCalled DEF CallsOf
<1>3. QED
  BY <1>1, <1>2 DEF RowsOf, RetriesOf, Attempted, CallInv, OneCallPerRow

\* A job about to place a call finds no more calls of its request than retries of
\* it; one call alone is over and did not connect.
LEMMA CallsSoFar ==
  ASSUME WorkInv, RetryInv, CallInv, OnlyFailedAreRetried, RowsCounted, RetriesAreReported,
         NEW j \in Jobs, jpc[j] = "initiate", NEW q \in Callbacks, q = Origin(curRun[j])
  PROVE  /\ Cardinality(CallsOf(q)) =< MaxDeliveries
         /\ Cardinality(CallsOf(q)) = 1 =>
              \A s \in CallsOf(q) : call[s] = "ended" /\ outcome[s] = "failed"
<1> USE DEF WorkInv, TypeOK
<1> DEFINE c == cur[j]
<1>1. c \in todo[j] /\ c \in Callbacks /\ curRun[j] \in Runs /\ run[curRun[j]] = c
  BY DEF JobsKnowTheirWork, CallInv, JobsFollowOneRun
<1>2. \A s \in Runs : Called(s) => run[s] # c
  BY <1>1 DEF CallInv, ClaimedIsUncalled
<1>3. q = Attempted(c) /\ c \in RowsOf(q)
  BY <1>1, OriginOfCalled DEF Attempted, RowsOf, RetriesOf
<1>4. \A s \in CallsOf(q) : run[s] \in RowsOf(q) \ {c}
  BY <1>2, CallsHaveRows
<1>5. None \notin Callbacks /\ q \notin RetriesOf(q)
  BY DEF RetryInv, RetriesAreLeaves, RetriesOf, None, Callbacks
<1>6. IsFiniteSet(RetriesOf(q)) /\ Cardinality(RetriesOf(q)) \in Nat
  BY FiniteRows DEF RetriesOf
<1>7. IsFiniteSet(RowsOf(q)) /\ Cardinality(RowsOf(q)) = Cardinality(RetriesOf(q)) + 1
  <2>1. RowsOf(q) = RetriesOf(q) \cup {q}
    BY DEF RowsOf
  <2>2. QED
    BY <1>5, <1>6, <2>1, OneMore
<1>8. /\ IsFiniteSet(RowsOf(q) \ {c})
      /\ Cardinality(RowsOf(q) \ {c}) = Cardinality(RetriesOf(q))
  <2>1. /\ IsFiniteSet(RowsOf(q) \ {c})
        /\ Cardinality(RowsOf(q) \ {c}) = Cardinality(RowsOf(q)) - 1
    BY <1>3, <1>7, OneLess
  <2>2. QED
    BY <1>6, <1>7, <2>1
<1>9. Cardinality(CallsOf(q)) =< MaxDeliveries
  <2>1. [s \in CallsOf(q) |-> run[s]] \in Injection(CallsOf(q), RowsOf(q) \ {c})
    BY <1>4, CallsHaveRows DEF Injection, IsInjective
  <2>2. Cardinality(CallsOf(q)) =< Cardinality(RowsOf(q) \ {c})
    BY <1>8, <2>1, FS_Injection
  <2>3. Cardinality(RetriesOf(q)) =< MaxDeliveries
    BY DEF RetriesAreReported
  <2>4. Cardinality(CallsOf(q)) \in Nat
    BY FiniteCalls DEF CallsOf, Placed
  <2>5. QED
    BY <1>6, <1>8, <2>2, <2>3, <2>4, BoundAssumption
<1>10. RetriesOf(q) # {} => HasFailed(q)
  BY <1>5 DEF RetriesOf, OnlyFailedAreRetried
<1>11. ASSUME Cardinality(CallsOf(q)) = 1, NEW s \in CallsOf(q)
       PROVE  call[s] = "ended" /\ outcome[s] = "failed"
  <2>1. s \in Runs /\ Called(s) /\ run[s] \in RowsOf(q) \ {c}
    BY <1>4, CallsHaveRows
  <2>2. RetriesOf(q) # {}
    BY <1>3, <2>1 DEF RowsOf
  <2>3. HasFailed(q) /\ c # q
    BY <1>1, <1>10, <2>2 DEF HasFailed
  <2>4. CASE run[s] = q
    BY <2>1, <2>3, <2>4 DEF HasFailed, CallInv, OneCallPerRow
  <2>5. CASE run[s] # q
    <3>1. run[s] \in RetriesOf(q) /\ c \in RetriesOf(q) /\ run[s] # c
      BY <1>3, <2>1, <2>3, <2>5 DEF RowsOf
    <3>2. ~(Cardinality(RetriesOf(q)) =< 1)
      <4>1. Cardinality(RetriesOf(q) \ {c}) = Cardinality(RetriesOf(q)) - 1
        BY <1>6, <3>1, OneLess
      <4>2. IsFiniteSet(RetriesOf(q) \ {c}) /\ RetriesOf(q) \ {c} # {}
        BY <1>6, <3>1, FS_RemoveElement
      <4>3. Cardinality(RetriesOf(q) \ {c}) # 0 /\ Cardinality(RetriesOf(q) \ {c}) \in Nat
        BY <4>2, FS_EmptySet, FS_CardinalityType
      <4>4. QED
        BY <1>6, <4>1, <4>3
    <3>3. PICK t \in Runs : Called(t) /\ run[t] = q
      BY <3>2 DEF RowsCounted, Counted
    <3>4. parent[q] = None
      BY <1>5, <3>1 DEF RetryInv, RetriesAreLeaves, RetriesOf
    <3>5. t \in CallsOf(q)
      BY <1>5, <3>3, <3>4 DEF CallsOf, Placed, Called, Origin, Attempted
    <3>6. IsFiniteSet(CallsOf(q))
      BY FiniteCalls DEF CallsOf, Placed
    <3>7. s = t
      BY <1>11, <3>5, <3>6, FS_Singleton
    <3>8. QED
      BY <2>5, <3>3, <3>7
  <2>6. QED
    BY <2>4, <2>5
<1>12. QED
  BY <1>9, <1>11

\* Placing a call is a step of the promise.
LEMMA CallPlaced ==
  ASSUME WorkInv, RetryInv, CallInv, OnlyFailedAreRetried, RowsCounted, RetriesAreReported,
         NEW j \in Jobs, InitiateCall(j), call' # call,
         NEW q \in Callbacks, q = Origin(curRun[j])
  PROVE  CP!PlaceCall(q)
<1> DEFINE r == curRun[j]
<1> USE DEF WorkInv, TypeOK
<1>1. /\ jpc[j] = "initiate" /\ r \in Runs /\ run[r] = cur[j] /\ cur[j] \in todo[j]
      /\ cur[j] \in Callbacks
      /\ call' = [call EXCEPT ![r] = "live"] /\ UNCHANGED <<cb, parent, run, outcome>>
  BY DEF JobsKnowTheirWork, InitiateCall, CallInv, JobsFollowOneRun, Goto, rowVars, runVars
<1>2. call[r] = "none" /\ r \notin Placed /\ Placed' = Placed \cup {r}
  BY <1>1 DEF Placed, Called, CallInv, ClaimedIsUncalled
<1>3. \A s \in Runs : Origin(s)' = Origin(s)
  BY <1>1 DEF Origin, Attempted
<1>4. \A o \in Callbacks :
        /\ IsFiniteSet(CallsOf(o)) /\ Cardinality(CallsOf(o)) \in Nat
        /\ IsFiniteSet(LiveOf(o)) /\ Cardinality(LiveOf(o)) \in Nat
  BY FiniteCalls DEF CallsOf, LiveOf, Placed
<1>5. /\ Cardinality(CallsOf(q) \cup {r}) = Cardinality(CallsOf(q)) + 1
      /\ Cardinality(LiveOf(q) \cup {r}) = Cardinality(LiveOf(q)) + 1
  <2>1. r \notin CallsOf(q) /\ r \notin LiveOf(q)
    BY <1>2 DEF CallsOf, LiveOf
  <2>2. QED
    BY <1>4, <2>1, FS_AddElement
<1>6. \A o \in Callbacks :
        /\ {s \in Placed' : Origin(s)' = o} = IF o = q THEN CallsOf(q) \cup {r} ELSE CallsOf(o)
        /\ {s \in Runs : call'[s] = "live" /\ Origin(s)' = o}
             = IF o = q THEN LiveOf(q) \cup {r} ELSE LiveOf(o)
  BY <1>1, <1>2, <1>3 DEF Placed, CallsOf, LiveOf
<1>7. [o \in Callbacks |-> Cardinality({s \in Placed' : Origin(s)' = o})]
        = [[o \in Callbacks |-> Cardinality(CallsOf(o))] EXCEPT ![q] = @ + 1]
  BY <1>5, <1>6
<1>8. [o \in Callbacks |-> Cardinality({s \in Runs : call'[s] = "live" /\ Origin(s)' = o})]
        = [[o \in Callbacks |-> Cardinality(LiveOf(o))] EXCEPT ![q] = @ + 1]
  BY <1>5, <1>6
<1>9. {Origin(s)' : s \in {t \in Runs : outcome'[t] = "completed"}}
        = {Origin(s) : s \in {t \in Runs : outcome[t] = "completed"}}
  BY <1>1, <1>3
<1>10. [o \in Callbacks |-> Cardinality(CallsOf(o))][q] =< MaxDeliveries
  BY <1>1, CallsSoFar
<1>11. ASSUME [o \in Callbacks |-> Cardinality(CallsOf(o))][q] = 1
       PROVE  /\ [o \in Callbacks |-> Cardinality(LiveOf(o))][q] = 0
              /\ q \notin {Origin(s) : s \in {t \in Runs : outcome[t] = "completed"}}
  <2>1. \A s \in CallsOf(q) : call[s] = "ended" /\ outcome[s] = "failed"
    BY <1>1, <1>11, CallsSoFar
  <2>2. LiveOf(q) = {}
    BY <2>1 DEF CallsOf, LiveOf, Placed
  <2>3. q \notin {Origin(s) : s \in {t \in Runs : outcome[t] = "completed"}}
    BY <2>1 DEF CallsOf, Placed, CallInv, OneCallPerRow
  <2>4. QED
    BY <2>2, <2>3, FS_EmptySet
<1>12. QED
  BY <1>7, <1>8, <1>9, <1>10, <1>11 DEF CP!PlaceCall, CallsOf, LiveOf

\* The end of a call ends one of its origin's.
LEMMA CallHung ==
  ASSUME WorkInv, RetryInv, CallInv, NEW r \in Runs, EndCall(r),
         NEW q \in Callbacks, q = Origin(r)
  PROVE  CP!HangUp(q)
<1> USE DEF WorkInv, TypeOK
<1>1. /\ call[r] = "live" /\ call' = [call EXCEPT ![r] = "ended"]
      /\ UNCHANGED <<cb, parent, run>>
      /\ \A s \in Runs \ {r} : outcome'[s] = outcome[s]
      /\ outcome[r] # "completed"
  BY DEF EndCall, rowVars, runVars, CallInv, OneCallPerRow
<1>2. Placed' = Placed /\ \A s \in Runs : Origin(s)' = Origin(s)
  BY <1>1 DEF Placed, Origin, Attempted
<1>3. \A o \in Callbacks : IsFiniteSet(LiveOf(o)) /\ Cardinality(LiveOf(o)) \in Nat
  BY FiniteCalls DEF LiveOf
<1>4. r \in LiveOf(q)
  BY <1>1 DEF LiveOf
<1>5. Cardinality(LiveOf(q) \ {r}) = Cardinality(LiveOf(q)) - 1
  BY <1>3, <1>4, FS_RemoveElement
<1>6. \A o \in Callbacks : {s \in Runs : call'[s] = "live" /\ Origin(s)' = o}
                             = IF o = q THEN LiveOf(q) \ {r} ELSE LiveOf(o)
  BY <1>1, <1>2 DEF LiveOf
<1>7. [o \in Callbacks |-> Cardinality({s \in Runs : call'[s] = "live" /\ Origin(s)' = o})]
        = [[o \in Callbacks |-> Cardinality(LiveOf(o))] EXCEPT ![q] = @ - 1]
  BY <1>5, <1>6
<1>8. {Origin(s)' : s \in {t \in Runs : outcome'[t] = "completed"}} \in
        {{Origin(s) : s \in {t \in Runs : outcome[t] = "completed"}},
         {Origin(s) : s \in {t \in Runs : outcome[t] = "completed"}} \cup {q}}
  <2>1. CASE outcome'[r] = "completed"
    <3>1. {Origin(s)' : s \in {t \in Runs : outcome'[t] = "completed"}}
            = {Origin(s) : s \in {t \in Runs : outcome[t] = "completed"}} \cup {q}
      BY <1>1, <1>2, <2>1
    <3>2. QED
      BY <3>1
  <2>2. CASE outcome'[r] # "completed"
    <3>1. {t \in Runs : outcome'[t] = "completed"} = {t \in Runs : outcome[t] = "completed"}
      BY <1>1, <2>2
    <3>2. {Origin(s)' : s \in {t \in Runs : outcome'[t] = "completed"}}
            = {Origin(s) : s \in {t \in Runs : outcome[t] = "completed"}}
      BY <1>2, <3>1
    <3>3. QED
      BY <3>2
  <2>3. QED
    BY <2>1, <2>2
<1>9. [o \in Callbacks |-> Cardinality({s \in Placed' : Origin(s)' = o})]
        = [o \in Callbacks |-> Cardinality({s \in Placed : Origin(s) = o})]
  <2>1. \A o \in Callbacks : {s \in Placed' : Origin(s)' = o} = {s \in Placed : Origin(s) = o}
    BY <1>2 DEF Placed
  <2>2. QED
    BY <2>1
<1>10. [o \in Callbacks |-> Cardinality(LiveOf(o))][q] > 0
  <2>1. Cardinality(LiveOf(q)) # 0
    BY <1>3, <1>4, FS_EmptySet
  <2>2. QED
    BY <1>3, <2>1
<1>11. QED
  BY <1>7, <1>8, <1>9, <1>10 DEF CP!HangUp, LiveOf

\* No other step makes or ends a call, or moves one to another origin.
LEMMA CallsAlone ==
  ASSUME WorkInv, RetryInv, CallInv, [Next]_vars, UNCHANGED <<call, outcome>>
  PROVE  UNCHANGED CP!vars
<1> USE DEF WorkInv, TypeOK
<1>1. \A r \in Runs : Called(r) => Origin(r)' = Origin(r)
  BY OriginsStay
<1>2. Placed' = Placed
  BY DEF Placed
<1>3. \A r \in Runs : outcome[r] = "completed" => Called(r)
  BY DEF CallInv, OneCallPerRow, Called
<1>4. \A o \in Callbacks : {s \in Placed' : Origin(s)' = o} = {s \in Placed : Origin(s) = o}
  BY <1>1, <1>2 DEF Placed, Called
<1>5. [o \in Callbacks |-> Cardinality({s \in Placed' : Origin(s)' = o})]
        = [o \in Callbacks |-> Cardinality({s \in Placed : Origin(s) = o})]
  BY <1>4
<1>6. [o \in Callbacks |-> Cardinality({s \in Runs : call'[s] = "live" /\ Origin(s)' = o})]
        = [o \in Callbacks |-> Cardinality({s \in Runs : call[s] = "live" /\ Origin(s) = o})]
  <2>1. \A o \in Callbacks : {s \in Runs : call'[s] = "live" /\ Origin(s)' = o}
                              = {s \in Runs : call[s] = "live" /\ Origin(s) = o}
    BY <1>1 DEF Called
  <2>2. QED
    BY <2>1
<1>7. {Origin(s)' : s \in {t \in Runs : outcome'[t] = "completed"}}
        = {Origin(s) : s \in {t \in Runs : outcome[t] = "completed"}}
  BY <1>1, <1>3
<1>8. QED
  BY <1>5, <1>6, <1>7 DEF CP!vars

\* Every step of the system is one of the promise, or leaves it as it is.
LEMMA StepMaps ==
  ASSUME WorkInv, RetryInv, CallInv, OnlyFailedAreRetried, RowsCounted, RetriesAreReported,
         [Next]_vars
  PROVE  [CP!Next]_CP!vars
<1>1. ASSUME NEW j \in Jobs, InitiateCall(j) PROVE [CP!Next]_CP!vars
  <2>1. CASE call' = call
    BY <1>1, <2>1, CallsAlone DEF InitiateCall
  <2>2. CASE call' # call
    <3>1. curRun[j] \in Runs /\ run[curRun[j]] \in Callbacks
      BY <1>1 DEF InitiateCall, Goto, WorkInv, TypeOK, JobsKnowTheirWork
    <3>2. PICK q \in Callbacks : q = Origin(curRun[j])
      BY <3>1, OriginOfCalled
    <3>3. CP!PlaceCall(q)
      BY <1>1, <2>2, <3>2, CallPlaced
    <3>4. QED
      BY <3>3 DEF CP!Next
  <2>3. QED
    BY <2>1, <2>2
<1>2. ASSUME NEW r \in Runs, EndCall(r) PROVE [CP!Next]_CP!vars
  <2>1. run[r] \in Callbacks
    BY <1>2 DEF EndCall, WorkInv, TypeOK, CallInv, OneCallPerRow, Called
  <2>2. PICK q \in Callbacks : q = Origin(r)
    BY <2>1, OriginOfCalled
  <2>3. CP!HangUp(q)
    BY <1>2, <2>2, CallHung
  <2>4. QED
    BY <2>3 DEF CP!Next
<1>3. ASSUME NEW j \in Jobs, Work(j), ~InitiateCall(j) PROVE UNCHANGED <<call, outcome>>
  BY <1>3 DEF Work, FetchCallback, Postpone, Reject, CreateWorkflowRun, LinkRun, GiveUp,
         RetryOfJob, SettleOfJob, ReleaseCallback, callVars
<1>4. ASSUME \/ FindScheduled \/ ScheduleCallback \/ \E c \in Callbacks : BecomeDue(c)
             \/ \E j \in Jobs : ClaimDueCallbacks(j) \/ CancelJob(j)
             \/ \E r \in Runs, h \in Handlers : ReceiveStatus(h, r)
             \/ \E h \in Handlers : Handle(h)
             \/ UNCHANGED vars
      PROVE  UNCHANGED <<call, outcome>>
  BY <1>4 DEF FindScheduled, ScheduleCallback, BecomeDue, ClaimDueCallbacks, CancelJob,
         ReceiveStatus, Handle, CloseAttempt, RetryAttempt, callVars, vars
<1>5. QED
  BY <1>1, <1>2, <1>3, <1>4, CallsAlone DEF Next, NothingDue

\* Cron jobs, handlers and requests keep the promise of CallbackPromise
\* (ImplementsCallbackPromise): a second call for a request only after a first that
\* is over and did not connect, and no more calls after the first than its end was
\* reported.
THEOREM PromiseKept ==
  ASSUME TransactionsHold
  PROVE  Spec => ImplementsCallbackPromise
<1>1. Init => CP!Init
  <2> SUFFICES ASSUME Init PROVE CP!Init
    OBVIOUS
  <2>1. \A o \in Callbacks : /\ {r \in Placed : Origin(r) = o} = {}
                             /\ {r \in Runs : call[r] = "live" /\ Origin(r) = o} = {}
    BY DEF Init, Placed
  <2>2. /\ [o \in Callbacks |-> Cardinality({r \in Placed : Origin(r) = o})]
             = [o \in Callbacks |-> 0]
        /\ [o \in Callbacks |-> Cardinality({r \in Runs : call[r] = "live" /\ Origin(r) = o})]
             = [o \in Callbacks |-> 0]
    BY <2>1, FS_EmptySet
  <2>3. {Origin(r) : r \in {s \in Runs : outcome[s] = "completed"}} = {}
    BY DEF Init
  <2>4. QED
    BY <2>2, <2>3 DEF CP!Init
<1>2. WorkInv /\ RetryInv /\ CallInv /\ OnlyFailedAreRetried /\ RowsCounted
        /\ RetriesAreReported /\ [Next]_vars => [CP!Next]_CP!vars
  BY StepMaps
<1>3. QED
  BY <1>1, <1>2, CallCorrect, RetryFollowsFailure, CountedCorrect, RetriesCounted, PTL
     DEF Spec, ImplementsCallbackPromise, CP!Spec
=============================================================================
