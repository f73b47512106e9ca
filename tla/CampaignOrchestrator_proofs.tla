--------------------- MODULE CampaignOrchestrator_proofs ---------------------
(***************************************************************************)
(* Theorems about CampaignOrchestrator for every number of contacts, every *)
(* batch size, every set of faults and every bound on them, on the delayed *)
(* releases and on what these do.                                          *)
(***************************************************************************)
EXTENDS CampaignOrchestrator, FiniteSetTheorems, SequenceTheorems, TLAPS

-----------------------------------------------------------------------------
(* Sequences of events. *)

BatchEnds == {"batchCompleted", "batchFailed"}
Ends(s) == {i \in DOMAIN s : s[i] \in BatchEnds}
Has(s, e) == \E i \in DOMAIN s : s[i] = e

LEMMA EndsFinite ==
  ASSUME NEW s \in Seq(Events)
  PROVE  IsFiniteSet(Ends(s)) /\ Cardinality(Ends(s)) \in Nat
<1>1. IsFiniteSet(1 .. Len(s))
  BY FS_Interval
<1>2. Ends(s) \subseteq 1 .. Len(s)
  BY DEF Ends
<1>3. QED
  BY <1>1, <1>2, FS_Subset, FS_CardinalityType

\* A published event is behind all others.
LEMMA EndsAppend ==
  ASSUME NEW s \in Seq(Events), NEW e \in Events
  PROVE  /\ Append(s, e) \in Seq(Events)
         /\ Cardinality(Ends(Append(s, e)))
              = Cardinality(Ends(s)) + (IF e \in BatchEnds THEN 1 ELSE 0)
         /\ \A x : Has(Append(s, e), x) => Has(s, x) \/ x = e
<1> DEFINE t == Append(s, e)
           n == Len(s) + 1
<1>1. t \in Seq(Events) /\ Len(t) = n /\ t[n] = e /\ \A i \in 1 .. Len(s) : t[i] = s[i]
  OBVIOUS
<1>2. IsFiniteSet(Ends(s)) /\ n \notin Ends(s) /\ Cardinality(Ends(s)) \in Nat
  BY EndsFinite DEF Ends
<1>3. Ends(t) = IF e \in BatchEnds THEN Ends(s) \cup {n} ELSE Ends(s)
  <2>1. \A i : i \in DOMAIN t <=> i \in DOMAIN s \/ i = n
    BY <1>1
  <2>2. QED
    BY <2>1, <1>1 DEF Ends
<1>4. Cardinality(Ends(s) \cup {n}) = Cardinality(Ends(s)) + 1
  BY <1>2, FS_AddElement
<1>5. Cardinality(Ends(t)) = Cardinality(Ends(s)) + (IF e \in BatchEnds THEN 1 ELSE 0)
  BY <1>2, <1>3, <1>4
<1>6. \A x : Has(t, x) => Has(s, x) \/ x = e
  BY <1>1 DEF Has
<1>7. QED
  BY <1>1, <1>5, <1>6

\* An event that is handled or lost leaves the order of the others alone.
LEMMA EndsRemove ==
  ASSUME NEW s \in Seq(Events), NEW t \in Seq(Events), NEW i \in DOMAIN s,
         Len(t) = Len(s) - 1,
         \A j \in DOMAIN t : t[j] = IF j < i THEN s[j] ELSE s[j + 1]
  PROVE  /\ Cardinality(Ends(t))
              = Cardinality(Ends(s)) - (IF s[i] \in BatchEnds THEN 1 ELSE 0)
         /\ \A x : Has(t, x) => Has(s, x)
<1> DEFINE f == [j \in Ends(t) |-> IF j < i THEN j ELSE j + 1]
           S == Ends(s) \ {i}
<1>0. DOMAIN s = 1 .. Len(s) /\ DOMAIN t = 1 .. (Len(s) - 1) /\ Len(s) \in Nat /\ i \in 1 .. Len(s)
  OBVIOUS
<1>1. \A j \in Ends(t) : f[j] \in S
  BY <1>0 DEF Ends
<1>2. \A j, k \in Ends(t) : f[j] = f[k] => j = k
  BY <1>0 DEF Ends
<1>3. \A k \in S : \E j \in Ends(t) : f[j] = k
  <2> SUFFICES ASSUME NEW k \in S PROVE \E j \in Ends(t) : f[j] = k
    OBVIOUS
  <2>1. k \in 1 .. Len(s) /\ k # i /\ s[k] \in BatchEnds
    BY <1>0 DEF Ends
  <2>2. CASE k < i
    <3>1. k \in Ends(t)
      BY <2>1, <2>2, <1>0 DEF Ends
    <3>2. QED
      BY <3>1, <2>2
  <2>3. CASE k > i
    <3>1. k - 1 \in Ends(t) /\ ~(k - 1 < i) /\ (k - 1) + 1 = k
      BY <2>1, <2>3, <1>0 DEF Ends
    <3>2. QED
      BY <3>1
  <2>4. QED
    BY <2>1, <2>2, <2>3, <1>0
<1>4. f \in Bijection(Ends(t), S)
  BY <1>1, <1>2, <1>3 DEF Bijection, Injection, Surjection, IsInjective
<1>5. Cardinality(S) = Cardinality(Ends(t))
  BY <1>4, EndsFinite, FS_Bijection DEF ExistsBijection
<1>6. Cardinality(S) = IF i \in Ends(s) THEN Cardinality(Ends(s)) - 1 ELSE Cardinality(Ends(s))
  BY EndsFinite, FS_RemoveElement
<1>7. i \in Ends(s) <=> s[i] \in BatchEnds
  BY DEF Ends
<1>8. \A x : Has(t, x) => Has(s, x)
  <2> SUFFICES ASSUME NEW x, NEW j \in DOMAIN t, t[j] = x PROVE Has(s, x)
    BY DEF Has
  <2>1. j \in DOMAIN s /\ j + 1 \in DOMAIN s
    BY <1>0
  <2>2. QED
    BY <2>1 DEF Has
<1>9. Cardinality(Ends(s)) \in Nat
  BY EndsFinite
<1>10. QED
  BY <1>5, <1>6, <1>7, <1>8, <1>9

LEMMA EndsTail ==
  ASSUME NEW s \in Seq(Events), s # <<>>
  PROVE  /\ Tail(s) \in Seq(Events)
         /\ Cardinality(Ends(Tail(s)))
              = Cardinality(Ends(s)) - (IF Head(s) \in BatchEnds THEN 1 ELSE 0)
         /\ \A x : Has(Tail(s), x) => Has(s, x)
<1> DEFINE t == Tail(s)
<1>1. t \in Seq(Events) /\ 1 \in DOMAIN s /\ Len(t) = Len(s) - 1 /\ Head(s) = s[1]
  OBVIOUS
<1>2. \A j \in DOMAIN t : t[j] = IF j < 1 THEN s[j] ELSE s[j + 1]
  OBVIOUS
<1> HIDE DEF t
<1>3. /\ Cardinality(Ends(t)) = Cardinality(Ends(s)) - (IF s[1] \in BatchEnds THEN 1 ELSE 0)
      /\ \A x : Has(t, x) => Has(s, x)
  BY <1>1, <1>2, EndsRemove
<1>4. QED
  BY <1>1, <1>3 DEF t

LEMMA EndsRemoveAt ==
  ASSUME NEW s \in Seq(Events), NEW i \in DOMAIN s
  PROVE  /\ RemoveAt(s, i) \in Seq(Events)
         /\ Cardinality(Ends(RemoveAt(s, i))) =< Cardinality(Ends(s))
         /\ \A x : Has(RemoveAt(s, i), x) => Has(s, x)
<1> DEFINE u == SubSeq(s, 1, i - 1)
           v == SubSeq(s, i + 1, Len(s))
           t == u \o v
<1>0. i \in 1 .. Len(s) /\ Len(s) \in Nat /\ \A j \in 1 .. Len(s) : s[j] \in Events
  OBVIOUS
<1>1. u \in Seq(Events) /\ Len(u) = i - 1 /\ \A j \in 1 .. (i - 1) : u[j] = s[j]
  BY <1>0, SubSeqProperties
<1>2. /\ v \in Seq(Events) /\ Len(v) = Len(s) - i
      /\ \A j \in 1 .. (Len(s) - i) : v[j] = s[i + j]
  <2>1. \A j \in i + 1 .. Len(s) : s[j] \in Events
    BY <1>0
  <2>2. /\ v \in Seq(Events)
        /\ Len(v) = IF i + 1 =< Len(s) THEN Len(s) - (i + 1) + 1 ELSE 0
        /\ \A j \in 1 .. Len(s) - (i + 1) + 1 : v[j] = s[(i + 1) + j - 1]
    BY <2>1, <1>0, SubSeqProperties
  <2> HIDE DEF v
  <2>3. QED
    BY <2>2, <1>0
<1> HIDE DEF u, v
<1>3. /\ t \in Seq(Events) /\ Len(t) = Len(s) - 1 /\ DOMAIN t = 1 .. (Len(s) - 1)
      /\ \A j \in 1 .. (Len(s) - 1) : t[j] = IF j =< i - 1 THEN u[j] ELSE v[j - (i - 1)]
  BY <1>0, <1>1, <1>2, ConcatProperties
<1> HIDE DEF t
<1>4. \A j \in DOMAIN t : t[j] = IF j < i THEN s[j] ELSE s[j + 1]
  <2> SUFFICES ASSUME NEW j \in 1 .. (Len(s) - 1)
               PROVE  t[j] = IF j < i THEN s[j] ELSE s[j + 1]
    BY <1>3
  <2>1. CASE j =< i - 1
    BY <2>1, <1>0, <1>1, <1>3
  <2>2. CASE j > i - 1
    <3>1. j - (i - 1) \in 1 .. (Len(s) - i) /\ i + (j - (i - 1)) = j + 1
      BY <2>2, <1>0
    <3>2. v[j - (i - 1)] = s[j + 1]
      BY <3>1, <1>2
    <3>3. QED
      BY <3>2, <2>2, <1>0, <1>3
  <2>3. QED
    BY <2>1, <2>2, <1>0
<1>5. Cardinality(Ends(s)) \in Nat /\ Cardinality(Ends(t)) \in Nat
  BY <1>3, EndsFinite
<1>6. /\ Cardinality(Ends(t)) = Cardinality(Ends(s)) - (IF s[i] \in BatchEnds THEN 1 ELSE 0)
      /\ \A x : Has(t, x) => Has(s, x)
  BY <1>3, <1>4, EndsRemove
<1>7. RemoveAt(s, i) = t
  BY DEF RemoveAt, t, u, v
<1>8. QED
  BY <1>3, <1>5, <1>6, <1>7

-----------------------------------------------------------------------------
(* Types. *)

\* TypeOK in groups the provers can handle: counters, enumerations, Booleans,
\* and the two structured variables.
Counters ==
  /\ due \in Nat /\ later \in Nat
  /\ waiting \in Nat /\ working \in Nat /\ calls \in Nat /\ releases \in Nat
  /\ disowned \in Nat /\ mishaps \in 0 .. MaxMishaps
Enumerations ==
  /\ state \in States
  /\ recorded \in {"recent", "old"} /\ seen \in {"recent", "old"}
  /\ sync \in {"insert", "publish", "done"}
  /\ flag \in {"none", "fresh", "stuck"}
  /\ lock \in Tasks \cup {"left", "none"}
  /\ activity \in {"none", "recent", "old"}

LEMMA TypeParts ==
  TypeOK <=> /\ Counters /\ Enumerations /\ open \in BOOLEAN
             /\ channel \in Seq(Events) /\ pc \in [Tasks -> Steps]
BY DEF TypeOK, Counters, Enumerations

LEMMA InFlightType ==
  ASSUME TypeOK
  PROVE  /\ InFlight \in Nat /\ UnderWay \in Nat
         /\ Cardinality(EndEvents) \in Nat /\ EndEvents = Ends(channel)
<1>1. EndEvents = Ends(channel) /\ channel \in Seq(Events)
  BY DEF TypeOK, EndEvents, Ends, BatchEnds
<1>2. Cardinality(EndEvents) \in Nat
  BY <1>1, EndsFinite
<1>3. QED
  BY <1>1, <1>2 DEF TypeOK, InFlight, UnderWay

LEMMA CounterStep == TypeOK /\ [Next]_vars => Counters'
<1> SUFFICES ASSUME TypeOK, [Next]_vars PROVE Counters'
  OBVIOUS
<1>0. /\ Counters /\ UnderWay \in Nat
      /\ AddRelease(releases) \in Nat /\ AddRelease(AddRelease(releases)) \in Nat
  <2>1. Counters /\ UnderWay \in Nat
    BY InFlightType, TypeParts
  <2>2. \A n \in Nat : AddRelease(n) \in Nat
    BY ReleasesAssumption DEF AddRelease
  <2>3. QED
    BY <2>1, <2>2 DEF Counters
<1> USE FaultAssumption, <1>0
<1> USE DEF Counters, Disown, Mishap, DropLock, ClearCampaignState, ReleaseLater, Leave, outside, memory,
        lockVars, jobVars, rowVars, taskVars
<1>1. ASSUME NEW p \in Tasks, ScheduleNextBatch(p) PROVE Counters'
  <2>1. CASE ReadCampaign(p)
    BY <2>1 DEF ReadCampaign
  <2>2. CASE PauseCampaign(p)
    BY <2>2 DEF PauseCampaign
  <2>3. CASE TellTripped(p)
    BY <2>3 DEF TellTripped
  <2>4. CASE CountWork(p)
    BY <2>4 DEF CountWork
  <2>5. CASE EnqueueBatch(p)
    BY <2>5 DEF EnqueueBatch
  <2>6. CASE MarkInProgress(p) \/ RecordActivity(p)
    BY <2>6 DEF MarkInProgress, RecordActivity
  <2>7. QED
    BY <1>1, <2>1, <2>2, <2>3, <2>4, <2>5, <2>6 DEF ScheduleNextBatch
<1>2. CASE HandleEvent
  <2>1. CASE HandleRetryNeeded
    BY <2>1 DEF HandleRetryNeeded
  <2>2. CASE HandleBatchCompleted
    BY <2>2 DEF HandleBatchCompleted
  <2>3. CASE AfterBatchCompleted
    BY <2>3 DEF AfterBatchCompleted, Enter
  <2>4. CASE HandleBatchFailed \/ HandleSyncCompleted \/ HandleTripped
    BY <2>4 DEF HandleBatchFailed, HandleSyncCompleted, HandleTripped, Enter
  <2>5. QED
    BY <1>2, <2>1, <2>2, <2>3, <2>4 DEF HandleEvent
<1>3. CASE Monitor
  <2>1. CASE ReadRunning \/ LookAtFlag \/ ConfirmCompletion \/ WriteCompleted \/ ForgetCampaign
    BY <2>1 DEF ReadRunning, LookAtFlag, ConfirmCompletion, WriteCompleted, ForgetCampaign
  <2>2. CASE CountAfterStuck
    BY <2>2 DEF CountAfterStuck, Enter
  <2>3. CASE CountOrphans
    BY <2>3 DEF CountOrphans, Enter
  <2>4. CASE ShouldMarkComplete
    BY <2>4 DEF ShouldMarkComplete
  <2>5. QED
    BY <1>3, <2>1, <2>2, <2>3, <2>4 DEF Monitor
<1>4. CASE Sync
  <2>1. SourceRows \in Nat
    BY RowsAssumption
  <2>2. CASE InsertRows
    BY <2>1, <2>2 DEF InsertRows
  <2>3. CASE PublishSyncCompleted
    BY <2>3 DEF PublishSyncCompleted
  <2>4. QED
    BY <1>4, <2>2, <2>3 DEF Sync
<1>5. CASE Jobs
  <2>1. CASE ClaimRows
    <3>1. PICK n \in Nat : n =< due /\ due' = due - n /\ calls' = calls + n
      BY <2>1, RowsAssumption DEF ClaimRows, SmallerOf
    <3>2. QED
      BY <2>1, <3>1 DEF ClaimRows
  <2>2. CASE ReportBatch
    BY <2>2 DEF ReportBatch
  <2>3. CASE DropJob
    BY <2>3 DEF DropJob
  <2>4. CASE CallUnanswered
    BY <2>4 DEF CallUnanswered
  <2>5. CASE RetryDue
    BY <2>5 DEF RetryDue
  <2>6. QED
    BY <1>5, <2>1, <2>2, <2>3, <2>4, <2>5 DEF Jobs
<1>6. CASE Users
  <2>1. CASE BreakerTrips
    BY <2>1 DEF BreakerTrips
  <2>2. CASE PauseByUser
    BY <2>2 DEF PauseByUser
  <2>3. CASE ResumeByUser
    BY <2>3 DEF ResumeByUser
  <2>4. QED
    BY <1>6, <2>1, <2>2, <2>3 DEF Users
<1>7. CASE Losses
  BY <1>7 DEF Losses, LoseEvent, Restart
<1>8. CASE Time
  <2>1. CASE LockExpires
    BY <2>1 DEF LockExpires
  <2>2. CASE ReleaseLock
    BY <2>2 DEF ReleaseLock
  <2>3. CASE FiveMinutesPass \/ HourPasses \/ CloseWindow \/ OpenWindow
    BY <2>3 DEF FiveMinutesPass, HourPasses, CloseWindow, OpenWindow
  <2>4. QED
    BY <1>8, <2>1, <2>2, <2>3 DEF Time
<1>9. CASE UNCHANGED vars
  BY <1>9 DEF vars
<1>10. QED
  BY <1>1, <1>2, <1>3, <1>4, <1>5, <1>6, <1>7, <1>8, <1>9 DEF Next, Orchestrate, Terminating

LEMMA EnumerationStep == Enumerations /\ [Next]_vars => Enumerations'
<1> SUFFICES ASSUME Enumerations, [Next]_vars PROVE Enumerations'
  OBVIOUS
<1> USE DEF Enumerations, States, Tasks, DropLock, ClearCampaignState, ReleaseLater, Leave, outside,
        memory, lockVars, jobVars, rowVars, taskVars
<1>1. ASSUME NEW p \in Tasks, ScheduleNextBatch(p) PROVE Enumerations'
  <2>1. CASE ReadCampaign(p) \/ CountWork(p)
    BY <2>1 DEF ReadCampaign, CountWork, Return, Returned
  <2>2. CASE PauseCampaign(p) \/ TellTripped(p)
    BY <2>2 DEF PauseCampaign, TellTripped, Return, Returned
  <2>3. CASE EnqueueBatch(p) \/ MarkInProgress(p) \/ RecordActivity(p)
    BY <2>3 DEF EnqueueBatch, MarkInProgress, RecordActivity, Return, Returned
  <2>4. QED
    BY <1>1, <2>1, <2>2, <2>3 DEF ScheduleNextBatch
<1>2. CASE HandleEvent
  BY <1>2 DEF HandleEvent, HandleRetryNeeded, HandleBatchCompleted, AfterBatchCompleted,
     HandleBatchFailed, HandleSyncCompleted, HandleTripped, Enter, Return, Returned
<1>3. CASE Monitor
  BY <1>3 DEF Monitor, ReadRunning, LookAtFlag, CountAfterStuck, CountOrphans,
     ShouldMarkComplete, ConfirmCompletion, WriteCompleted, ForgetCampaign,
     Enter, Return, Returned
<1>4. CASE Sync \/ Jobs
  BY <1>4 DEF Sync, InsertRows, PublishSyncCompleted, Jobs, ClaimRows, ReportBatch, DropJob,
     CallUnanswered, RetryDue
<1>5. CASE Users \/ Losses
  BY <1>5 DEF Users, BreakerTrips, PauseByUser, ResumeByUser, Losses, LoseEvent, Restart
<1>6. CASE Time
  BY <1>6 DEF Time, LockExpires, ReleaseLock, FiveMinutesPass, HourPasses, CloseWindow, OpenWindow
<1>7. CASE UNCHANGED vars
  BY <1>7 DEF vars
<1>8. QED
  BY <1>1, <1>2, <1>3, <1>4, <1>5, <1>6, <1>7 DEF Next, Orchestrate, Terminating

LEMMA OpenStep == open \in BOOLEAN /\ [Next]_vars => open' \in BOOLEAN
<1> SUFFICES ASSUME open \in BOOLEAN, [Next]_vars PROVE open' \in BOOLEAN
  OBVIOUS
<1> USE DEF outside, memory, jobVars, rowVars, taskVars
<1>1. ASSUME NEW p \in Tasks, ScheduleNextBatch(p) PROVE open' \in BOOLEAN
  BY <1>1 DEF ScheduleNextBatch, ReadCampaign, PauseCampaign, TellTripped, CountWork,
     EnqueueBatch, MarkInProgress, RecordActivity
<1>2. CASE HandleEvent
  BY <1>2 DEF HandleEvent, HandleRetryNeeded, HandleBatchCompleted, AfterBatchCompleted,
     HandleBatchFailed, HandleSyncCompleted, HandleTripped
<1>3. CASE Monitor
  BY <1>3 DEF Monitor, ReadRunning, LookAtFlag, CountAfterStuck, CountOrphans,
     ShouldMarkComplete, ConfirmCompletion, WriteCompleted, ForgetCampaign
<1>4. CASE Sync \/ Jobs
  BY <1>4 DEF Sync, InsertRows, PublishSyncCompleted, Jobs, ClaimRows, ReportBatch, DropJob,
     CallUnanswered, RetryDue
<1>5. CASE Users \/ Losses
  BY <1>5 DEF Users, BreakerTrips, PauseByUser, ResumeByUser, Losses, LoseEvent, Restart
<1>6. CASE Time
  BY <1>6 DEF Time, LockExpires, ReleaseLock, FiveMinutesPass, HourPasses, CloseWindow, OpenWindow
<1>7. CASE UNCHANGED vars
  BY <1>7 DEF vars
<1>8. QED
  BY <1>1, <1>2, <1>3, <1>4, <1>5, <1>6, <1>7 DEF Next, Orchestrate, Terminating

LEMMA ChannelStep == channel \in Seq(Events) /\ [Next]_vars => channel' \in Seq(Events)
<1> SUFFICES ASSUME channel \in Seq(Events), [Next]_vars PROVE channel' \in Seq(Events)
  OBVIOUS
<1> USE DEF outside, memory, jobVars, rowVars, taskVars
<1>1. ASSUME NEW e \in Events, Take(e) PROVE channel' \in Seq(Events)
  BY <1>1, EndsTail DEF Take
<1>2. ASSUME NEW e \in Events, channel' = Append(channel, e) PROVE channel' \in Seq(Events)
  BY <1>2, EndsAppend
<1>3. CASE HandleEvent
  BY <1>3, <1>1 DEF HandleEvent, HandleRetryNeeded, HandleBatchCompleted, AfterBatchCompleted,
     HandleBatchFailed, HandleSyncCompleted, HandleTripped, Events
<1>4. ASSUME NEW p \in Tasks, ScheduleNextBatch(p) PROVE channel' \in Seq(Events)
  BY <1>4, <1>2 DEF ScheduleNextBatch, ReadCampaign, PauseCampaign, TellTripped, CountWork,
     EnqueueBatch, MarkInProgress, RecordActivity, Events
<1>5. CASE Monitor
  BY <1>5 DEF Monitor, ReadRunning, LookAtFlag, CountAfterStuck, CountOrphans,
     ShouldMarkComplete, ConfirmCompletion, WriteCompleted, ForgetCampaign
<1>6. CASE Sync \/ Jobs
  <2>1. CASE InsertRows \/ ClaimRows \/ DropJob \/ RetryDue
    BY <2>1 DEF InsertRows, ClaimRows, DropJob, RetryDue
  <2>2. CASE PublishSyncCompleted
    BY <2>2, <1>2 DEF PublishSyncCompleted, Events
  <2>3. CASE ReportBatch
    BY <2>3, <1>2 DEF ReportBatch, Events
  <2>4. CASE CallUnanswered
    BY <2>4, <1>2 DEF CallUnanswered, Events
  <2>5. QED
    BY <1>6, <2>1, <2>2, <2>3, <2>4 DEF Sync, Jobs
<1>7. CASE Users \/ Restart
  <2>1. CASE BreakerTrips
    BY <2>1, <1>2 DEF BreakerTrips, Events
  <2>2. CASE PauseByUser \/ ResumeByUser
    BY <2>2 DEF PauseByUser, ResumeByUser
  <2>3. CASE Restart
    BY <2>3 DEF Restart
  <2>4. QED
    BY <1>7, <2>1, <2>2, <2>3 DEF Users
<1>8. CASE LoseEvent
  BY <1>8, EndsRemoveAt DEF LoseEvent
<1>9. CASE Time
  BY <1>9 DEF Time, LockExpires, ReleaseLock, FiveMinutesPass, HourPasses, CloseWindow, OpenWindow
<1>10. CASE UNCHANGED vars
  BY <1>10 DEF vars
<1>11. QED
  BY <1>3, <1>4, <1>5, <1>6, <1>7, <1>8, <1>9, <1>10 DEF Next, Orchestrate, Losses, Terminating

LEMMA TaskStep == pc \in [Tasks -> Steps] /\ [Next]_vars => pc' \in [Tasks -> Steps]
<1> SUFFICES ASSUME pc \in [Tasks -> Steps], [Next]_vars PROVE pc' \in [Tasks -> Steps]
  OBVIOUS
<1> USE DEF outside, memory, jobVars, rowVars, taskVars, Steps, MayEnqueue
<1>1. ASSUME NEW p \in Tasks, ScheduleNextBatch(p) PROVE pc' \in [Tasks -> Steps]
  BY <1>1 DEF ScheduleNextBatch, ReadCampaign, PauseCampaign, TellTripped, CountWork,
     EnqueueBatch, MarkInProgress, RecordActivity, Leave, Return, Goto
<1>2. CASE HandleEvent
  BY <1>2 DEF HandleEvent, HandleRetryNeeded, HandleBatchCompleted, AfterBatchCompleted,
     HandleBatchFailed, HandleSyncCompleted, HandleTripped, Enter, Return, Goto
<1>3. CASE Monitor
  BY <1>3 DEF Monitor, ReadRunning, LookAtFlag, CountAfterStuck, CountOrphans,
     ShouldMarkComplete, ConfirmCompletion, WriteCompleted, ForgetCampaign,
     Enter, Return, Goto
<1>4. CASE Sync \/ Jobs
  BY <1>4 DEF Sync, InsertRows, PublishSyncCompleted, Jobs, ClaimRows, ReportBatch, DropJob,
     CallUnanswered, RetryDue
<1>5. CASE Users \/ Losses
  BY <1>5 DEF Users, BreakerTrips, PauseByUser, ResumeByUser, Losses, LoseEvent, Restart
<1>6. CASE Time
  BY <1>6 DEF Time, LockExpires, ReleaseLock, FiveMinutesPass, HourPasses, CloseWindow, OpenWindow
<1>7. CASE UNCHANGED vars
  BY <1>7 DEF vars
<1>8. QED
  BY <1>1, <1>2, <1>3, <1>4, <1>5, <1>6, <1>7 DEF Next, Orchestrate, Terminating

\* Every variable keeps its type, whatever is lost, restarted or slow (TypeOK of
\* CampaignOrchestrator).
THEOREM TypeCorrect == Spec => []TypeOK
<1>1. Init => TypeOK
  <2>1. Init => Counters
    BY FaultAssumption DEF Init, Counters
  <2>2. Init => Enumerations /\ open \in BOOLEAN
    BY DEF Init, Enumerations, States
  <2>3. Init => channel \in Seq(Events) /\ pc \in [Tasks -> Steps]
    BY DEF Init, Steps
  <2>4. QED
    BY <2>1, <2>2, <2>3, TypeParts
<1>2. TypeOK /\ [Next]_vars => TypeOK'
  <2>1. TypeOK' <=> /\ Counters' /\ Enumerations' /\ open' \in BOOLEAN
                    /\ channel' \in Seq(Events) /\ pc' \in [Tasks -> Steps]
    BY DEF TypeOK, Counters, Enumerations
  <2>2. QED
    BY <2>1, TypeParts, CounterStep, EnumerationStep, OpenStep, ChannelStep, TaskStep
<1>3. QED
  BY <1>1, <1>2, PTL DEF Spec

-----------------------------------------------------------------------------
(* Batches and their owners.  Load counts the batches in flight and the     *)
(* tasks that may enqueue one; Free is the case in which somebody may pass  *)
(* the lock next, and then one batch less is in flight.                     *)

Count(s) == Cardinality(Ends(s))
Busy(p) == IF pc[p] \in MayEnqueue THEN 1 ELSE 0
Load == waiting + working + Count(channel) + Busy("listener") + Busy("monitor")
Free ==
  \/ flag = "none" /\ \A p \in Tasks : pc[p] \notin MayEnqueue \cup {"mark"}
  \/ lock = "none" /\ OnlyLock
Owned == Load =< 1 + disowned /\ (Free => Load =< disowned)

LEMMA LoadType ==
  ASSUME TypeOK
  PROVE  /\ Load \in Nat /\ disowned \in Nat /\ Load >= InFlight
         /\ waiting \in Nat /\ working \in Nat /\ Count(channel) \in Nat
         /\ InFlight = waiting + working + Count(channel)
         /\ Busy("listener") \in 0 .. 1 /\ Busy("monitor") \in 0 .. 1
<1>1. InFlight = waiting + working + Count(channel) /\ Count(channel) \in Nat
  BY InFlightType DEF InFlight, Count
<1>2. waiting \in Nat /\ working \in Nat /\ disowned \in Nat
  BY DEF TypeOK
<1>3. Busy("listener") \in 0 .. 1 /\ Busy("monitor") \in 0 .. 1
  BY DEF Busy
<1>4. QED
  BY <1>1, <1>2, <1>3 DEF Load

\* The same of the next state.
LEMMA LoadTypeNext ==
  TypeOK' =>
    /\ Load' \in Nat
    /\ waiting' \in Nat /\ working' \in Nat /\ Count(channel') \in Nat
    /\ Busy("listener")' \in 0 .. 1 /\ Busy("monitor")' \in 0 .. 1
<1> DEFINE Types ==
      /\ Load \in Nat
      /\ waiting \in Nat /\ working \in Nat /\ Count(channel) \in Nat
      /\ Busy("listener") \in 0 .. 1 /\ Busy("monitor") \in 0 .. 1
<1>1. TypeOK => Types
  BY LoadType
<1> HIDE DEF Types
<1>2. TypeOK' => Types'
  BY <1>1, PTL
<1>3. QED
  BY <1>2 DEF Types

LEMMA LoadIsUnderWay == ASSUME TypeOK PROVE UnderWay = Load
<1>1. \A p \in Tasks : p \in Reserved <=> pc[p] \in MayEnqueue
  BY DEF Reserved
<1>2. QED
  BY <1>1, LoadType DEF UnderWay, Load, Busy, Tasks

LEMMA OwnedIsInvariant == ASSUME TypeOK PROVE BatchesHaveOwners <=> Owned
BY LoadIsUnderWay DEF BatchesHaveOwners, Owned, Free, OnlyLock

\* Nobody is added, and nobody gets a chance he had not.
LEMMA KeepsOwned ==
  ASSUME TypeOK, TypeOK', Owned, disowned' = disowned, Load' =< Load, Free' => Free
  PROVE  Owned'
<1>1. Load \in Nat /\ Load' \in Nat /\ disowned \in Nat
  BY LoadType, LoadTypeNext
<1>2. QED
  BY <1>1 DEF Owned

\* Somebody is gone.
LEMMA LowersLoad ==
  ASSUME TypeOK, TypeOK', Owned, disowned' = disowned, Load' =< Load - 1
  PROVE  Owned'
<1>1. Load \in Nat /\ Load' \in Nat /\ disowned \in Nat
  BY LoadType, LoadTypeNext
<1>2. QED
  BY <1>1 DEF Owned

\* What is under way was disowned.
LEMMA Disowns ==
  ASSUME TypeOK, TypeOK', Owned, Disown(TRUE), Load' =< Load
  PROVE  Owned'
<1>0. disowned' \in Nat
  BY DEF TypeOK
<1>1. Load \in Nat /\ Load' \in Nat /\ disowned \in Nat /\ disowned' \in Nat /\ UnderWay = Load
  BY <1>0, LoadType, LoadTypeNext, LoadIsUnderWay
<1>2. disowned' = IF Load > disowned THEN Load ELSE disowned
  BY <1>1 DEF Disown
<1>3. Load' =< 1 + disowned' /\ Load' =< disowned'
  BY <1>1, <1>2 DEF Disown
<1>4. QED
  BY <1>3 DEF Owned

\* A step of one task, and what else Load is made of.
LEMMA GotoBusy ==
  ASSUME TypeOK, NEW p \in Tasks, NEW from \in Steps, NEW to \in Steps, Goto(p, from, to)
  PROVE  /\ pc[p] = from /\ pc'[p] = to
         /\ \A q \in Tasks : q # p => pc'[q] = pc[q]
         /\ Busy(p) = (IF from \in MayEnqueue THEN 1 ELSE 0)
         /\ Busy(p)' = (IF to \in MayEnqueue THEN 1 ELSE 0)
         /\ \A q \in Tasks : q # p => Busy(q)' = Busy(q)
<1>1. pc \in [Tasks -> Steps]
  BY DEF TypeOK
<1>2. pc[p] = from /\ pc'[p] = to /\ \A q \in Tasks : q # p => pc'[q] = pc[q]
  BY <1>1 DEF Goto
<1>3. QED
  BY <1>2 DEF Busy

\* The part of the jobs and of the events.
LEMMA LoadSum ==
  ASSUME TypeOK, TypeOK'
  PROVE  /\ Load = waiting + working + Count(channel) + Busy("listener") + Busy("monitor")
         /\ Load' = waiting' + working' + Count(channel') + Busy("listener")' + Busy("monitor")'
         /\ waiting \in Nat /\ working \in Nat /\ Count(channel) \in Nat
         /\ waiting' \in Nat /\ working' \in Nat /\ Count(channel') \in Nat
         /\ Busy("listener") \in 0 .. 1 /\ Busy("monitor") \in 0 .. 1
         /\ Busy("listener")' \in 0 .. 1 /\ Busy("monitor")' \in 0 .. 1
<1>1. /\ waiting \in Nat /\ working \in Nat /\ Count(channel) \in Nat
      /\ Busy("listener") \in 0 .. 1 /\ Busy("monitor") \in 0 .. 1
  BY LoadType
<1>2. /\ waiting' \in Nat /\ working' \in Nat /\ Count(channel') \in Nat
      /\ Busy("listener")' \in 0 .. 1 /\ Busy("monitor")' \in 0 .. 1
  BY LoadTypeNext
<1>3. QED
  BY <1>1, <1>2 DEF Load

\* An event nobody waits for, an event that is taken, and one that is lost.
LEMMA Published ==
  ASSUME TypeOK, NEW e \in {"tripped", "retryNeeded"}, channel' = Append(channel, e), sync' = sync
  PROVE  Count(channel') = Count(channel) /\ (SyncAhead' => SyncAhead)
<1>1. channel \in Seq(Events) /\ e \in Events /\ e \notin BatchEnds /\ e # "syncCompleted"
  BY DEF TypeOK, Events, BatchEnds
<1>2. Cardinality(Ends(channel)) \in Nat
  BY <1>1, EndsFinite
<1>3. Count(channel') = Count(channel) /\ (Has(channel', "syncCompleted") => Has(channel, "syncCompleted"))
  BY <1>1, <1>2, EndsAppend DEF Count
<1>4. SyncAhead' <=> sync' # "done" \/ Has(channel', "syncCompleted")
  BY DEF SyncAhead, Has
<1>5. QED
  BY <1>3, <1>4 DEF SyncAhead, Has

LEMMA Taken ==
  ASSUME TypeOK, NEW e, Take(e), sync' = sync
  PROVE  /\ Count(channel') = Count(channel) - (IF e \in BatchEnds THEN 1 ELSE 0)
         /\ SyncAhead' => SyncAhead
         /\ Has(channel, e)
<1>1. channel \in Seq(Events) /\ channel # <<>> /\ Head(channel) = e /\ channel' = Tail(channel)
  BY DEF TypeOK, Take
<1>2. /\ Count(channel') = Count(channel) - (IF e \in BatchEnds THEN 1 ELSE 0)
      /\ Has(channel', "syncCompleted") => Has(channel, "syncCompleted")
  BY <1>1, EndsTail DEF Count
<1>3. Has(channel, e)
  BY <1>1 DEF Has
<1>4. SyncAhead' <=> sync' # "done" \/ Has(channel', "syncCompleted")
  BY DEF SyncAhead, Has
<1>5. QED
  BY <1>2, <1>3, <1>4 DEF SyncAhead, Has

\* Whoever passes the lock takes the place that is free.
LEMMA EnterStep ==
  ASSUME TypeOK, TypeOK', Owned, NEW p \in Tasks, NEW from \in Steps \ MayEnqueue, Enter(p, from),
         from # "mark", lock = "none" => Free, UNCHANGED <<waiting, working, flag, disowned>>,
         Count(channel') = Count(channel), SyncAhead' => SyncAhead
  PROVE  Owned'
<1>1. CASE Locked /\ Return(p, from) /\ UNCHANGED lockVars
  <2>1. Goto(p, from, "idle") /\ lock # "none" /\ lock' # "none"
    BY <1>1 DEF Return, Locked, lockVars
  <2>2. Busy("listener")' = Busy("listener") /\ Busy("monitor")' = Busy("monitor")
    BY <2>1, GotoBusy DEF Tasks, Steps, MayEnqueue
  <2>3. Load' = Load
    BY <2>2, LoadSum
  <2>4. Free' => Free
    BY <2>1, GotoBusy DEF Free, Steps, MayEnqueue
  <2>5. QED
    BY <2>3, <2>4, LoadType, KeepsOwned
<1>2. CASE ~Locked /\ Goto(p, from, "read") /\ lock' = p
  <2>1. /\ Busy(p) = 0 /\ Busy(p)' = 1
        /\ \A q \in Tasks : q # p => Busy(q)' = Busy(q)
    BY <1>2, GotoBusy DEF Steps, MayEnqueue
  <2>2. /\ Busy("listener")' + Busy("monitor")' = Busy("listener") + Busy("monitor") + 1
    BY <2>1, LoadSum DEF Tasks
  <2>3. Load' = Load + 1
    BY <2>2, LoadSum
  <2>4. ~Free' /\ Load =< disowned
    <3>1. pc'[p] \in MayEnqueue /\ lock' # "none" /\ lock = "none"
      BY <1>2, GotoBusy DEF Locked, Tasks, Steps, MayEnqueue
    <3>2. QED
      BY <3>1 DEF Free, Owned
  <2>5. QED
    BY <2>3, <2>4, LoadType DEF Owned
<1>3. QED
  BY <1>1, <1>2 DEF Enter

\* A task that moves on without a change of its claim to a batch, or drops it.
LEMMA GotoStep ==
  ASSUME TypeOK, TypeOK', Owned, NEW p \in Tasks, NEW from \in Steps, NEW to \in Steps,
         Goto(p, from, to), UNCHANGED <<waiting, working, channel, sync, flag, disowned>>,
         to \in MayEnqueue => from \in MayEnqueue
  PROVE  \/ from \in MayEnqueue /\ to \notin MayEnqueue /\ Owned'
         \/ (from \in MayEnqueue <=> to \in MayEnqueue) /\ ((Free' => Free) => Owned')
<1>1. Count(channel') = Count(channel) /\ (SyncAhead' <=> SyncAhead)
  BY DEF SyncAhead, Has
<1>2. CASE from \in MayEnqueue /\ to \notin MayEnqueue
  <2>1. Busy("listener")' + Busy("monitor")' = Busy("listener") + Busy("monitor") - 1
    BY <1>2, GotoBusy, LoadSum DEF Tasks
  <2>2. Load' = Load - 1
    BY <1>1, <2>1, LoadSum
  <2>3. QED
    BY <1>2, <2>2, LoadType, LowersLoad
<1>3. CASE from \in MayEnqueue <=> to \in MayEnqueue
  <2>1. Busy("listener")' = Busy("listener") /\ Busy("monitor")' = Busy("monitor")
    BY <1>3, GotoBusy DEF Tasks
  <2>2. Load' = Load
    BY <1>1, <2>1, LoadSum
  <2>3. QED
    BY <1>3, <2>2, LoadType, KeepsOwned
<1>4. QED
  BY <1>2, <1>3

\* A step of neither task.
LEMMA OtherStep ==
  ASSUME TypeOK, TypeOK', Owned, UNCHANGED <<pc, disowned>>,
         waiting' + working' + Count(channel') =< waiting + working + Count(channel),
         Free' => Free
  PROVE  Owned'
<1>1. Busy("listener")' = Busy("listener") /\ Busy("monitor")' = Busy("monitor")
  BY DEF Busy
<1>2. Load' =< Load
  BY <1>1, LoadSum
<1>3. QED
  BY <1>2, LoadType, KeepsOwned

\* All memory of the campaign is dropped.
LEMMA ForgetStep ==
  ASSUME TypeOK, TypeOK', Owned, Disown(TRUE), UNCHANGED <<waiting, working>>,
         Count(channel') =< Count(channel),
         Busy("listener")' =< Busy("listener"), Busy("monitor")' =< Busy("monitor")
  PROVE  Owned'
<1>1. Load' =< Load
  BY LoadSum
<1>2. QED
  BY <1>1, Disowns

\* A task leaves _schedule_next_batch: nobody stands where the lock counts.
LEMMA LeaveStep ==
  ASSUME TypeOK, TypeOK', Owned, NEW p \in Tasks, NEW from \in Steps \ {"mark"}, Leave(p, from),
         UNCHANGED <<waiting, working, channel, sync, flag, disowned>>
  PROVE  Owned'
<1>1. Goto(p, from, "idle") /\ (lock' = "none" <=> lock = "none")
  BY DEF Leave, Return, ReleaseLater, Tasks
<1>2. SyncAhead' <=> SyncAhead
  BY DEF SyncAhead
<1>3. from \notin MayEnqueue => (Free' => Free)
  BY <1>1, <1>2, GotoBusy DEF Free, OnlyLock, Steps, Tasks
<1>4. QED
  BY <1>1, <1>3, GotoStep DEF Steps, MayEnqueue

LEMMA ScheduleStep ==
  ASSUME TypeOK, TypeOK', Owned, NEW p \in Tasks, ScheduleNextBatch(p)
  PROVE  Owned'
<1> USE DEF jobVars
<1>1. ASSUME NEW from \in Steps \ {"mark"}, NEW to \in Steps, Goto(p, from, to),
             UNCHANGED <<waiting, working, channel, sync, flag, lock, disowned>>,
             to \in MayEnqueue => from \in MayEnqueue,
             to \notin {"stuck", "count", "completed"}
      PROVE  Owned'
  <2>1. (from \in MayEnqueue <=> to \in MayEnqueue) => (Free' => Free)
    BY <1>1, GotoBusy DEF Free, OnlyLock, SyncAhead, Tasks
  <2>2. QED
    BY <1>1, <2>1, GotoStep
<1>2. CASE ReadCampaign(p)
  <2>1. CASE Goto(p, "read", "pending") /\ UNCHANGED lock
    BY <1>1, <1>2, <2>1 DEF ReadCampaign, Steps, MayEnqueue
  <2>2. CASE Goto(p, "read", "trip") /\ UNCHANGED lock
    BY <1>1, <1>2, <2>2 DEF ReadCampaign, Steps, MayEnqueue
  <2>3. CASE Leave(p, "read")
    BY <1>2, <2>3, LeaveStep DEF ReadCampaign, Steps, MayEnqueue
  <2>4. QED
    BY <1>2, <2>1, <2>2, <2>3 DEF ReadCampaign, lockVars
<1>3. CASE PauseCampaign(p)
  <2>1. CASE Goto(p, "trip", "tell") /\ UNCHANGED lock
    BY <1>1, <1>3, <2>1 DEF PauseCampaign, Steps, MayEnqueue
  <2>2. CASE Leave(p, "trip")
    BY <1>3, <2>2, LeaveStep DEF PauseCampaign, Steps
  <2>3. QED
    BY <1>3, <2>1, <2>2 DEF PauseCampaign, lockVars
<1>4. CASE TellTripped(p)
  <2>1. CASE Goto(p, "tell", "idle") /\ channel' = Append(channel, "tripped") /\ Disown(TRUE)
    <3>1. Count(channel') = Count(channel)
      BY <1>4, <2>1, Published DEF TellTripped
    <3>2. Busy("listener")' = Busy("listener") /\ Busy("monitor")' = Busy("monitor")
      BY <2>1, GotoBusy DEF Steps, MayEnqueue, Tasks
    <3>3. QED
      BY <1>4, <2>1, <3>1, <3>2, LoadSum, ForgetStep DEF TellTripped
  <2>2. CASE Leave(p, "tell") /\ UNCHANGED <<channel, flag, disowned>>
    BY <1>4, <2>2, LeaveStep DEF TellTripped, Steps
  <2>3. QED
    BY <1>4, <2>1, <2>2 DEF TellTripped
<1>5. CASE CountWork(p)
  <2>1. CASE Goto(p, "pending", "enqueue") /\ UNCHANGED lock
    BY <1>1, <1>5, <2>1 DEF CountWork, Steps, MayEnqueue
  <2>2. CASE Leave(p, "pending")
    BY <1>5, <2>2, LeaveStep DEF CountWork, Steps, MayEnqueue
  <2>3. QED
    BY <1>5, <2>1, <2>2 DEF CountWork, lockVars
<1>6. CASE EnqueueBatch(p)
  <2>1. \E to \in {"mark", "idle"} : Goto(p, "enqueue", to)
    BY <1>6 DEF EnqueueBatch, Leave, Return
  <2>2. Busy("listener")' + Busy("monitor")' = Busy("listener") + Busy("monitor") - 1
    BY <2>1, GotoBusy, LoadSum DEF Steps, MayEnqueue, Tasks
  <2>3. UNCHANGED <<working, channel, sync, flag>>
    BY <1>6 DEF EnqueueBatch
  <2>4. CASE Goto(p, "enqueue", "mark") /\ waiting' = waiting + 1 /\ UNCHANGED <<lock, disowned>>
    <3>1. Load' = Load
      BY <2>2, <2>3, <2>4, LoadSum
    <3>2. Free' => Free
      BY <2>3, <2>4, GotoBusy DEF Free, OnlyLock, SyncAhead, Steps, MayEnqueue, Tasks
    <3>3. QED
      BY <2>4, <3>1, <3>2, LoadType, KeepsOwned
  <2>5. CASE waiting' = waiting /\ Disown(waiting' > waiting)
    <3>1. Load' = Load - 1
      BY <2>2, <2>3, <2>5, LoadSum
    <3>2. disowned' = disowned
      BY <2>5, LoadSum DEF Disown
    <3>3. QED
      BY <3>1, <3>2, LoadType, LowersLoad
  <2>6. CASE waiting' = waiting + 1 /\ Disown(waiting' > waiting)
    <3>1. Load' = Load
      BY <2>2, <2>3, <2>6, LoadSum
    <3>2. Disown(TRUE)
      BY <2>6, LoadSum DEF Disown
    <3>3. QED
      BY <3>1, <3>2, LoadType, Disowns
  <2>7. QED
    BY <1>6, <2>4, <2>5, <2>6 DEF EnqueueBatch, lockVars
<1>7. CASE MarkInProgress(p)
  <2>1. /\ Goto(p, "mark", "stamp") /\ flag' = "fresh"
        /\ UNCHANGED <<waiting, working, channel, sync, lock, disowned>>
    BY <1>7 DEF MarkInProgress, lockVars
  <2>2. Busy("listener")' = Busy("listener") /\ Busy("monitor")' = Busy("monitor")
    BY <2>1, GotoBusy DEF Steps, MayEnqueue, Tasks
  <2>3. Load' = Load
    BY <2>1, <2>2, LoadSum
  <2>4. Free' => Free
    BY <2>1, GotoBusy DEF Free, OnlyLock, SyncAhead, Steps, Tasks
  <2>5. QED
    BY <2>1, <2>3, <2>4, LoadType, KeepsOwned
<1>8. CASE RecordActivity(p)
  BY <1>8, LeaveStep DEF RecordActivity, Steps
<1>9. QED
  BY <1>2, <1>3, <1>4, <1>5, <1>6, <1>7, <1>8 DEF ScheduleNextBatch

LEMMA HandleStep ==
  ASSUME TypeOK, TypeOK', Owned, HandleEvent
  PROVE  Owned'
<1> USE DEF jobVars, taskVars, memory, lockVars
<1>1. CASE HandleRetryNeeded
  <2>1. Count(channel') = Count(channel) /\ (SyncAhead' => SyncAhead)
    BY <1>1, Taken, LoadSum DEF HandleRetryNeeded, BatchEnds
  <2>2. Free' => Free
    BY <1>1, <2>1 DEF HandleRetryNeeded, Free, OnlyLock, Busy
  <2>3. QED
    BY <1>1, <2>1, <2>2, LoadSum, OtherStep DEF HandleRetryNeeded
<1>2. CASE HandleBatchCompleted
  <2>1. Count(channel') = Count(channel) - 1
    BY <1>2, Taken DEF HandleBatchCompleted, BatchEnds
  <2>2. Busy("listener")' = Busy("listener") /\ Busy("monitor")' = Busy("monitor")
    BY <1>2, GotoBusy DEF HandleBatchCompleted, Steps, MayEnqueue, Tasks
  <2>3. Load' = Load - 1
    BY <1>2, <2>1, <2>2, LoadSum DEF HandleBatchCompleted
  <2>4. QED
    BY <1>2, <2>3, LoadType, LowersLoad DEF HandleBatchCompleted
<1>3. CASE AfterBatchCompleted
  <2>0. UNCHANGED <<waiting, working, sync, channel>>
    BY <1>3 DEF AfterBatchCompleted
  <2>1. Count(channel') = Count(channel) /\ (SyncAhead' <=> SyncAhead)
    BY <2>0 DEF SyncAhead, Has
  <2>2. CASE Enter("listener", "completed") /\ UNCHANGED <<flag, disowned>>
    <3>1. pc["listener"] = "completed"
      BY <2>2 DEF Enter, Return, Goto
    <3>2. lock = "none" => Free
      BY <3>1 DEF Free, OnlyLock
    <3>3. QED
      BY <2>0, <2>1, <2>2, <3>2, EnterStep DEF Steps, MayEnqueue, Tasks
  <2>3. CASE Goto("listener", "completed", "idle") /\ Disown(TRUE)
    <3>1. Busy("listener")' = Busy("listener") /\ Busy("monitor")' = Busy("monitor")
      BY <2>3, GotoBusy DEF Steps, MayEnqueue, Tasks
    <3>2. QED
      BY <2>0, <2>1, <2>3, <3>1, LoadSum, ForgetStep
  <2>4. CASE Goto("listener", "completed", "idle") /\ UNCHANGED <<memory, disowned>>
    <3>1. Free' => Free
      BY <2>1, <2>4, GotoBusy DEF Free, OnlyLock, Steps, MayEnqueue, Tasks
    <3>2. QED
      BY <2>0, <2>4, <3>1, GotoStep DEF Steps, MayEnqueue, Tasks
  <2>5. QED
    BY <1>3, <2>2, <2>3, <2>4 DEF AfterBatchCompleted
<1>4. CASE HandleBatchFailed
  <2>1. Count(channel') = Count(channel) - 1
    BY <1>4, Taken DEF HandleBatchFailed, BatchEnds
  <2>2. Busy("listener")' = Busy("listener") /\ Busy("monitor")' = Busy("monitor")
    BY <1>4 DEF HandleBatchFailed, Busy
  <2>3. Load' = Load - 1
    BY <1>4, <2>1, <2>2, LoadSum DEF HandleBatchFailed
  <2>4. QED
    BY <1>4, <2>3, LoadType, LowersLoad DEF HandleBatchFailed
<1>5. CASE HandleSyncCompleted
  <2>1. /\ Count(channel') = Count(channel) /\ (SyncAhead' => SyncAhead)
        /\ Has(channel, "syncCompleted")
    BY <1>5, Taken, LoadSum DEF HandleSyncCompleted, BatchEnds
  <2>2. lock = "none" => Free
    BY <2>1 DEF Free, OnlyLock, SyncAhead, Has
  <2>3. QED
    BY <1>5, <2>1, <2>2, EnterStep DEF HandleSyncCompleted, Steps, MayEnqueue, Tasks
<1>6. CASE HandleTripped
  <2>1. Count(channel') = Count(channel)
    BY <1>6, Taken, LoadSum DEF HandleTripped, BatchEnds
  <2>2. Busy("listener")' = Busy("listener") /\ Busy("monitor")' = Busy("monitor")
    BY <1>6 DEF HandleTripped, Busy
  <2>3. QED
    BY <1>6, <2>1, <2>2, LoadSum, ForgetStep DEF HandleTripped
<1>7. QED
  BY <1>1, <1>2, <1>3, <1>4, <1>5, <1>6 DEF HandleEvent

LEMMA MonitorStep ==
  ASSUME TypeOK, TypeOK', Owned, Monitor
  PROVE  Owned'
<1> USE DEF jobVars, memory, lockVars
<1>1. ASSUME NEW from \in Steps \ MayEnqueue, NEW to \in Steps \ MayEnqueue,
             from # "mark", Goto("monitor", from, to),
             UNCHANGED <<waiting, working, channel, sync, flag, lock, disowned>>,
             \/ to \notin {"stuck", "count"}
             \/ from \in {"stuck", "count"}
             \/ flag = "none"
      PROVE  Owned'
  <2>1. Free' => Free
    BY <1>1, GotoBusy DEF Free, OnlyLock, SyncAhead, Has, Tasks
  <2>2. QED
    BY <1>1, <2>1, GotoStep DEF Tasks
<1>2. ASSUME NEW from \in {"stuck", "count"}, Enter("monitor", from),
             UNCHANGED <<waiting, working, channel, sync, flag, disowned>>
      PROVE  Owned'
  <2>1. pc["monitor"] = from
    BY <1>2 DEF Enter, Return, Goto
  <2>2. lock = "none" => Free
    BY <2>1 DEF Free, OnlyLock
  <2>3. Count(channel') = Count(channel) /\ (SyncAhead' <=> SyncAhead)
    BY <1>2 DEF SyncAhead, Has
  <2>4. QED
    BY <1>2, <2>2, <2>3, EnterStep DEF Steps, MayEnqueue, Tasks
<1>3. CASE ReadRunning
  BY <1>3, <1>1 DEF ReadRunning, Steps, MayEnqueue
<1>4. CASE LookAtFlag
  <2>1. CASE flag' # flag
    <3>1. \E to \in Steps \ MayEnqueue : Goto("monitor", "look", to)
      BY <1>4 DEF LookAtFlag, Steps, MayEnqueue
    <3>2. Busy("listener")' = Busy("listener") /\ Busy("monitor")' = Busy("monitor")
      BY <3>1, GotoBusy DEF Steps, MayEnqueue, Tasks
    <3>3. Disown(TRUE) /\ UNCHANGED <<waiting, working, channel>>
      BY <1>4, <2>1 DEF LookAtFlag, Disown
    <3>4. QED
      BY <3>2, <3>3, LoadSum, ForgetStep
  <2>2. CASE flag' = flag
    <3>1. UNCHANGED <<waiting, working, channel, sync, flag, lock, disowned>>
      BY <1>4, <2>2 DEF LookAtFlag, Disown
    <3>2. \/ Goto("monitor", "look", "count") /\ flag = "none"
          \/ Goto("monitor", "look", "idle")
      BY <1>4, <2>2 DEF LookAtFlag, TooOld, InProgress
    <3>3. QED
      BY <1>1, <3>1, <3>2 DEF Steps, MayEnqueue
  <2>3. QED
    BY <2>1, <2>2
<1>5. CASE CountAfterStuck
  <2>1. CASE Enter("monitor", "stuck")
    BY <1>5, <2>1, <1>2 DEF CountAfterStuck
  <2>2. CASE (Goto("monitor", "stuck", "idle") \/ Goto("monitor", "stuck", "count")) /\ UNCHANGED lock
    BY <1>5, <2>2, <1>1 DEF CountAfterStuck, Steps, MayEnqueue
  <2>3. QED
    BY <1>5, <2>1, <2>2 DEF CountAfterStuck
<1>6. CASE CountOrphans
  <2>1. CASE Enter("monitor", "count")
    BY <1>6, <2>1, <1>2 DEF CountOrphans
  <2>2. CASE (Goto("monitor", "count", "idle") \/ Goto("monitor", "count", "decide")) /\ UNCHANGED lock
    BY <1>6, <2>2, <1>1 DEF CountOrphans, Steps, MayEnqueue
  <2>3. QED
    BY <1>6, <2>1, <2>2 DEF CountOrphans
<1>7. CASE ShouldMarkComplete
  BY <1>7, <1>1 DEF ShouldMarkComplete, Steps, MayEnqueue
<1>8. CASE ConfirmCompletion
  BY <1>8, <1>1 DEF ConfirmCompletion, Steps, MayEnqueue
<1>9. CASE WriteCompleted
  BY <1>9, <1>1 DEF WriteCompleted, Steps, MayEnqueue
<1>10. CASE ForgetCampaign
  <2>1. Busy("listener")' = Busy("listener") /\ Busy("monitor")' = Busy("monitor")
    BY <1>10, GotoBusy DEF ForgetCampaign, Steps, MayEnqueue, Tasks
  <2>2. QED
    BY <1>10, <2>1, LoadSum, ForgetStep DEF ForgetCampaign
<1>11. QED
  BY <1>3, <1>4, <1>5, <1>6, <1>7, <1>8, <1>9, <1>10 DEF Monitor

LEMMA OutsideStep ==
  ASSUME TypeOK, TypeOK', Owned, Sync \/ Jobs \/ Users
  PROVE  Owned'
<1> USE DEF outside, memory, lockVars, jobVars, taskVars
<1>1. UNCHANGED <<pc, disowned, flag, lock>>
  BY DEF Sync, Jobs, Users, InsertRows, PublishSyncCompleted, ClaimRows, ReportBatch, DropJob,
     CallUnanswered, RetryDue, BreakerTrips, PauseByUser, ResumeByUser
<1>2. ASSUME waiting' + working' + Count(channel') =< waiting + working + Count(channel),
             SyncAhead' => SyncAhead
      PROVE  Owned'
  <2>1. Free' => Free
    BY <1>1, <1>2 DEF Free, OnlyLock, Busy
  <2>2. QED
    BY <1>1, <1>2, <2>1, OtherStep
<1>3. ASSUME UNCHANGED channel
      PROVE  Count(channel') = Count(channel) /\ (Has(channel', "syncCompleted") <=> Has(channel, "syncCompleted"))
  BY <1>3 DEF Has
<1>4. ASSUME UNCHANGED <<channel, sync>>
      PROVE  SyncAhead' <=> SyncAhead
  BY <1>4 DEF SyncAhead, Has
<1>5. CASE InsertRows
  <2>1. SyncAhead
    BY <1>5 DEF InsertRows, SyncAhead, Has
  <2>2. QED
    BY <1>5, <2>1, <1>2, <1>3, LoadSum DEF InsertRows
<1>6. CASE PublishSyncCompleted
  <2>1. SyncAhead
    BY <1>6 DEF PublishSyncCompleted, SyncAhead, Has
  <2>2. Count(channel') = Count(channel)
    BY <1>6, EndsAppend, LoadSum DEF PublishSyncCompleted, Count, TypeOK, Events, BatchEnds
  <2>3. QED
    BY <1>6, <2>1, <2>2, <1>2, LoadSum DEF PublishSyncCompleted
<1>7. CASE ClaimRows
  BY <1>7, <1>2, <1>3, <1>4, LoadSum DEF ClaimRows
<1>8. CASE ReportBatch
  <2>1. PICK e \in BatchEnds : channel' = Append(channel, e)
    BY <1>8 DEF ReportBatch, BatchEnds
  <2>2. e \in Events /\ e # "syncCompleted" /\ channel \in Seq(Events)
    BY DEF BatchEnds, Events, TypeOK
  <2>3. /\ Count(channel') = Count(channel) + 1
        /\ Has(channel', "syncCompleted") => Has(channel, "syncCompleted")
    BY <2>1, <2>2, EndsAppend DEF Count
  <2>4. SyncAhead' => SyncAhead
    BY <1>8, <2>3 DEF ReportBatch, SyncAhead, Has
  <2>5. QED
    BY <1>8, <2>3, <2>4, <1>2, LoadSum DEF ReportBatch
<1>9. CASE DropJob
  BY <1>9, <1>2, <1>3, <1>4, LoadSum DEF DropJob
<1>10. CASE CallUnanswered
  BY <1>10, <1>2, Published, LoadSum DEF CallUnanswered
<1>11. CASE RetryDue
  BY <1>11, <1>2, <1>3, <1>4, LoadSum DEF RetryDue
<1>12. CASE BreakerTrips
  BY <1>12, <1>2, Published, LoadSum DEF BreakerTrips
<1>13. CASE PauseByUser
  BY <1>13, <1>2, <1>3, <1>4, LoadSum DEF PauseByUser
<1>14. CASE ResumeByUser
  BY <1>14, <1>2, <1>3, <1>4, LoadSum DEF ResumeByUser
<1>15. QED
  BY <1>5, <1>6, <1>7, <1>8, <1>9, <1>10, <1>11, <1>12, <1>13, <1>14 DEF Sync, Jobs, Users

LEMMA LossStep ==
  ASSUME TypeOK, TypeOK', Owned, Losses
  PROVE  Owned'
<1> USE DEF outside, memory, lockVars, jobVars, taskVars
<1>1. CASE LoseEvent
  <2>1. PICK i \in DOMAIN channel : channel' = RemoveAt(channel, i)
    BY <1>1 DEF LoseEvent
  <2>2. /\ Count(channel') =< Count(channel)
        /\ Has(channel', "syncCompleted") => Has(channel, "syncCompleted")
    BY <2>1, EndsRemoveAt DEF Count, TypeOK
  <2>3. UNCHANGED <<waiting, working, sync, flag, lock, pc, disowned>>
    BY <1>1 DEF LoseEvent
  <2>4. SyncAhead' => SyncAhead
    BY <2>2, <2>3 DEF SyncAhead, Has
  <2>5. Free' => Free
    BY <2>3, <2>4 DEF Free, OnlyLock, Busy
  <2>6. QED
    BY <2>2, <2>3, <2>5, LoadSum, OtherStep
<1>2. CASE Restart
  <2>1. Count(channel') =< Count(channel)
    <3>1. Ends(channel') = {} /\ Cardinality({}) = 0
      BY <1>2, FS_EmptySet DEF Restart, Ends
    <3>2. QED
      BY <3>1, LoadSum DEF Count
  <2>2. Busy("listener")' = 0 /\ Busy("monitor")' = 0
    BY <1>2 DEF Restart, Busy, Tasks, MayEnqueue
  <2>3. QED
    BY <1>2, <2>1, <2>2, LoadSum, ForgetStep DEF Restart
<1>3. QED
  BY <1>1, <1>2 DEF Losses

LEMMA TimeStep ==
  ASSUME TypeOK, TypeOK', Owned, Time
  PROVE  Owned'
<1> USE DEF outside, memory, lockVars, jobVars, taskVars
<1>1. UNCHANGED <<pc, waiting, working, channel, sync>>
  BY DEF Time, LockExpires, ReleaseLock, FiveMinutesPass, HourPasses, CloseWindow, OpenWindow
<1>2. Count(channel') = Count(channel) /\ (SyncAhead' <=> SyncAhead)
  BY <1>1 DEF SyncAhead, Has
<1>3. Busy("listener")' = Busy("listener") /\ Busy("monitor")' = Busy("monitor")
  BY <1>1 DEF Busy
<1>4. ASSUME lock' = "none", UNCHANGED flag, Disown(lock # "none" /\ OnlyLock)
      PROVE  Owned'
  <2>1. CASE lock # "none" /\ OnlyLock
    <3>1. Disown(TRUE)
      BY <1>4, <2>1 DEF Disown
    <3>2. QED
      BY <1>1, <1>2, <1>3, <3>1, LoadSum, ForgetStep
  <2>2. CASE ~(lock # "none" /\ OnlyLock)
    <3>1. Free' => Free
      BY <1>1, <1>2, <1>4, <2>2 DEF Free, OnlyLock
    <3>2. disowned' = disowned
      BY <1>4, <2>2 DEF Disown
    <3>3. QED
      BY <1>1, <1>2, <3>1, <3>2, LoadSum, OtherStep
  <2>3. QED
    BY <2>1, <2>2
<1>5. CASE LockExpires
  <2>1. CASE (OnlyLock => UnderWay =< disowned) /\ UNCHANGED disowned
    <3>1. Free' => Load =< disowned
      BY <1>1, <1>2, <1>5, <2>1, LoadIsUnderWay DEF LockExpires, Free, OnlyLock, Owned
    <3>2. Load' = Load
      BY <1>1, <1>2, <1>3, LoadSum
    <3>3. QED
      BY <2>1, <3>1, <3>2 DEF Owned
  <2>2. CASE Disown(OnlyLock)
    BY <1>4, <1>5, <2>2 DEF LockExpires, DropLock, Disown
  <2>3. QED
    BY <1>5, <2>1, <2>2 DEF LockExpires
<1>6. CASE ReleaseLock
  BY <1>4, <1>6 DEF ReleaseLock
<1>7. CASE FiveMinutesPass
  <2>1. Free' => Free
    BY <1>1, <1>2, <1>3, <1>7 DEF FiveMinutesPass, Free, OnlyLock
  <2>2. QED
    BY <1>1, <1>2, <1>7, <2>1, LoadSum, OtherStep DEF FiveMinutesPass
<1>8. CASE HourPasses \/ CloseWindow \/ OpenWindow
  <2>1. UNCHANGED <<flag, lock, disowned>>
    BY <1>8 DEF HourPasses, CloseWindow, OpenWindow
  <2>2. Free' => Free
    BY <1>1, <1>2, <1>3, <2>1 DEF Free, OnlyLock
  <2>3. QED
    BY <1>1, <1>2, <2>1, <2>2, LoadSum, OtherStep
<1>9. QED
  BY <1>5, <1>6, <1>7, <1>8 DEF Time

LEMMA OwnedStep == TypeOK /\ TypeOK' /\ Owned /\ [Next]_vars => Owned'
<1> SUFFICES ASSUME TypeOK, TypeOK', Owned, [Next]_vars PROVE Owned'
  OBVIOUS
<1>1. CASE Orchestrate
  BY <1>1, HandleStep, MonitorStep, ScheduleStep DEF Orchestrate
<1>2. CASE Sync \/ Jobs \/ Users
  BY <1>2, OutsideStep
<1>3. CASE Losses \/ Time
  BY <1>3, LossStep, TimeStep
<1>4. CASE UNCHANGED vars
  <2>1. UNCHANGED <<pc, waiting, working, channel, sync, flag, lock, disowned>>
    BY <1>4 DEF vars, jobVars, memory, lockVars, taskVars
  <2>2. Count(channel') = Count(channel) /\ (Free' <=> Free)
    BY <2>1 DEF Free, OnlyLock, SyncAhead, Has, Busy
  <2>3. QED
    BY <2>1, <2>2, LoadSum, OtherStep
<1>5. QED
  BY <1>1, <1>2, <1>3, <1>4 DEF Next, Terminating

\* Whoever may schedule the next batch finds one batch less in flight than the
\* orchestrator has lost sight of (BatchesHaveOwners of CampaignOrchestrator).
THEOREM BatchesOwned == Spec => []BatchesHaveOwners
<1>1. Init => Owned
  <2> SUFFICES ASSUME Init PROVE Owned
    OBVIOUS
  <2>1. Ends(channel) = {} /\ Cardinality({}) = 0
    BY FS_EmptySet DEF Init, Ends
  <2>2. Busy("listener") = 0 /\ Busy("monitor") = 0
    BY DEF Init, Busy, Tasks, MayEnqueue
  <2>3. Load = 0 /\ disowned = 0
    <3>1. waiting = 0 /\ working = 0 /\ disowned = 0 /\ Count(channel) = 0
      BY <2>1 DEF Init, Count
    <3>2. QED
      BY <2>2, <3>1 DEF Load
  <2>4. QED
    BY <2>3 DEF Owned
<1>2. Spec => []Owned
  BY <1>1, OwnedStep, TypeCorrect, PTL DEF Spec
<1>3. TypeOK /\ Owned => BatchesHaveOwners
  BY OwnedIsInvariant
<1>4. QED
  BY <1>2, <1>3, TypeCorrect, PTL

\* Never two batches at once that the orchestrator has not lost sight of
\* (OneBatchAtATime of CampaignOrchestrator), the duplicate scheduling that the
\* lock and the flag are there to prevent.
THEOREM OneBatch == Spec => []OneBatchAtATime
<1>1. TypeOK /\ BatchesHaveOwners => OneBatchAtATime
  <2> SUFFICES ASSUME TypeOK, BatchesHaveOwners PROVE OneBatchAtATime
    OBVIOUS
  <2>1. Load =< 1 + disowned
    BY OwnedIsInvariant DEF Owned
  <2>2. QED
    BY <2>1, LoadType DEF OneBatchAtATime
<1>2. QED
  BY <1>1, TypeCorrect, BatchesOwned, PTL
=============================================================================
