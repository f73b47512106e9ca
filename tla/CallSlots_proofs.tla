--------------------------- MODULE CallSlots_proofs ---------------------------
(***************************************************************************)
(* Theorems about CallSlots for every number of attempts, caller numbers   *)
(* and handlers, every limit, every pair of time-outs and every set of     *)
(* faults a theorem does not exclude.                                      *)
(***************************************************************************)
EXTENDS CallSlots, FiniteSetTheorems, TLAPS

-----------------------------------------------------------------------------
(* Types. *)

\* release_from_number leaves a pool behind, whatever number it is given.
LEMMA FreedType ==
  ASSUME TypeOK, NEW n
  PROVE  WithFreed(n) \in [Numbers -> Absent .. StaleAge]
<1>1. pool \in [Numbers -> Absent .. StaleAge]
  BY DEF TypeOK
<1>2. Free \in Absent .. StaleAge
  BY TimeAssumption DEF Free, Absent
<1>3. CASE n \in Numbers
  BY <1>1, <1>2, <1>3 DEF WithFreed
<1>4. CASE n \notin Numbers
  BY <1>1, <1>4 DEF WithFreed
<1>5. QED
  BY <1>3, <1>4

\* So does the delete of a from_number mapping.
LEMMA DroppedType ==
  ASSUME TypeOK, NEW r
  PROVE  [numMap EXCEPT ![r] = Gone] \in [Attempts -> Gone .. NumberTTL]
<1>1. numMap \in [Attempts -> Gone .. NumberTTL] /\ Gone \in Gone .. NumberTTL
  BY TimeAssumption DEF TypeOK, Gone
<1>2. CASE r \in Attempts
  BY <1>1, <1>2
<1>3. CASE r \notin Attempts
  BY <1>1, <1>3
<1>4. QED
  BY <1>2, <1>3

\* The variables keep their types through every await of the dispatcher and of
\* the status handlers (TypeOK of CallSlots).
LEMMA TypeStep == TypeOK /\ [Next]_vars => TypeOK'
<1> SUFFICES ASSUME TypeOK, [Next]_vars PROVE TypeOK'
  OBVIOUS
<1> USE DEF TypeOK, Gone, Absent, Free, Dispatching, Finished, HandlerSteps, ReleaseSteps,
            Goto, HandlerGoto
<1> USE TimeAssumption, DeliveryAssumption, NoneAssumption
<1>1. ASSUME NEW a \in Attempts, Acquire(a) PROVE TypeOK'
  <2>1. CASE InitializeFromNumberPool(a)
    BY <2>1 DEF InitializeFromNumberPool, NumbersAdded
  <2>2. CASE ApplyRateLimit(a)
    BY <2>2 DEF ApplyRateLimit
  <2>3. CASE TryAcquireConcurrentSlot(a)
    BY <2>3 DEF TryAcquireConcurrentSlot, WithoutStale, Stale
  <2>4. CASE ConcurrentSlotTimeout(a)
    BY <2>4 DEF ConcurrentSlotTimeout, WithoutStale, Stale
  <2>5. CASE LookUpRun(a)
    BY <2>5 DEF LookUpRun, WithoutSlot
  <2>6. CASE GetTelephonyProvider(a)
    BY <2>6 DEF GetTelephonyProvider
  <2>7. CASE AcquireFromNumber(a)
    BY <2>7 DEF AcquireFromNumber, AvailableNumbers
  <2>8. CASE FromNumberTimeout(a)
    BY <2>8 DEF FromNumberTimeout, WithoutSlot
  <2>9. QED
    BY <1>1, <2>1, <2>2, <2>3, <2>4, <2>5, <2>6, <2>7, <2>8 DEF Acquire
<1>2. ASSUME NEW a \in Attempts, Place(a) PROVE TypeOK'
  <2>1. CASE CreateWorkflowRun(a)
    BY <2>1 DEF CreateWorkflowRun, WithoutSlot, WithFreed
  <2>2. CASE StoreWorkflowSlotMapping(a)
    BY <2>2 DEF StoreWorkflowSlotMapping
  <2>3. CASE StoreWorkflowFromNumberMapping(a)
    BY <2>3 DEF StoreWorkflowFromNumberMapping
  <2>4. CASE TagRetry(a)
    BY <2>4 DEF TagRetry
  <2>5. CASE InitiateCall(a)
    BY <2>5 DEF InitiateCall
  <2>6. CASE SaveCallMetadata(a)
    BY <2>6 DEF SaveCallMetadata
  <2>7. QED
    BY <1>2, <2>1, <2>2, <2>3, <2>4, <2>5, <2>6 DEF Place
<1>3. ASSUME NEW a \in Attempts, Recover(a) PROVE TypeOK'
  <2>1. CASE RecoverSlot(a)
    BY <2>1 DEF RecoverSlot, WithoutSlot
  <2>2. CASE RecoverReadNumber(a)
    BY <2>2 DEF RecoverReadNumber
  <2>3. CASE RecoverFreeNumber(a)
    BY <2>3, FreedType DEF RecoverFreeNumber
  <2>4. CASE RecoverDropNumber(a)
    BY <2>4 DEF RecoverDropNumber
  <2>5. QED
    BY <1>3, <2>1, <2>2, <2>3, <2>4 DEF Recover
<1>4. ASSUME NEW a \in Attempts, CancelJob(a) PROVE TypeOK'
  BY <1>4 DEF CancelJob
<1>5. ASSUME NEW a \in Attempts, EndCall(a) PROVE TypeOK'
  BY <1>5 DEF EndCall
<1>6. ASSUME NEW h \in Handlers, NEW a \in Attempts, ReceiveStatus(h, a) PROVE TypeOK'
  BY <1>6 DEF ReceiveStatus, TerminalStatus
<1>7. ASSUME NEW h \in Handlers, Release(h) PROVE TypeOK'
  <2>1. CASE HandlerReleaseSlot(h)
    BY <2>1 DEF HandlerReleaseSlot, WithoutSlot
  <2>2. CASE HandlerReadNumber(h)
    BY <2>2 DEF HandlerReadNumber
  <2>3. CASE HandlerReleaseNumber(h)
    BY <2>3, FreedType DEF HandlerReleaseNumber
  <2>4. CASE HandlerDropNumber(h)
    BY <2>4, DroppedType DEF HandlerDropNumber
  <2>5. QED
    BY <1>7, <2>1, <2>2, <2>3, <2>4 DEF Release
<1>8. CASE Tick
  <2>1. slot' \in [Attempts -> Gone .. StaleAge]
    BY <1>8 DEF Tick, Older
  <2>2. slotMap' \in [Attempts -> Gone .. StaleAge]
    BY <1>8 DEF Tick, Expiring
  <2>3. numMap' \in [Attempts -> Gone .. NumberTTL]
    BY <1>8 DEF Tick, Expiring
  <2>4. pool' \in [Numbers -> Absent .. StaleAge]
    BY <1>8 DEF Tick, Older
  <2>5. QED
    BY <1>8, <2>1, <2>2, <2>3, <2>4 DEF Tick
<1>9. CASE Terminating \/ UNCHANGED vars
  BY <1>9 DEF Terminating, vars
<1>10. QED
  BY <1>1, <1>2, <1>3, <1>4, <1>5, <1>6, <1>7, <1>8, <1>9 DEF Next, Dispatch

\* The type invariant of CallSlots holds in every reachable state.
THEOREM TypeCorrect == Spec => []TypeOK
<1>1. Init => TypeOK
  BY TimeAssumption, DeliveryAssumption
     DEF Init, TypeOK, Gone, Absent, Dispatching, HandlerSteps, ReleaseSteps
<1>2. QED
  BY <1>1, TypeStep, PTL DEF Spec

-----------------------------------------------------------------------------
(* The concurrency limit. *)

\* A limit read from the configuration is a natural number at most HighestLimit.
LEMMA LimitRead ==
  ASSUME NEW a \in Attempts, NEW orgLimit \in OrgLimitReads
  PROVE  /\ MaxConcurrent(a, orgLimit) \in Nat
         /\ MaxConcurrent(a, orgLimit) =< HighestLimit
BY LimitAssumption DEF OrgLimitReads, MaxConcurrent, HighestLimit

\* Of all steps only the Lua script of try_acquire_concurrent_slot adds a member.
LEMMA OnlyAcquireAddsSlots ==
  ASSUME TypeOK, [Next]_vars, \A a \in Attempts : ~TryAcquireConcurrentSlot(a)
  PROVE  Slots' \subseteq Slots
<1> USE DEF Slots, TypeOK, Gone
<1>1. ASSUME NEW a \in Attempts, Dispatch(a) PROVE Slots' \subseteq Slots
  BY <1>1 DEF Dispatch, Acquire, Place, Recover, InitializeFromNumberPool, ApplyRateLimit,
     ConcurrentSlotTimeout, LookUpRun, GetTelephonyProvider, AcquireFromNumber,
     FromNumberTimeout, CreateWorkflowRun, StoreWorkflowSlotMapping,
     StoreWorkflowFromNumberMapping, TagRetry, InitiateCall, SaveCallMetadata, RecoverSlot,
     RecoverReadNumber, RecoverFreeNumber, RecoverDropNumber, WithoutSlot, WithoutStale
<1>2. ASSUME NEW a \in Attempts, CancelJob(a) \/ EndCall(a) PROVE Slots' \subseteq Slots
  BY <1>2 DEF CancelJob, EndCall
<1>3. ASSUME NEW h \in Handlers, Release(h) PROVE Slots' \subseteq Slots
  BY <1>3 DEF Release, HandlerReleaseSlot, HandlerReadNumber, HandlerReleaseNumber,
     HandlerDropNumber, WithoutSlot
<1>4. ASSUME NEW h \in Handlers, NEW a \in Attempts, ReceiveStatus(h, a)
      PROVE Slots' \subseteq Slots
  BY <1>4 DEF ReceiveStatus
<1>5. CASE Tick
  BY <1>5, TimeAssumption DEF Tick, Older
<1>6. CASE Terminating \/ UNCHANGED vars
  BY <1>6 DEF Terminating, vars
<1>7. QED
  BY <1>1, <1>2, <1>3, <1>4, <1>5, <1>6 DEF Next

\* The script counts what it leaves and adds one only below the limit.
LEMMA AcquireKeepsLimit ==
  ASSUME TypeOK, SlotsWithinLimit, NEW a \in Attempts, TryAcquireConcurrentSlot(a)
  PROVE  SlotsWithinLimit'
<1>1. PICK orgLimit \in OrgLimitReads : Cardinality(FreshSlots) < MaxConcurrent(a, orgLimit)
  BY DEF TryAcquireConcurrentSlot, HasRoom
<1>2. Slots' = FreshSlots \cup {a}
  BY TimeAssumption
     DEF TryAcquireConcurrentSlot, WithoutStale, Stale, Slots, FreshSlots, TypeOK, Gone
<1>3. IsFiniteSet(FreshSlots) /\ Cardinality(FreshSlots) \in Nat
  BY FiniteAssumption, FS_Subset, FS_CardinalityType DEF FreshSlots
<1>4. Cardinality(FreshSlots \cup {a}) =
        IF a \in FreshSlots THEN Cardinality(FreshSlots) ELSE Cardinality(FreshSlots) + 1
  BY <1>3, FS_AddElement, Zenon
<1>5. /\ Cardinality(FreshSlots \cup {a}) \in Nat
      /\ Cardinality(FreshSlots \cup {a}) =< Cardinality(FreshSlots) + 1
  BY <1>3, <1>4
<1>6. HighestLimit \in Nat /\ HighestLimit' = HighestLimit
  BY LimitAssumption DEF HighestLimit, OrgLimitReads
<1>7. Cardinality(Slots') =< HighestLimit
  BY <1>1, <1>2, <1>3, <1>4, <1>5, <1>6, LimitRead
<1>8. QED
  BY <1>6, <1>7 DEF SlotsWithinLimit

LEMMA SlotLimitStep == TypeOK /\ SlotsWithinLimit /\ [Next]_vars => SlotsWithinLimit'
<1> SUFFICES ASSUME TypeOK, SlotsWithinLimit, [Next]_vars PROVE SlotsWithinLimit'
  OBVIOUS
<1>1. CASE \E a \in Attempts : TryAcquireConcurrentSlot(a)
  BY <1>1, AcquireKeepsLimit
<1>2. CASE \A a \in Attempts : ~TryAcquireConcurrentSlot(a)
  <2>1. Slots' \subseteq Slots
    BY <1>2, OnlyAcquireAddsSlots
  <2>2. IsFiniteSet(Slots)
    BY FiniteAssumption, FS_Subset DEF Slots
  <2>3. Cardinality(Slots') =< Cardinality(Slots)
        /\ Cardinality(Slots') \in Nat /\ Cardinality(Slots) \in Nat
    BY <2>1, <2>2, FS_Subset, FS_CardinalityType
  <2>4. HighestLimit \in Nat /\ HighestLimit' = HighestLimit
    BY LimitAssumption DEF HighestLimit, OrgLimitReads
  <2>5. QED
    BY <2>3, <2>4 DEF SlotsWithinLimit
<1>3. QED
  BY <1>1, <1>2

\* The concurrency ZSET never has more members than the largest limit that can
\* be read for the organization, under every fault of AllFaults.
THEOREM SlotLimit == Spec => []SlotsWithinLimit
<1>1. Init => SlotsWithinLimit
  <2> SUFFICES ASSUME Init PROVE SlotsWithinLimit
    OBVIOUS
  <2>1. Slots = {}
    BY DEF Init, Slots
  <2>2. HighestLimit \in Nat
    BY LimitAssumption DEF HighestLimit, OrgLimitReads
  <2>3. QED
    BY <2>1, <2>2, FS_EmptySet DEF SlotsWithinLimit
<1>2. QED
  BY <1>1, SlotLimitStep, TypeCorrect, PTL DEF Spec
-----------------------------------------------------------------------------
(* The calls in progress. *)

\* No call outlasts its slot, and the dispatcher never mistakes a call that was
\* placed for one that was not.
Reliable == Faults \cap {"save", "longCall"} = {}

LEMMA HoldersAcquire ==
  ASSUME TypeOK, LiveCallsHoldSlots, NEW a \in Attempts, Acquire(a)
  PROVE  LiveCallsHoldSlots'
<1> USE DEF LiveCallsHoldSlots, Live, FreshSlots, Holding, Dispatching, TypeOK, Goto, Gone
<1> USE TimeAssumption
<1>1. CASE InitializeFromNumberPool(a)
  BY <1>1 DEF InitializeFromNumberPool
<1>2. CASE ApplyRateLimit(a)
  BY <1>2 DEF ApplyRateLimit
<1>3. CASE TryAcquireConcurrentSlot(a)
  BY <1>3 DEF TryAcquireConcurrentSlot, WithoutStale, Stale
<1>4. CASE ConcurrentSlotTimeout(a)
  BY <1>4 DEF ConcurrentSlotTimeout, WithoutStale, Stale
<1>5. CASE LookUpRun(a)
  BY <1>5 DEF LookUpRun, WithoutSlot
<1>6. CASE GetTelephonyProvider(a)
  BY <1>6 DEF GetTelephonyProvider
<1>7. CASE AcquireFromNumber(a)
  BY <1>7 DEF AcquireFromNumber
<1>8. CASE FromNumberTimeout(a)
  BY <1>8 DEF FromNumberTimeout, WithoutSlot
<1>9. QED
  BY <1>1, <1>2, <1>3, <1>4, <1>5, <1>6, <1>7, <1>8 DEF Acquire

LEMMA HoldersPlace ==
  ASSUME Reliable, TypeOK, LiveCallsHoldSlots, NEW a \in Attempts, Place(a) \/ Recover(a)
  PROVE  LiveCallsHoldSlots'
<1> USE DEF LiveCallsHoldSlots, Live, FreshSlots, Holding, Dispatching, TypeOK, Goto, Gone
<1>1. CASE CreateWorkflowRun(a)
  BY <1>1 DEF CreateWorkflowRun, WithoutSlot
<1>2. CASE StoreWorkflowSlotMapping(a) \/ StoreWorkflowFromNumberMapping(a) \/ TagRetry(a)
  BY <1>2 DEF StoreWorkflowSlotMapping, StoreWorkflowFromNumberMapping, TagRetry
<1>3. CASE InitiateCall(a)
  <2>1. /\ pc[a] = "tagged" /\ a \in FreshSlots /\ call[a] = "none"
        /\ UNCHANGED <<slot, due, hpc, hrun>>
    BY <1>3 DEF InitiateCall
  <2>2. CASE pc' = [pc EXCEPT ![a] = "placed"] /\ call' = [call EXCEPT ![a] = "live"]
    BY <2>1, <2>2
  <2>3. CASE pc' = [pc EXCEPT ![a] = "freeSlot"] /\ call' = call
    BY <2>1, <2>3
  <2>4. QED
    BY <1>3, <2>2, <2>3 DEF InitiateCall
<1>4. CASE SaveCallMetadata(a)
  BY <1>4 DEF SaveCallMetadata, Reliable
<1>5. CASE RecoverSlot(a)
  BY <1>5 DEF RecoverSlot, WithoutSlot
<1>6. CASE RecoverReadNumber(a) \/ RecoverFreeNumber(a)
  BY <1>6 DEF RecoverReadNumber, RecoverFreeNumber
<1>7. CASE RecoverDropNumber(a)
  BY <1>7 DEF RecoverDropNumber
<1>8. QED
  BY <1>1, <1>2, <1>3, <1>4, <1>5, <1>6, <1>7 DEF Place, Recover

LEMMA HoldersRelease ==
  ASSUME TypeOK, LiveCallsHoldSlots, NEW h \in Handlers, Release(h)
  PROVE  LiveCallsHoldSlots'
<1> USE NoneAssumption
    DEF LiveCallsHoldSlots, Live, FreshSlots, Holding, Dispatching, TypeOK, HandlerGoto, Gone,
        HandlerSteps, ReleaseSteps
<1>1. CASE HandlerReleaseSlot(h)
  BY <1>1 DEF HandlerReleaseSlot, WithoutSlot
<1>2. CASE HandlerReadNumber(h) \/ HandlerReleaseNumber(h) \/ HandlerDropNumber(h)
  <2>1. UNCHANGED <<pc, slot, call, due>> /\ hpc[h] # "idle"
    BY <1>2 DEF HandlerReadNumber, HandlerReleaseNumber, HandlerDropNumber
  <2>2. CASE \E to \in ReleaseSteps : hpc' = [hpc EXCEPT ![h] = to] /\ hrun' = hrun
    BY <2>1, <2>2
  <2>3. CASE hpc' = [hpc EXCEPT ![h] = "idle"] /\ hrun' = [hrun EXCEPT ![h] = NoRun]
    BY <2>1, <2>3
  <2>4. QED
    BY <1>2, <2>2, <2>3 DEF HandlerReadNumber, HandlerReleaseNumber, HandlerDropNumber
<1>3. QED
  BY <1>1, <1>2 DEF Release

LEMMA HoldersTick ==
  ASSUME Reliable, TypeOK, LiveCallsHoldSlots, Tick
  PROVE  LiveCallsHoldSlots'
<1>1. \A a \in Attempts : Busy(a) => slot[a] + 1 < StaleAge
  BY DEF Tick, Prompt, Reliable
<1>2. ASSUME NEW a \in FreshSlots, Busy(a) PROVE a \in FreshSlots'
  BY <1>1, <1>2, TimeAssumption DEF Tick, Older, FreshSlots
<1>3. \A a \in Attempts : pc[a] \in Holding \/ call[a] = "live" => Busy(a)
  BY DEF Busy, Holding, Dispatching
<1>4. QED
  BY <1>2, <1>3 DEF LiveCallsHoldSlots, Tick, Live, FreshSlots

LEMMA HoldersStep ==
  ASSUME Reliable, TypeOK, LiveCallsHoldSlots, [Next]_vars
  PROVE  LiveCallsHoldSlots'
<1> USE DEF LiveCallsHoldSlots, Live, FreshSlots, Holding, Dispatching, TypeOK
<1>1. ASSUME NEW a \in Attempts, CancelJob(a) PROVE LiveCallsHoldSlots'
  BY <1>1 DEF CancelJob
<1>2. ASSUME NEW a \in Attempts, EndCall(a) PROVE LiveCallsHoldSlots'
  BY <1>2 DEF EndCall
<1>3. ASSUME NEW h \in Handlers, NEW a \in Attempts, ReceiveStatus(h, a)
      PROVE LiveCallsHoldSlots'
  BY <1>3, DeliveryAssumption DEF ReceiveStatus, TerminalStatus, HandlerGoto, HandlerSteps
<1>4. CASE Terminating \/ UNCHANGED vars
  BY <1>4 DEF Terminating, vars
<1>5. QED
  BY <1>1, <1>2, <1>3, <1>4, HoldersAcquire, HoldersPlace, HoldersRelease, HoldersTick
     DEF Next, Dispatch

\* In every reachable state a call in progress holds a slot that is not stale.
THEOREM LiveHoldSlots ==
  ASSUME Reliable
  PROVE  Spec => []LiveCallsHoldSlots
<1>1. ASSUME Init PROVE LiveCallsHoldSlots
  <2>1. /\ \A a \in Attempts : pc[a] = "claimed" /\ call[a] = "none" /\ due[a] = 0
        /\ \A h \in Handlers : hpc[h] = "idle" /\ hrun[h] = NoRun
    BY <1>1 DEF Init
  <2>2. QED
    BY <2>1 DEF LiveCallsHoldSlots, Holding, Live
<1>2. TypeOK /\ LiveCallsHoldSlots /\ [Next]_vars => LiveCallsHoldSlots'
  BY HoldersStep
<1>3. QED
  BY <1>1, <1>2, TypeCorrect, PTL DEF Spec

\* The organization never has more calls in progress than the limit, provided
\* a call that was placed is recorded and no call outlasts stale_call_timeout.
THEOREM CallLimit ==
  ASSUME Reliable
  PROVE  Spec => []CallsWithinLimit
<1>1. TypeOK /\ SlotsWithinLimit /\ LiveCallsHoldSlots => CallsWithinLimit
  <2> SUFFICES ASSUME TypeOK, SlotsWithinLimit, LiveCallsHoldSlots PROVE CallsWithinLimit
    OBVIOUS
  <2>1. Live \subseteq Slots
    BY TimeAssumption DEF LiveCallsHoldSlots, Live, FreshSlots, Slots, Gone
  <2>2. IsFiniteSet(Slots)
    BY FiniteAssumption, FS_Subset DEF Slots
  <2>3. /\ Cardinality(Live) =< Cardinality(Slots)
        /\ Cardinality(Live) \in Nat /\ Cardinality(Slots) \in Nat
    BY <2>1, <2>2, FS_Subset, FS_CardinalityType
  <2>4. HighestLimit \in Nat
    BY LimitAssumption DEF HighestLimit, OrgLimitReads
  <2>5. QED
    BY <2>3, <2>4 DEF SlotsWithinLimit, CallsWithinLimit
<1>2. QED
  BY <1>1, TypeCorrect, SlotLimit, LiveHoldSlots, PTL
-----------------------------------------------------------------------------
(* Who gives back what was taken.  A slot or a number that is in use has an *)
(* attempt that will come to its release, if jobs are not cancelled, reads  *)
(* and stores answer, calls are reported, and a provider that refuses calls *)
(* meets a database that records the refusal.                               *)

Accountable ==
  /\ Faults \cap {"lookup", "store", "tag", "cancel", "lostStatus", "longCall"} = {}
  /\ ~({"refuse", "save"} \subseteq Faults)

\* Statuses are of calls that have ended, and a call is placed after its mappings
\* are stored.
Told ==
  /\ \A a \in Attempts : pc[a] \in {"claimed", "new", "waitSlot"} \cup Holding => call[a] = "none"
  /\ \A a \in Attempts : due[a] > 0 => call[a] = "ended"
  /\ \A h \in Handlers : hpc[h] # "idle" => hrun[h] \in Attempts /\ call[hrun[h]] = "ended"

\* Somebody will come to the release: the dispatch, its except branch, or a
\* handler that has not got past the steps.
ToRelease(a, steps) ==
  \/ pc[a] \in {"stored", "tagged"}
  \/ pc[a] = "freeSlot" /\ "save" \notin Faults
  \/ call[a] = "live" \/ due[a] > 0
  \/ \E h \in Handlers : hrun[h] = a /\ hpc[h] \in steps

\* Up to the mapping only the dispatch knows the slot, afterwards whoever reads
\* the mapping.
SlotOwned(a) ==
  \/ pc[a] \in {"haveSlot", "lookedUp", "waitNumber", "haveNumber", "created"}
  \/ slotMap[a] \in 0 .. slot[a] /\ (pc[a] = "slotStored" \/ ToRelease(a, {"freeSlot"}))

SlotsOwned == \A a \in FreshSlots : SlotOwned(a)

\* Nobody has released the number of a yet: it is still a's.
Unreleased(a) == pc[a] # "dropNumber" /\ \A h \in Handlers : hrun[h] = a => hpc[h] # "dropNumber"

NumberOwned(n, a) ==
  /\ num[a] = n
  /\ Unreleased(a)
  /\ \/ pc[a] \in {"haveNumber", "created", "slotStored"}
     \/ /\ numMap[a] \in 0 .. pool[n]
        /\ \/ pc[a] \in {"readNumber", "freeNumber"}
           \/ ToRelease(a, {"freeSlot", "readNumber", "freeNumber"})

Taken == {n \in Numbers : pool[n] \in 0 .. StaleAge - 1}
NumbersOwned == \A n \in Taken : \E a \in Attempts : NumberOwned(n, a)

LEMMA ToldStep ==
  ASSUME TypeOK, Told, [Next]_vars
  PROVE  Told'
<1> USE DEF Told, TypeOK, Holding, Goto
<1>1. ASSUME NEW a \in Attempts, Dispatch(a) PROVE Told'
  <2>1. UNCHANGED <<due, hpc, hrun>>
    BY <1>1 DEF Dispatch, Acquire, Place, Recover, InitializeFromNumberPool, ApplyRateLimit,
       TryAcquireConcurrentSlot, ConcurrentSlotTimeout, LookUpRun, GetTelephonyProvider,
       AcquireFromNumber, FromNumberTimeout, CreateWorkflowRun, StoreWorkflowSlotMapping,
       StoreWorkflowFromNumberMapping, TagRetry, InitiateCall, SaveCallMetadata, RecoverSlot,
       RecoverReadNumber, RecoverFreeNumber, RecoverDropNumber
  <2>2. /\ \A b \in Attempts : b # a => pc'[b] = pc[b] /\ call'[b] = call[b]
        /\ \/ call'[a] = call[a] /\ (pc[a] \in {"claimed", "new", "waitSlot"} \cup Holding
                                     \/ pc'[a] \notin {"claimed", "new", "waitSlot"} \cup Holding)
           \/ pc[a] = "tagged" /\ pc'[a] = "placed"
    BY <1>1 DEF Dispatch, Acquire, Place, Recover, InitializeFromNumberPool, ApplyRateLimit,
       TryAcquireConcurrentSlot, ConcurrentSlotTimeout, LookUpRun, GetTelephonyProvider,
       AcquireFromNumber, FromNumberTimeout, CreateWorkflowRun, StoreWorkflowSlotMapping,
       StoreWorkflowFromNumberMapping, TagRetry, InitiateCall, SaveCallMetadata, RecoverSlot,
       RecoverReadNumber, RecoverFreeNumber, RecoverDropNumber
  <2>3. pc[a] = "tagged" => call[a] = "none"
    OBVIOUS
  <2>4. QED
    BY <2>1, <2>2, <2>3
<1>2. ASSUME NEW a \in Attempts, CancelJob(a) \/ EndCall(a) PROVE Told'
  BY <1>2 DEF CancelJob, EndCall
<1>3. ASSUME NEW h \in Handlers, Release(h) PROVE Told'
  <2>1. UNCHANGED <<pc, call, due>> /\ hpc[h] # "idle"
    BY <1>3 DEF Release, HandlerReleaseSlot, HandlerReadNumber, HandlerReleaseNumber,
       HandlerDropNumber, HandlerGoto
  <2>2. /\ \A g \in Handlers : g # h => hpc'[g] = hpc[g] /\ hrun'[g] = hrun[g]
        /\ hpc'[h] = "idle" \/ hrun'[h] = hrun[h]
    BY <1>3 DEF Release, HandlerReleaseSlot, HandlerReadNumber, HandlerReleaseNumber,
       HandlerDropNumber, HandlerGoto
  <2>3. QED
    BY <2>1, <2>2
<1>4. ASSUME NEW h \in Handlers, NEW a \in Attempts, ReceiveStatus(h, a) PROVE Told'
  BY <1>4, DeliveryAssumption DEF ReceiveStatus, TerminalStatus, HandlerGoto
<1>5. CASE Tick \/ Terminating \/ UNCHANGED vars
  BY <1>5 DEF Tick, Terminating, vars
<1>6. QED
  BY <1>1, <1>2, <1>3, <1>4, <1>5 DEF Next

LEMMA SlotsOwnedAcquire ==
  ASSUME Accountable, TypeOK, Told, SlotsOwned, NEW a \in Attempts, Acquire(a)
  PROVE  SlotsOwned'
<1> USE TimeAssumption
    DEF SlotsOwned, SlotOwned, ToRelease, FreshSlots, TypeOK, Goto, Gone, Accountable
<1>1. CASE InitializeFromNumberPool(a) \/ ApplyRateLimit(a)
  BY <1>1 DEF InitializeFromNumberPool, ApplyRateLimit
<1>2. CASE TryAcquireConcurrentSlot(a)
  BY <1>2 DEF TryAcquireConcurrentSlot, WithoutStale, Stale
<1>3. CASE ConcurrentSlotTimeout(a)
  BY <1>3 DEF ConcurrentSlotTimeout, WithoutStale, Stale
<1>4. CASE LookUpRun(a) \/ GetTelephonyProvider(a)
  BY <1>4 DEF LookUpRun, GetTelephonyProvider, WithoutSlot
<1>5. CASE AcquireFromNumber(a) \/ FromNumberTimeout(a)
  BY <1>5 DEF AcquireFromNumber, FromNumberTimeout, WithoutSlot
<1>6. QED
  BY <1>1, <1>2, <1>3, <1>4, <1>5 DEF Acquire

LEMMA SlotsOwnedPlace ==
  ASSUME Accountable, TypeOK, Told, SlotsOwned, NEW a \in Attempts, Place(a) \/ Recover(a)
  PROVE  SlotsOwned'
<1> USE TimeAssumption
    DEF SlotsOwned, SlotOwned, ToRelease, FreshSlots, TypeOK, Goto, Gone, Accountable
<1>1. CASE CreateWorkflowRun(a)
  BY <1>1 DEF CreateWorkflowRun, WithoutSlot
<1>2. CASE StoreWorkflowSlotMapping(a)
  BY <1>2 DEF StoreWorkflowSlotMapping
<1>3. CASE StoreWorkflowFromNumberMapping(a) \/ TagRetry(a)
  BY <1>3 DEF StoreWorkflowFromNumberMapping, TagRetry
<1>4. CASE InitiateCall(a)
  BY <1>4 DEF InitiateCall
<1>5. CASE SaveCallMetadata(a)
  BY <1>5 DEF SaveCallMetadata
<1>6. CASE RecoverSlot(a)
  BY <1>6 DEF RecoverSlot, WithoutSlot
<1>7. CASE RecoverReadNumber(a) \/ RecoverFreeNumber(a) \/ RecoverDropNumber(a)
  BY <1>7 DEF RecoverReadNumber, RecoverFreeNumber, RecoverDropNumber
<1>8. QED
  BY <1>1, <1>2, <1>3, <1>4, <1>5, <1>6, <1>7 DEF Place, Recover

LEMMA SlotsOwnedStep ==
  ASSUME Accountable, TypeOK, Told, SlotsOwned, [Next]_vars
  PROVE  SlotsOwned'
<1> USE TimeAssumption
    DEF SlotsOwned, SlotOwned, ToRelease, FreshSlots, TypeOK, Gone
<1>1. ASSUME NEW a \in Attempts, CancelJob(a) PROVE SlotsOwned'
  BY <1>1 DEF CancelJob, Accountable
<1>2. ASSUME NEW a \in Attempts, EndCall(a) PROVE SlotsOwned'
  BY <1>2, DeliveryAssumption DEF EndCall, Accountable
<1>3. ASSUME NEW h \in Handlers, HandlerReleaseSlot(h) PROVE SlotsOwned'
  BY <1>3 DEF HandlerReleaseSlot, HandlerGoto, WithoutSlot, Told
<1>4. ASSUME NEW h \in Handlers,
             HandlerReadNumber(h) \/ HandlerReleaseNumber(h) \/ HandlerDropNumber(h)
      PROVE  SlotsOwned'
  BY <1>4 DEF HandlerReadNumber, HandlerReleaseNumber, HandlerDropNumber, HandlerGoto
<1>5. ASSUME NEW h \in Handlers, NEW a \in Attempts, ReceiveStatus(h, a) PROVE SlotsOwned'
  BY <1>5, DeliveryAssumption DEF ReceiveStatus, TerminalStatus, HandlerGoto
<1>6. CASE Tick
  <2>1. Prompt
    BY <1>6 DEF Tick, Accountable
  <2>2. ASSUME NEW a \in FreshSlots' PROVE SlotOwned(a)'
    <3>1. a \in FreshSlots /\ slot'[a] = slot[a] + 1 /\ SlotOwned(a)
      BY <1>6, <2>2 DEF Tick, Older
    <3>2. UNCHANGED <<pc, num, call, due, hpc, hrun>>
      BY <1>6 DEF Tick
    <3>3. ASSUME slotMap[a] \in 0 .. slot[a] PROVE slotMap'[a] \in 0 .. slot'[a]
      BY <1>6, <3>1, <3>3, <2>2 DEF Tick, Expiring
    <3>4. QED
      BY <3>1, <3>2, <3>3
  <2>3. QED
    BY <2>2
<1>7. CASE Terminating \/ UNCHANGED vars
  BY <1>7 DEF Terminating, vars
<1>8. QED
  BY <1>1, <1>2, <1>3, <1>4, <1>5, <1>6, <1>7, SlotsOwnedAcquire, SlotsOwnedPlace
     DEF Next, Dispatch, Release

\* No path through dispatch_call forgets a slot: whoever has one comes to its release.
THEOREM NoSlotOrphaned ==
  ASSUME Accountable
  PROVE  Spec => []NoOrphanSlot
<1>1. ASSUME Init PROVE Told /\ SlotsOwned
  <2>1. /\ \A a \in Attempts : slot[a] = Gone /\ call[a] = "none" /\ due[a] = 0
        /\ \A h \in Handlers : hpc[h] = "idle"
    BY <1>1 DEF Init
  <2>2. QED
    BY <2>1, TimeAssumption DEF Told, SlotsOwned, FreshSlots, Gone
<1>2. TypeOK /\ Told /\ SlotsOwned /\ [Next]_vars => Told' /\ SlotsOwned'
  BY ToldStep, SlotsOwnedStep
<1>3. SlotsOwned => NoOrphanSlot
  BY DEF SlotsOwned, SlotOwned, ToRelease, NoOrphanSlot, Busy, Dispatching, FreshSlots
<1>4. QED
  BY <1>1, <1>2, <1>3, TypeCorrect, PTL DEF Spec

\* A number that is in use before and after a release is another one.
LEMMA FreedAnother ==
  ASSUME TypeOK, NEW m, pool' = WithFreed(m), NEW n \in Taken, n \in Taken'
  PROVE  n # m /\ pool'[n] = pool[n]
<1>1. pool \in [Numbers -> Absent .. StaleAge] /\ n \in Numbers /\ pool[n] # Absent
  BY TimeAssumption DEF TypeOK, Taken, Absent
<1>2. n # m
  <2> SUFFICES ASSUME n = m PROVE FALSE
    OBVIOUS
  <2>1. pool'[n] = Free
    BY <1>1 DEF WithFreed
  <2>2. QED
    BY <2>1, TimeAssumption DEF Taken, Free
<1>3. pool'[n] = pool[n]
  BY <1>1, <1>2 DEF WithFreed
<1>4. QED
  BY <1>2, <1>3

\* An owner stays one until its number is free again or stale: the dispatch.
LEMMA OwnerStaysDispatch ==
  ASSUME Accountable, TypeOK, Told, NEW n \in Taken, n \in Taken',
         NEW b \in Attempts, NumberOwned(n, b), NEW a \in Attempts, Dispatch(a)
  PROVE  NumberOwned(n, b)'
<1> USE TimeAssumption
    DEF NumberOwned, Unreleased, ToRelease, Taken, Told, Holding, TypeOK, Goto, Gone, Free,
        Accountable
<1>1. CASE InitializeFromNumberPool(a) \/ ApplyRateLimit(a)
  BY <1>1 DEF InitializeFromNumberPool, ApplyRateLimit, NumbersAdded
<1>2. CASE TryAcquireConcurrentSlot(a) \/ ConcurrentSlotTimeout(a)
  BY <1>2 DEF TryAcquireConcurrentSlot, ConcurrentSlotTimeout
<1>3. CASE LookUpRun(a) \/ GetTelephonyProvider(a) \/ FromNumberTimeout(a)
  BY <1>3 DEF LookUpRun, GetTelephonyProvider, FromNumberTimeout
<1>4. CASE AcquireFromNumber(a)
  BY <1>4 DEF AcquireFromNumber, AvailableNumbers
<1>5. CASE CreateWorkflowRun(a)
  <2>1. CASE Goto(a, "haveNumber", "created") /\ UNCHANGED pool
    BY <1>5, <2>1 DEF CreateWorkflowRun
  <2>2. CASE Goto(a, "haveNumber", "failed") /\ pool' = WithFreed(num[a])
    <3>1. n # num[a] /\ pool'[n] = pool[n]
      BY <2>2, FreedAnother
    <3>2. QED
      BY <1>5, <2>2, <3>1 DEF CreateWorkflowRun
  <2>3. QED
    BY <1>5, <2>1, <2>2 DEF CreateWorkflowRun
<1>6. CASE StoreWorkflowSlotMapping(a) \/ StoreWorkflowFromNumberMapping(a)
  BY <1>6 DEF StoreWorkflowSlotMapping, StoreWorkflowFromNumberMapping
<1>7. CASE TagRetry(a) \/ InitiateCall(a)
  BY <1>7 DEF TagRetry, InitiateCall
<1>8. CASE SaveCallMetadata(a)
  BY <1>8 DEF SaveCallMetadata
<1>9. CASE RecoverSlot(a) \/ RecoverReadNumber(a)
  BY <1>9 DEF RecoverSlot, RecoverReadNumber
<1>10. CASE RecoverFreeNumber(a)
  <2>1. n # num[a] /\ pool'[n] = pool[n]
    BY <1>10, FreedAnother DEF RecoverFreeNumber
  <2>2. QED
    BY <1>10, <2>1 DEF RecoverFreeNumber
<1>11. CASE RecoverDropNumber(a)
  BY <1>11 DEF RecoverDropNumber
<1>12. QED
  BY <1>1, <1>2, <1>3, <1>4, <1>5, <1>6, <1>7, <1>8, <1>9, <1>10, <1>11
     DEF Dispatch, Acquire, Place, Recover

\* The same of the handlers, the provider and time.
LEMMA OwnerStays ==
  ASSUME Accountable, TypeOK, Told, [Next]_vars, NEW n \in Taken, n \in Taken',
         NEW b \in Attempts, NumberOwned(n, b)
  PROVE  NumberOwned(n, b)'
<1> USE TimeAssumption
    DEF NumberOwned, Unreleased, ToRelease, Taken, TypeOK, Gone, Free, HandlerGoto
<1>1. ASSUME NEW a \in Attempts, CancelJob(a) \/ EndCall(a) PROVE NumberOwned(n, b)'
  BY <1>1, DeliveryAssumption DEF CancelJob, EndCall, Accountable
<1>2. ASSUME NEW h \in Handlers, HandlerReleaseSlot(h) \/ HandlerReadNumber(h)
      PROVE  NumberOwned(n, b)'
  BY <1>2, NoneAssumption DEF HandlerReleaseSlot, HandlerReadNumber
<1>3. ASSUME NEW h \in Handlers, HandlerReleaseNumber(h) PROVE NumberOwned(n, b)'
  <2>1. n # num[hrun[h]] /\ pool'[n] = pool[n]
    BY <1>3, FreedAnother DEF HandlerReleaseNumber
  <2>2. QED
    BY <1>3, <2>1 DEF HandlerReleaseNumber
<1>4. ASSUME NEW h \in Handlers, HandlerDropNumber(h) PROVE NumberOwned(n, b)'
  BY <1>4, NoneAssumption DEF HandlerDropNumber
<1>5. ASSUME NEW h \in Handlers, NEW a \in Attempts, ReceiveStatus(h, a)
      PROVE  NumberOwned(n, b)'
  BY <1>5, DeliveryAssumption DEF ReceiveStatus, TerminalStatus
<1>6. CASE Tick
  <2>1. pool'[n] = pool[n] + 1 /\ pool[n] + 1 < StaleAge
    BY <1>6 DEF Tick, Older
  <2>2. ASSUME numMap[b] \in 0 .. pool[n] PROVE numMap'[b] \in 0 .. pool'[n]
    BY <1>6, <2>1, <2>2 DEF Tick, Expiring
  <2>3. UNCHANGED <<pc, num, call, due, hpc, hrun>>
    BY <1>6 DEF Tick
  <2>4. QED
    BY <2>2, <2>3
<1>7. CASE Terminating \/ UNCHANGED vars
  BY <1>7 DEF Terminating, vars
<1>8. QED
  BY <1>1, <1>2, <1>3, <1>4, <1>5, <1>6, <1>7, OwnerStaysDispatch DEF Next, Release

\* Only acquire_from_number takes a number, and whoever takes it owns it.
LEMMA NewOwner ==
  ASSUME TypeOK, Told, [Next]_vars, NEW n \in Taken', n \notin Taken
  PROVE  \E a \in Attempts : NumberOwned(n, a)'
<1> USE TimeAssumption DEF Taken, TypeOK, Gone, Free
<1>1. PICK a \in Attempts : AcquireFromNumber(a)
  <2>1. ASSUME NEW a \in Attempts, Dispatch(a), ~AcquireFromNumber(a) PROVE FALSE
    BY <2>1 DEF Dispatch, Acquire, Place, Recover, InitializeFromNumberPool, NumbersAdded,
       ApplyRateLimit, TryAcquireConcurrentSlot, ConcurrentSlotTimeout, LookUpRun,
       GetTelephonyProvider, FromNumberTimeout, CreateWorkflowRun, WithFreed,
       StoreWorkflowSlotMapping, StoreWorkflowFromNumberMapping, TagRetry, InitiateCall,
       SaveCallMetadata, RecoverSlot, RecoverReadNumber, RecoverFreeNumber, RecoverDropNumber
  <2>2. ASSUME NEW a \in Attempts, CancelJob(a) \/ EndCall(a) PROVE FALSE
    BY <2>2 DEF CancelJob, EndCall
  <2>3. ASSUME NEW h \in Handlers, Release(h) \/ \E a \in Attempts : ReceiveStatus(h, a)
        PROVE  FALSE
    BY <2>3 DEF Release, HandlerReleaseSlot, HandlerReadNumber, HandlerReleaseNumber,
       HandlerDropNumber, WithFreed, ReceiveStatus
  <2>4. CASE Tick
    BY <2>4 DEF Tick, Older
  <2>5. CASE Terminating \/ UNCHANGED vars
    BY <2>5 DEF Terminating, vars
  <2>6. QED
    BY <2>1, <2>2, <2>3, <2>4, <2>5 DEF Next
<1>2. /\ pc[a] = "waitNumber" /\ pc'[a] = "haveNumber" /\ num'[a] = n
      /\ UNCHANGED <<hpc, hrun>>
  BY <1>1 DEF AcquireFromNumber, Goto
<1>3. \A h \in Handlers : hrun[h] = a => hpc[h] # "dropNumber"
  BY <1>2 DEF Told, Holding
<1>4. NumberOwned(n, a)'
  BY <1>2, <1>3 DEF NumberOwned, Unreleased
<1>5. QED
  BY <1>4

\* A caller number in use always has an attempt that can find it and will free it.
THEOREM NumbersHaveOwners ==
  ASSUME Accountable
  PROVE  Spec => []NumberHasOwner
<1>1. ASSUME Init PROVE Told /\ NumbersOwned
  <2>1. /\ \A a \in Attempts : call[a] = "none" /\ due[a] = 0
        /\ \A h \in Handlers : hpc[h] = "idle"
        /\ \A n \in Numbers : pool[n] = Absent
    BY <1>1 DEF Init
  <2>2. QED
    BY <2>1, TimeAssumption DEF Told, NumbersOwned, Taken, Absent
<1>2. TypeOK /\ Told /\ NumbersOwned /\ [Next]_vars => Told' /\ NumbersOwned'
  <2> SUFFICES ASSUME TypeOK, Told, NumbersOwned, [Next]_vars PROVE NumbersOwned'
    BY ToldStep
  <2>1. ASSUME NEW n \in Taken' PROVE \E a \in Attempts : NumberOwned(n, a)'
    <3>1. CASE n \in Taken
      BY <2>1, <3>1, OwnerStays DEF NumbersOwned
    <3>2. CASE n \notin Taken
      BY <2>1, <3>2, NewOwner
    <3>3. QED
      BY <3>1, <3>2
  <2>2. QED
    BY <2>1 DEF NumbersOwned
<1>3. TypeOK /\ NumbersOwned => NumberHasOwner
  <2> SUFFICES ASSUME TypeOK, NumbersOwned, NEW n \in Numbers \ AvailableNumbers, pool[n] # Absent
               PROVE  \E a \in Attempts :
                        /\ num[a] = n
                        /\ Busy(a)
                        /\ pc[a] \in {"haveNumber", "created", "slotStored"} \/ numMap[a] # Gone
    BY DEF NumberHasOwner
  <2>1. n \in Taken
    BY TimeAssumption DEF Taken, AvailableNumbers, TypeOK, Free, Absent
  <2>2. PICK a \in Attempts : NumberOwned(n, a)
    BY <2>1 DEF NumbersOwned
  <2>3. pool[n] \in Nat
    BY <2>1, TimeAssumption DEF Taken
  <2>4. QED
    BY <2>2, <2>3 DEF NumberOwned, ToRelease, Busy, Dispatching, Gone
<1>4. QED
  BY <1>1, <1>2, <1>3, TypeCorrect, PTL DEF Spec

-----------------------------------------------------------------------------
(* Whose number a call shows.  release_from_number takes no owner, so a     *)
(* number is safe only while one party at most will release it.             *)

\* Two handlers never work on the same run at once.  A call may be reported any
\* number of times, as long as one report is dealt with before the next is begun.
SingleFile == \A h, g \in Handlers : hrun[h] = hrun[g] /\ hrun[h] # NoRun => h = g

\* A report is due and no handler has seen one yet, or all who have are done.
Awaited(a) == due[a] > 0 /\ \A h \in Handlers : hrun[h] # a

\* Before the slot is released only the slot bounds the age of the number.  After
\* the end of the call the mapping leads to the number, and the first handler
\* deletes it.
KeepsSlot(a) ==
  \/ pc[a] \in {"haveNumber", "created", "slotStored", "stored", "tagged", "freeSlot"}
  \/ call[a] = "live"
  \/ /\ numMap[a] # Gone
     /\ Awaited(a) \/ \E h \in Handlers : hrun[h] = a /\ hpc[h] = "freeSlot"

\* Who has taken a number and not given it back.
Keeps(a) ==
  \/ KeepsSlot(a)
  \/ pc[a] \in {"readNumber", "freeNumber"}
  \/ \E h \in Handlers :
       hrun[h] = a /\ (hpc[h] = "freeNumber" \/ (hpc[h] = "readNumber" /\ numMap[a] # Gone))

Kept(a) ==
  /\ num[a] \in Taken
  /\ KeepsSlot(a) => pool[num[a]] =< slot[a] /\ slot[a] < StaleAge

NumbersKept ==
  /\ \A a \in Attempts : Keeps(a) => Kept(a)
  /\ \A a, b \in Attempts : Keeps(a) /\ Keeps(b) /\ a # b => num[a] # num[b]

\* A step after which nobody else has a number, and the numbers, slots and ages
\* of those who have one are what they were.
LEMMA KeptStill ==
  ASSUME NumbersKept,
         \A b \in Attempts : Keeps(b)' =>
           /\ Keeps(b)
           /\ num'[b] = num[b]
           /\ pool'[num[b]] = pool[num[b]]
           /\ KeepsSlot(b)' => KeepsSlot(b) /\ slot'[b] = slot[b]
  PROVE  NumbersKept'
BY DEF NumbersKept, Kept, Taken

LEMMA KeptAcquire ==
  ASSUME TypeOK, LiveCallsHoldSlots, NumbersKept, NEW a \in Attempts, Acquire(a)
  PROVE  NumbersKept'
<1> USE TimeAssumption DEF TypeOK, Goto, Gone, Keeps, KeepsSlot, Awaited
<1>1. CASE InitializeFromNumberPool(a)
  <2>1. \A n \in Taken : pool'[n] = pool[n]
    BY <1>1 DEF InitializeFromNumberPool, NumbersAdded, Taken, Absent
  <2>2. QED
    BY <1>1, <2>1, KeptStill DEF InitializeFromNumberPool, NumbersKept, Kept
<1>2. CASE ApplyRateLimit(a)
  BY <1>2, KeptStill DEF ApplyRateLimit
<1>3. CASE TryAcquireConcurrentSlot(a) \/ ConcurrentSlotTimeout(a)
  <2>1. /\ pc[a] = "waitSlot" /\ call[a] = "none"
        /\ UNCHANGED <<num, numMap, pool, call, due, hpc, hrun>>
    BY <1>3 DEF TryAcquireConcurrentSlot, ConcurrentSlotTimeout, LiveCallsHoldSlots, Dispatching
  <2>2. ~KeepsSlot(a)
    BY <2>1 DEF LiveCallsHoldSlots
  <2>3. ASSUME NEW b \in Attempts, b # a, KeepsSlot(b) PROVE slot'[b] = slot[b]
    <3>1. slot[b] # StaleAge
      BY <2>3 DEF NumbersKept, Kept
    <3>2. QED
      BY <1>3, <2>3, <3>1 DEF TryAcquireConcurrentSlot, ConcurrentSlotTimeout, WithoutStale, Stale
  <2>4. \A b \in Attempts : Keeps(b)' => Keeps(b) /\ (KeepsSlot(b)' => KeepsSlot(b))
    BY <1>3, <2>1 DEF TryAcquireConcurrentSlot, ConcurrentSlotTimeout
  <2>5. QED
    BY <2>1, <2>2, <2>3, <2>4, KeptStill
<1>4. CASE LookUpRun(a) \/ GetTelephonyProvider(a) \/ FromNumberTimeout(a)
  <2>1. /\ pc[a] \in {"haveSlot", "lookedUp", "waitNumber"} /\ call[a] = "none"
        /\ UNCHANGED <<num, numMap, pool, call, due, hpc, hrun>>
    BY <1>4 DEF LookUpRun, GetTelephonyProvider, FromNumberTimeout, LiveCallsHoldSlots,
       Dispatching
  <2>2. ~KeepsSlot(a)
    BY <2>1 DEF LiveCallsHoldSlots
  <2>3. \A b \in Attempts : b # a => slot'[b] = slot[b]
    BY <1>4 DEF LookUpRun, GetTelephonyProvider, FromNumberTimeout, WithoutSlot
  <2>4. \A b \in Attempts : Keeps(b)' => Keeps(b) /\ (KeepsSlot(b)' => KeepsSlot(b))
    BY <1>4, <2>1 DEF LookUpRun, GetTelephonyProvider, FromNumberTimeout
  <2>5. QED
    BY <2>1, <2>2, <2>3, <2>4, KeptStill
<1>5. CASE AcquireFromNumber(a)
  <2>1. PICK n \in AvailableNumbers :
          /\ num' = [num EXCEPT ![a] = n]
          /\ pool' = [m \in Numbers |->
                        IF m = n THEN 0 ELSE IF pool[m] = StaleAge THEN Free ELSE pool[m]]
    BY <1>5 DEF AcquireFromNumber
  <2>2. /\ pc[a] = "waitNumber" /\ pc' = [pc EXCEPT ![a] = "haveNumber"]
        /\ UNCHANGED <<slot, numMap, call, due, hpc, hrun>>
    BY <1>5 DEF AcquireFromNumber
  <2>3. slot[a] \in 0 .. StaleAge - 1
    BY <2>2 DEF LiveCallsHoldSlots, Holding, FreshSlots
  <2>4. /\ n \in Numbers /\ n \notin Taken
        /\ \A m \in Taken : pool'[m] = pool[m] /\ m # n
    BY <2>1 DEF AvailableNumbers, Taken, Free
  <2>5. \A b \in Attempts : b # a /\ Keeps(b)' =>
          /\ Keeps(b) /\ num'[b] = num[b] /\ num[b] \in Taken
          /\ pool'[num[b]] = pool[num[b]]
          /\ KeepsSlot(b)' => KeepsSlot(b)
    BY <2>1, <2>2, <2>4 DEF NumbersKept, Kept
  <2>6. num'[a] = n /\ pool'[n] = 0
    BY <2>1, <2>4
  <2>7. \A b \in Attempts : Keeps(b)' => Kept(b)'
    <3>1. Kept(a)'
      BY <2>2, <2>3, <2>4, <2>6 DEF Kept, Taken
    <3>2. ASSUME NEW b \in Attempts, b # a, Keeps(b)' PROVE Kept(b)'
      BY <3>2, <2>2, <2>5 DEF NumbersKept, Kept, Taken
    <3>3. QED
      BY <3>1, <3>2
  <2>8. \A b, c \in Attempts : Keeps(b)' /\ Keeps(c)' /\ b # c => num'[b] # num'[c]
    BY <2>4, <2>5, <2>6 DEF NumbersKept
  <2>9. QED
    BY <2>7, <2>8 DEF NumbersKept
<1>6. QED
  BY <1>1, <1>2, <1>3, <1>4, <1>5 DEF Acquire

\* Whoever frees its number is no longer one who has a number, and nobody else has it.
LEMMA KeptFreed ==
  ASSUME TypeOK, NumbersKept, NEW r \in Attempts, Keeps(r), ~Keeps(r)',
         pool' = WithFreed(num[r]), UNCHANGED num,
         \A b \in Attempts \ {r} :
           /\ Keeps(b)' => Keeps(b)
           /\ KeepsSlot(b)' => KeepsSlot(b) /\ slot'[b] = slot[b]
  PROVE  NumbersKept'
<1>1. \A b \in Attempts : Keeps(b)' => Keeps(b) /\ b # r /\ num[b] # num[r] /\ num[b] \in Numbers
  BY DEF NumbersKept, Kept, Taken
<1>2. \A b \in Attempts : Keeps(b)' => pool'[num[b]] = pool[num[b]]
  BY <1>1 DEF TypeOK, WithFreed
<1>3. QED
  BY <1>1, <1>2, KeptStill

LEMMA KeptPlace ==
  ASSUME Reliable, TypeOK, LiveCallsHoldSlots, NumbersKept,
         NEW a \in Attempts, Place(a) \/ Recover(a)
  PROVE  NumbersKept'
<1> USE DEF TypeOK, Goto, Keeps, KeepsSlot, Awaited
<1>1. CASE CreateWorkflowRun(a)
  <2>1. CASE Goto(a, "haveNumber", "created") /\ UNCHANGED <<slot, pool>>
    BY <1>1, <2>1, KeptStill DEF CreateWorkflowRun
  <2>2. CASE Goto(a, "haveNumber", "failed") /\ slot' = WithoutSlot(a) /\ pool' = WithFreed(num[a])
    <3>1. call[a] = "none" /\ due[a] = 0 /\ \A h \in Handlers : hrun[h] = a => hpc[h] = "idle"
      BY <2>2, DeliveryAssumption DEF LiveCallsHoldSlots, Dispatching
    <3>2. UNCHANGED <<num, numMap, call, due, hpc, hrun>>
      BY <1>1 DEF CreateWorkflowRun
    <3>3. Keeps(a) /\ ~Keeps(a)'
      BY <2>2, <3>1, <3>2
    <3>4. \A b \in Attempts \ {a} : pc'[b] = pc[b] /\ slot'[b] = slot[b]
      BY <2>2 DEF WithoutSlot
    <3>5. QED
      BY <2>2, <3>2, <3>3, <3>4, KeptFreed
  <2>3. QED
    BY <1>1, <2>1, <2>2 DEF CreateWorkflowRun
<1>2. CASE StoreWorkflowSlotMapping(a) \/ StoreWorkflowFromNumberMapping(a) \/ TagRetry(a)
  BY <1>2, KeptStill DEF StoreWorkflowSlotMapping, StoreWorkflowFromNumberMapping, TagRetry
<1>3. CASE InitiateCall(a) \/ SaveCallMetadata(a)
  BY <1>3, KeptStill DEF InitiateCall, SaveCallMetadata, Reliable
<1>4. CASE RecoverSlot(a)
  <2>1. Goto(a, "freeSlot", "readNumber") /\ UNCHANGED <<num, numMap, pool, call, due, hpc, hrun>>
    BY <1>4 DEF RecoverSlot, Reliable
  <2>2. call[a] = "none" /\ due[a] = 0 /\ \A h \in Handlers : hrun[h] = a => hpc[h] = "idle"
    BY <2>1, DeliveryAssumption DEF LiveCallsHoldSlots, Dispatching
  <2>3. Keeps(a) /\ ~KeepsSlot(a)' /\ \A b \in Attempts \ {a} : pc'[b] = pc[b] /\ slot'[b] = slot[b]
    BY <1>4, <2>1, <2>2 DEF RecoverSlot, WithoutSlot
  <2>4. QED
    BY <2>1, <2>3, KeptStill
<1>5. CASE RecoverReadNumber(a) \/ RecoverDropNumber(a)
  BY <1>5, KeptStill DEF RecoverReadNumber, RecoverDropNumber
<1>6. CASE RecoverFreeNumber(a)
  <2>1. /\ Goto(a, "freeNumber", "dropNumber") /\ pool' = WithFreed(num[a])
        /\ UNCHANGED <<slot, num, numMap, call, due, hpc, hrun>>
    BY <1>6 DEF RecoverFreeNumber
  <2>2. call[a] = "none" /\ due[a] = 0 /\ \A h \in Handlers : hrun[h] = a => hpc[h] = "idle"
    BY <2>1, DeliveryAssumption DEF LiveCallsHoldSlots, Dispatching
  <2>3. Keeps(a) /\ ~Keeps(a)' /\ \A b \in Attempts \ {a} : pc'[b] = pc[b]
    BY <2>1, <2>2
  <2>4. QED
    BY <2>1, <2>3, KeptFreed
<1>7. QED
  BY <1>1, <1>2, <1>3, <1>4, <1>5, <1>6 DEF Place, Recover

LEMMA KeptRelease ==
  ASSUME TypeOK, LiveCallsHoldSlots, SingleFile, NumbersKept, NEW h \in Handlers, Release(h)
  PROVE  NumbersKept'
<1> USE NoneAssumption DEF TypeOK, HandlerGoto, Keeps, KeepsSlot, Awaited
<1>0. PICK r \in Attempts : r = hrun[h]
  BY DEF Release, HandlerReleaseSlot, HandlerReadNumber, HandlerReleaseNumber,
     HandlerDropNumber, LiveCallsHoldSlots
<1>1. /\ hrun[h] = r /\ call[r] = "ended" /\ hpc[h] # "idle"
      /\ pc[r] \notin Dispatching \ {"placed"}
      /\ \A g \in Handlers : hrun[g] = r => g = h
  BY <1>0 DEF Release, HandlerReleaseSlot, HandlerReadNumber, HandlerReleaseNumber,
     HandlerDropNumber, LiveCallsHoldSlots, SingleFile
<1>2. CASE HandlerReleaseSlot(h)
  <2>1. /\ hpc[h] = "freeSlot" /\ hpc' = [hpc EXCEPT ![h] = "readNumber"]
        /\ UNCHANGED <<pc, num, numMap, pool, call, due, hrun>>
        /\ \A b \in Attempts \ {r} : slot'[b] = slot[b]
    BY <1>1, <1>2 DEF HandlerReleaseSlot, WithoutSlot
  <2>2. (Keeps(r)' => Keeps(r)) /\ ~KeepsSlot(r)'
    BY <1>1, <2>1 DEF Dispatching
  <2>3. \A b \in Attempts \ {r} : (Keeps(b)' => Keeps(b)) /\ (KeepsSlot(b)' => KeepsSlot(b))
    BY <1>1, <2>1
  <2>4. QED
    BY <2>1, <2>2, <2>3, KeptStill
<1>3. CASE HandlerReadNumber(h) \/ HandlerDropNumber(h)
  <2>1. /\ UNCHANGED <<pc, slot, num, pool, call, due>>
        /\ \A b \in Attempts \ {r} : numMap'[b] = numMap[b]
        /\ \A g \in Handlers \ {h} : hpc'[g] = hpc[g] /\ hrun'[g] = hrun[g]
    BY <1>1, <1>3 DEF HandlerReadNumber, HandlerDropNumber
  <2>2. \/ /\ hpc[h] = "readNumber" /\ hpc'[h] = "freeNumber" /\ hrun' = hrun
           /\ numMap[r] # Gone /\ numMap' = numMap
        \/ /\ numMap'[r] = Gone /\ hpc' = [hpc EXCEPT ![h] = "idle"]
           /\ hrun' = [hrun EXCEPT ![h] = NoRun]
    BY <1>1, <1>3 DEF HandlerReadNumber, HandlerDropNumber
  <2>3. CASE hrun' = hrun
    <3>1. (Keeps(r)' => Keeps(r)) /\ ~KeepsSlot(r)'
      BY <1>1, <2>1, <2>2, <2>3 DEF Dispatching
    <3>2. \A b \in Attempts \ {r} : (Keeps(b)' => Keeps(b)) /\ (KeepsSlot(b)' => KeepsSlot(b))
      BY <1>1, <2>1, <2>2, <2>3
    <3> HIDE DEF Keeps, KeepsSlot, Awaited
    <3>3. QED
      BY <2>1, <3>1, <3>2, KeptStill
  <2>4. CASE numMap'[r] = Gone /\ hrun' = [hrun EXCEPT ![h] = NoRun]
             /\ hpc' = [hpc EXCEPT ![h] = "idle"]
    <3>1. ~Keeps(r)'
      BY <1>1, <2>1, <2>4 DEF Dispatching
    <3>2. \A g \in Handlers : \A b \in Attempts \ {r} : hrun'[g] = b <=> hrun[g] = b
      BY <1>1, <2>4
    <3>3. \A g \in Handlers : \A b \in Attempts \ {r} :
            hrun[g] = b => hpc'[g] = hpc[g]
      BY <1>1, <2>4
    <3>4. \A b \in Attempts \ {r} : KeepsSlot(b)' => KeepsSlot(b)
      BY <2>1, <3>2, <3>3
    <3>5. \A b \in Attempts \ {r} : Keeps(b)' => Keeps(b)
      BY <2>1, <3>2, <3>3, <3>4
    <3> HIDE DEF Keeps, KeepsSlot, Awaited
    <3>6. QED
      BY <2>1, <3>1, <3>4, <3>5, KeptStill
  <2>5. QED
    BY <2>2, <2>3, <2>4
<1>4. CASE HandlerReleaseNumber(h)
  <2>1. /\ hpc[h] = "freeNumber" /\ hpc' = [hpc EXCEPT ![h] = "dropNumber"]
        /\ pool' = WithFreed(num[r])
        /\ UNCHANGED <<pc, slot, num, numMap, call, due, hrun>>
    BY <1>1, <1>4 DEF HandlerReleaseNumber
  <2>2. Keeps(r) /\ ~Keeps(r)'
    BY <1>1, <2>1 DEF Dispatching
  <2>3. \A b \in Attempts \ {r} : (Keeps(b)' => Keeps(b)) /\ (KeepsSlot(b)' => KeepsSlot(b))
    BY <2>1
  <2>4. QED
    BY <1>1, <2>1, <2>2, <2>3, KeptFreed
<1>5. QED
  BY <1>2, <1>3, <1>4 DEF Release

\* A number is not stale before the slot taken ahead of it, which does not become
\* stale under anybody who has it.
LEMMA KeptTick ==
  ASSUME Reliable, TypeOK, LiveCallsHoldSlots, NumbersKept, Tick
  PROVE  NumbersKept'
<1>1. Prompt /\ UNCHANGED <<pc, num, call, due, hpc, hrun>>
  BY DEF Tick, Reliable
<1>2. \A b \in Attempts : (Keeps(b)' => Keeps(b)) /\ (KeepsSlot(b)' => KeepsSlot(b))
  <2>1. ASSUME NEW b \in Attempts, numMap'[b] # Gone PROVE numMap[b] # Gone
    BY <2>1 DEF Tick, Expiring, TypeOK, Gone
  <2>2. QED
    BY <1>1, <2>1 DEF Keeps, KeepsSlot, Awaited
<1>3. ASSUME NEW b \in Attempts, Keeps(b) PROVE Kept(b)'
  <2>1. KeepsSlot(b)
    BY <1>1, <1>3 DEF Keeps, Prompt, ReleaseSteps
  <2>2. Busy(b)
    BY <2>1 DEF KeepsSlot, Awaited, Busy, Dispatching
  <2>3. slot[b] + 1 < StaleAge
    BY <1>1, <2>2 DEF Prompt
  <2>4. num[b] \in Numbers /\ pool[num[b]] \in Nat /\ pool[num[b]] =< slot[b]
    BY <1>3, <2>1, TimeAssumption DEF NumbersKept, Kept, Taken
  <2>5. slot[b] \in Int /\ slot[b] >= 0
    BY <2>4 DEF TypeOK, Gone
  <2>6. slot'[b] = slot[b] + 1 /\ pool'[num[b]] = pool[num[b]] + 1
    BY <2>3, <2>4, <2>5, TimeAssumption DEF Tick, Older, TypeOK
  <2>7. QED
    BY <1>1, <2>3, <2>4, <2>5, <2>6, TimeAssumption DEF Kept, Taken
<1>4. QED
  BY <1>1, <1>2, <1>3 DEF NumbersKept

LEMMA KeptStep ==
  ASSUME Reliable, TypeOK, LiveCallsHoldSlots, SingleFile, SingleFile', NumbersKept, [Next]_vars
  PROVE  NumbersKept'
<1> USE NoneAssumption DEF TypeOK, Keeps, KeepsSlot, Awaited
<1>1. ASSUME NEW a \in Attempts, CancelJob(a) \/ EndCall(a) PROVE NumbersKept'
  BY <1>1, KeptStill DEF CancelJob, EndCall
<1>2. ASSUME NEW h \in Handlers, NEW a \in Attempts, ReceiveStatus(h, a) PROVE NumbersKept'
  <2>1. /\ due[a] > 0 /\ due' = [due EXCEPT ![a] = @ - 1] /\ hpc[h] = "idle"
        /\ hpc' = [hpc EXCEPT ![h] = "freeSlot"] /\ hrun' = [hrun EXCEPT ![h] = a]
        /\ UNCHANGED <<pc, slot, num, numMap, pool, call>>
    BY <1>2 DEF ReceiveStatus, TerminalStatus, HandlerGoto
  <2>2. \A g \in Handlers : hrun[g] # a
    BY <2>1 DEF SingleFile, LiveCallsHoldSlots
  <2>3. KeepsSlot(a)' => KeepsSlot(a)
    BY <2>1, <2>2
  <2>4. Keeps(a)' => Keeps(a)
    BY <2>1, <2>2, <2>3
  <2>5. \A g \in Handlers : hrun'[g] # a => g # h /\ hrun'[g] = hrun[g] /\ hpc'[g] = hpc[g]
    BY <2>1
  <2>6. ASSUME NEW b \in Attempts \ {a} PROVE KeepsSlot(b)' => KeepsSlot(b)
    <3>1. \A g \in Handlers : hrun'[g] = b <=> hrun[g] = b
      BY <2>1, <2>6 DEF LiveCallsHoldSlots
    <3>2. QED
      BY <2>1, <2>5, <2>6, <3>1
  <2>7. ASSUME NEW b \in Attempts \ {a} PROVE Keeps(b)' => Keeps(b)
    BY <2>1, <2>5, <2>6, <2>7
  <2>8. QED
    BY <2>1, <2>3, <2>4, <2>6, <2>7, KeptStill
<1>3. CASE Terminating \/ UNCHANGED vars
  BY <1>3, KeptStill DEF Terminating, vars
<1>4. QED
  BY <1>1, <1>2, <1>3, KeptAcquire, KeptPlace, KeptRelease, KeptTick DEF Next, Dispatch

\* Distinct attempts that have a number have distinct numbers, none of them stale.
THEOREM NumberKept ==
  ASSUME Reliable
  PROVE  Spec /\ []SingleFile => []NumbersKept
<1>1. ASSUME Init PROVE NumbersKept
  <2>1. /\ \A a \in Attempts : pc[a] = "claimed" /\ call[a] = "none" /\ due[a] = 0
        /\ \A h \in Handlers : hpc[h] = "idle"
    BY <1>1 DEF Init
  <2>2. QED
    BY <2>1 DEF NumbersKept, Keeps, KeepsSlot, Awaited
<1>2. TypeOK /\ LiveCallsHoldSlots /\ SingleFile /\ SingleFile' /\ NumbersKept /\ [Next]_vars
        => NumbersKept'
  BY KeptStep
<1>3. QED
  BY <1>1, <1>2, TypeCorrect, LiveHoldSlots, PTL DEF Spec

\* Two calls in progress never show the same number, however often their ends are
\* reported, if a call that was placed is recorded, no call outlasts
\* stale_call_timeout and the reports of one call are not worked on at once.
THEOREM CallersUnique ==
  ASSUME Reliable
  PROVE  Spec /\ []SingleFile => []UniqueCallers
<1>1. NumbersKept => UniqueCallers
  BY DEF NumbersKept, Keeps, KeepsSlot, UniqueCallers, Live
<1>2. QED
  BY <1>1, NumberKept, PTL

\* Both modules count with the Cardinality of FiniteSets.
LEMMA OneCardinality == ASSUME NEW S PROVE OC!Cardinality(S) = Cardinality(S)
BY DEF OC!Cardinality, Cardinality

\* Placing a call is a step of OutboundCalls: the limit and the number are free.
LEMMA CallPlaced ==
  ASSUME TypeOK, LiveCallsHoldSlots, NumbersKept, CallsWithinLimit', NEW a \in Attempts,
         pc[a] = "tagged", call' = [call EXCEPT ![a] = "live"], UNCHANGED num,
         NEW n \in Numbers, n = num[a]
  PROVE  OC!Place(a, n)
<1>1. call[a] = "none"
  BY DEF LiveCallsHoldSlots, Dispatching
<1>2. Live' = Live \cup {a} /\ a \notin Live
  BY <1>1 DEF Live, TypeOK
<1>3. IsFiniteSet(Live) /\ Cardinality(Live) \in Nat
  BY FiniteAssumption, FS_Subset, FS_CardinalityType DEF Live
<1>4. Cardinality(Live') = Cardinality(Live) + 1
  BY <1>2, <1>3, FS_AddElement
<1>5. HighestLimit \in Nat /\ HighestLimit' = HighestLimit
  BY LimitAssumption DEF HighestLimit, OrgLimitReads
<1>6. Cardinality(Live) < HighestLimit
  BY <1>3, <1>4, <1>5 DEF CallsWithinLimit
<1>7. \A d \in Live : num[d] # n
  BY <1>1 DEF NumbersKept, Keeps, KeepsSlot, Live
<1>8. {b \in Attempts : call'[b] = "ended"} = {b \in Attempts : call[b] = "ended"}
  BY <1>1 DEF TypeOK
<1>9. [b \in Attempts |-> IF call'[b] = "none" THEN NoNumber ELSE num'[b]]
        = [[b \in Attempts |-> IF call[b] = "none" THEN NoNumber ELSE num[b]] EXCEPT ![a] = n]
  BY DEF TypeOK
<1>10. \A d \in Live :
         [b \in Attempts |-> IF call[b] = "none" THEN NoNumber ELSE num[b]][d] # n
  BY <1>7 DEF Live
<1>11. a \notin Live \cup {b \in Attempts : call[b] = "ended"}
  BY <1>1 DEF Live
<1>12. QED
  BY <1>2, <1>6, <1>8, <1>9, <1>10, <1>11, OneCardinality DEF OC!Place

LEMMA CallHung ==
  ASSUME TypeOK, NEW a \in Attempts, EndCall(a)
  PROVE  OC!Hang(a)
<1>1. call[a] = "live" /\ call' = [call EXCEPT ![a] = "ended"] /\ num' = num
  BY DEF EndCall
<1>2. a \in Live /\ Live' = Live \ {a}
  BY <1>1 DEF Live, TypeOK
<1>3. {b \in Attempts : call'[b] = "ended"} = {b \in Attempts : call[b] = "ended"} \cup {a}
  BY <1>1 DEF TypeOK
<1>4. [b \in Attempts |-> IF call'[b] = "none" THEN NoNumber ELSE num'[b]]
        = [b \in Attempts |-> IF call[b] = "none" THEN NoNumber ELSE num[b]]
  BY <1>1 DEF TypeOK
<1>5. QED
  BY <1>2, <1>3, <1>4 DEF OC!Hang

\* Every other step leaves the calls and their numbers alone.
LEMMA CallsAlone ==
  ASSUME TypeOK, call' = call, \A b \in Attempts : call[b] # "none" => num'[b] = num[b]
  PROVE  UNCHANGED OC!vars
<1>1. [b \in Attempts |-> IF call'[b] = "none" THEN NoNumber ELSE num'[b]]
        = [b \in Attempts |-> IF call[b] = "none" THEN NoNumber ELSE num[b]]
  OBVIOUS
<1>2. Live' = Live /\ {b \in Attempts : call'[b] = "ended"} = {b \in Attempts : call[b] = "ended"}
  BY DEF Live
<1>3. QED
  BY <1>1, <1>2 DEF OC!vars

LEMMA StepMaps ==
  ASSUME TypeOK, LiveCallsHoldSlots, NumbersKept, CallsWithinLimit', [Next]_vars
  PROVE  [OC!Next]_OC!vars
<1>1. ASSUME NEW a \in Attempts, InitiateCall(a) PROVE [OC!Next]_OC!vars
  <2>1. pc[a] = "tagged" /\ UNCHANGED num
    BY <1>1 DEF InitiateCall, Goto
  <2>2. num[a] \in Numbers
    BY <2>1 DEF NumbersKept, Keeps, KeepsSlot, Kept, Taken
  <2>3. CASE call' = [call EXCEPT ![a] = "live"]
    <3>1. PICK n \in Numbers : n = num[a]
      BY <2>2
    <3>2. OC!Place(a, n)
      BY <2>1, <2>3, <3>1, CallPlaced
    <3>3. QED
      BY <3>2 DEF OC!Next
  <2>4. CASE call' = call
    BY <2>1, <2>4, CallsAlone
  <2>5. QED
    BY <1>1, <2>3, <2>4 DEF InitiateCall
<1>2. ASSUME NEW a \in Attempts, EndCall(a) PROVE [OC!Next]_OC!vars
  BY <1>2, CallHung DEF OC!Next
<1>3. ASSUME NEW a \in Attempts, AcquireFromNumber(a) PROVE [OC!Next]_OC!vars
  <2>1. call[a] = "none" /\ call' = call /\ \A b \in Attempts \ {a} : num'[b] = num[b]
    BY <1>3 DEF AcquireFromNumber, Goto, LiveCallsHoldSlots, Dispatching, TypeOK
  <2>2. QED
    BY <2>1, CallsAlone
<1>4. ASSUME NEW a \in Attempts, Dispatch(a), ~InitiateCall(a), ~AcquireFromNumber(a)
      PROVE  [OC!Next]_OC!vars
  <2>1. UNCHANGED <<call, num>>
    BY <1>4 DEF Dispatch, Acquire, Place, Recover, InitializeFromNumberPool, ApplyRateLimit,
       TryAcquireConcurrentSlot, ConcurrentSlotTimeout, LookUpRun, GetTelephonyProvider,
       FromNumberTimeout, CreateWorkflowRun, StoreWorkflowSlotMapping,
       StoreWorkflowFromNumberMapping, TagRetry, SaveCallMetadata, RecoverSlot,
       RecoverReadNumber, RecoverFreeNumber, RecoverDropNumber
  <2>2. QED
    BY <2>1, CallsAlone
<1>5. ASSUME \/ \E a \in Attempts : CancelJob(a)
             \/ \E h \in Handlers : Release(h) \/ \E a \in Attempts : ReceiveStatus(h, a)
             \/ Tick \/ Terminating \/ UNCHANGED vars
      PROVE  [OC!Next]_OC!vars
  <2>1. UNCHANGED <<call, num>>
    BY <1>5 DEF CancelJob, Release, HandlerReleaseSlot, HandlerReadNumber, HandlerReleaseNumber,
       HandlerDropNumber, ReceiveStatus, Tick, Terminating, vars
  <2>2. QED
    BY <2>1, CallsAlone
<1>6. QED
  BY <1>1, <1>2, <1>3, <1>4, <1>5 DEF Next

\* Dispatcher, handlers and rate limiter keep the promise of OutboundCalls, for any
\* number of reports of a call, if one is dealt with before the next is begun.
THEOREM CallsImplemented ==
  ASSUME Reliable
  PROVE  Spec /\ []SingleFile => ImplementsOutboundCalls
<1>1. Init => OC!Init
  <2> SUFFICES ASSUME Init PROVE OC!Init
    OBVIOUS
  <2>1. Live = {} /\ {a \in Attempts : call[a] = "ended"} = {}
    BY DEF Init, Live
  <2>2. [a \in Attempts |-> IF call[a] = "none" THEN NoNumber ELSE num[a]]
          = [a \in Attempts |-> NoNumber]
    BY DEF Init
  <2>3. QED
    BY <2>1, <2>2 DEF OC!Init
<1>2. TypeOK /\ LiveCallsHoldSlots /\ NumbersKept /\ CallsWithinLimit' /\ [Next]_vars
        => [OC!Next]_OC!vars
  BY StepMaps
<1>3. QED
  BY <1>1, <1>2, TypeCorrect, LiveHoldSlots, CallLimit, NumberKept, PTL
     DEF Spec, ImplementsOutboundCalls, OC!Spec
=============================================================================
