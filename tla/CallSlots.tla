------------------------------ MODULE CallSlots ------------------------------
(***************************************************************************)
(* The campaign call dispatcher over the Redis rate limiter.               *)
(*                                                                         *)
(* One attempt is one queued run being dispatched by an arq job: it takes  *)
(* a concurrency slot and a caller number, creates a workflow run, stores  *)
(* the two mappings that let a later request give them back, and asks the  *)
(* provider to place the call.  The job ends there; the slot and the       *)
(* number are released by the HTTP handler of the provider's terminal      *)
(* status, in another process, which knows only the workflow run.          *)
(*                                                                         *)
(* Every await of the code is a step, so attempts and handlers interleave  *)
(* between any two Redis calls.  Each Lua script is one step.  Redis       *)
(* scores and TTLs are ages, in ticks of ten minutes: a score is the age   *)
(* of the entry, a key with a TTL disappears when its age reaches it.      *)
(***************************************************************************)
EXTENDS Integers, FiniteSets

CONSTANTS
  Attempts,       \* dispatches of queued runs (slot id, workflow run and call are named by it)
  Numbers,        \* provider.from_numbers
  NoNumber,       \* the from_number of an attempt that has none yet
  Handlers,       \* concurrent requests that carry a terminal call status
  NoRun,          \* the run of an idle handler
  CampaignLimit,  \* [Attempts -> limit]: max_concurrency of the attempt's campaign
  NoLimit,        \* a campaign without max_concurrency
  OrgLimit,       \* the organization's CONCURRENT_CALL_LIMIT
  DefaultLimit,   \* DEFAULT_ORG_CONCURRENCY_LIMIT
  StaleAge,       \* stale_call_timeout (1200 s), in ticks
  NumberTTL,      \* TTL of the from_number mapping (1800 s), in ticks
  MaxDeliveries,  \* how often a provider may report the end of one call
  Faults          \* what may go wrong in a run, see AllFaults

\* lookup: a database or configuration read of the dispatcher raises
\* create: creating the workflow run raises;  tag: tagging a retry raises
\* store:  Redis refuses a mapping (swallowed by the code)
\* refuse: the provider refuses the call
\* save:   recording the outcome of the call raises, although it may be placed
\* cancel: arq cancels the job (job timeout or worker shutdown)
\* lostStatus: no terminal status ever arrives
\* longCall: a call and its release may outlast stale_call_timeout
AllFaults == {"lookup", "create", "tag", "store", "refuse", "save", "cancel",
              "lostStatus", "longCall"}

ASSUME FiniteAssumption == IsFiniteSet(Attempts)
ASSUME NoneAssumption == NoNumber \notin Numbers /\ NoRun \notin Attempts
ASSUME LimitAssumption ==
  /\ OrgLimit \in Nat \ {0}
  /\ DefaultLimit \in Nat \ {0}
  /\ NoLimit \notin Nat
  /\ CampaignLimit \in [Attempts -> (Nat \ {0}) \cup {NoLimit}]
ASSUME TimeAssumption ==
  /\ StaleAge \in Nat \ {0}
  /\ NumberTTL \in Nat
  /\ StaleAge =< NumberTTL
ASSUME DeliveryAssumption == MaxDeliveries \in Nat \ {0}
ASSUME FaultAssumption == Faults \subseteq AllFaults

VARIABLES
  pc,        \* where each attempt stands
  slot,      \* age of the attempt's member of the ZSET concurrent_calls, or Gone
  slotMap,   \* age of workflow_slot_mapping of the attempt's run, or Gone
  num,       \* the from_number the attempt took
  numMap,    \* age of workflow_from_number of the attempt's run, or Gone
  pool,      \* from_number_pool: Absent, Free (score 0) or the age of the take
  call,      \* the provider's view of the call
  due,       \* terminal statuses still to be delivered for the call
  hpc,       \* where each status handler stands
  hrun       \* the workflow run the handler works on

vars == <<pc, slot, slotMap, num, numMap, pool, call, due, hpc, hrun>>

Gone == -1
Absent == -2
Free == -1

Dispatching == {"claimed", "new", "waitSlot", "haveSlot", "lookedUp", "waitNumber",
                "haveNumber", "created", "slotStored", "stored", "tagged", "placed",
                "freeSlot", "readNumber", "freeNumber", "dropNumber"}
Finished == {"processed", "failed", "reverted", "abandoned"}
ReleaseSteps == {"readNumber", "freeNumber", "dropNumber"}
HandlerSteps == {"idle", "freeSlot"} \cup ReleaseSteps

TypeOK ==
  /\ pc \in [Attempts -> Dispatching \cup Finished]
  /\ slot \in [Attempts -> Gone .. StaleAge]
  /\ slotMap \in [Attempts -> Gone .. StaleAge]
  /\ num \in [Attempts -> Numbers \cup {NoNumber}]
  /\ numMap \in [Attempts -> Gone .. NumberTTL]
  /\ pool \in [Numbers -> Absent .. StaleAge]
  /\ call \in [Attempts -> {"none", "live", "ended"}]
  /\ due \in [Attempts -> 0 .. MaxDeliveries]
  /\ hpc \in [Handlers -> HandlerSteps]
  /\ hrun \in [Handlers -> Attempts \cup {NoRun}]

Init ==
  /\ pc = [a \in Attempts |-> "claimed"]
  /\ slot = [a \in Attempts |-> Gone]
  /\ slotMap = [a \in Attempts |-> Gone]
  /\ num = [a \in Attempts |-> NoNumber]
  /\ numMap = [a \in Attempts |-> Gone]
  /\ pool = [n \in Numbers |-> Absent]
  /\ call = [a \in Attempts |-> "none"]
  /\ due = [a \in Attempts |-> 0]
  /\ hpc = [h \in Handlers |-> "idle"]
  /\ hrun = [h \in Handlers |-> NoRun]

-----------------------------------------------------------------------------
(* The Redis structures. *)

\* ZCARD of concurrent_calls after ZREMRANGEBYSCORE of the stale members.
FreshSlots == {a \in Attempts : slot[a] \in 0 .. StaleAge - 1}
Slots == {a \in Attempts : slot[a] # Gone}
Stale(a) == slot[a] = StaleAge

\* The definitions named Slip... are the definition that follows them with a
\* plausible mistake: the properties below are shown to notice each of them.

\* ZREMRANGEBYSCORE of the stale members.
WithoutStale == [b \in Attempts |-> IF Stale(b) THEN Gone ELSE slot[b]]

\* The numbers with score 0 once the stale ones were put back.
AvailableNumbers == {n \in Numbers : pool[n] \in {Free, StaleAge}}

\* get_org_concurrent_limit: a read that raises falls back to the default.
OrgLimitReads == {OrgLimit} \cup (IF "lookup" \in Faults THEN {DefaultLimit} ELSE {})

\* No read ever returns more than this.
HighestLimit == IF DefaultLimit \in OrgLimitReads /\ DefaultLimit > OrgLimit
                  THEN DefaultLimit ELSE OrgLimit

MaxConcurrent(a, orgLimit) ==
  IF CampaignLimit[a] # NoLimit /\ CampaignLimit[a] < orgLimit
    THEN CampaignLimit[a]
    ELSE orgLimit

\* The test of the Lua script, with the limit read for the campaign of a.
SlipHasRoom(a) ==
  \E orgLimit \in OrgLimitReads : Cardinality(FreshSlots) =< MaxConcurrent(a, orgLimit)
HasRoom(a) ==
  \E orgLimit \in OrgLimitReads : Cardinality(FreshSlots) < MaxConcurrent(a, orgLimit)

\* ZREM of the slot.
SlipWithoutSlot(r) == slot
WithoutSlot(r) == [slot EXCEPT ![r] = Gone]

\* initialize_from_number_pool: ZADD NX leaves the numbers in use alone.
SlipNumbersAdded == [n \in Numbers |-> Free]
NumbersAdded == [n \in Numbers |-> IF pool[n] = Absent THEN Free ELSE pool[n]]

\* release_from_number: any member of the pool gets score 0, whoever took it.
SlipWithFreed(n) == pool
WithFreed(n) == [pool EXCEPT ![n] = IF @ = Absent THEN @ ELSE Free]

-----------------------------------------------------------------------------
(* process_batch and dispatch_call, one await at a time. *)

Goto(a, from, to) ==
  /\ pc[a] = from
  /\ pc' = [pc EXCEPT ![a] = to]

\* Start of the batch: ZADD NX of the provider's numbers.
InitializeFromNumberPool(a) ==
  /\ Goto(a, "claimed", "new")
  /\ \/ pool' = NumbersAdded
     \/ "lookup" \in Faults /\ UNCHANGED pool
  /\ UNCHANGED <<slot, slotMap, num, numMap, call, due, hpc, hrun>>

\* acquire_token succeeds within a second, or the run is marked failed.
ApplyRateLimit(a) ==
  /\ Goto(a, "new", "waitSlot") \/ Goto(a, "new", "failed")
  /\ UNCHANGED <<slot, slotMap, num, numMap, pool, call, due, hpc, hrun>>

\* The Lua script: drop stale members, compare, add.
TryAcquireConcurrentSlot(a) ==
  /\ Goto(a, "waitSlot", "haveSlot")
  /\ HasRoom(a)
  /\ slot' = [WithoutStale EXCEPT ![a] = 0]
  /\ UNCHANGED <<slotMap, num, numMap, pool, call, due, hpc, hrun>>

\* The limit is reached on every poll: the stale members are dropped all the
\* same, and in the end ConcurrentSlotAcquisitionError reverts the run.
ConcurrentSlotTimeout(a) ==
  /\ Goto(a, "waitSlot", "reverted")
  /\ \E orgLimit \in OrgLimitReads :
       Cardinality(FreshSlots) >= MaxConcurrent(a, orgLimit)
  /\ slot' = WithoutStale
  /\ UNCHANGED <<slotMap, num, numMap, pool, call, due, hpc, hrun>>

\* Workflow and phone number: found, missing (slot released), or the read raises.
LookUpRun(a) ==
  /\ \/ Goto(a, "haveSlot", "lookedUp") /\ UNCHANGED slot
     \/ Goto(a, "haveSlot", "failed") /\ slot' = WithoutSlot(a)
     \/ "lookup" \in Faults /\ Goto(a, "haveSlot", "failed") /\ UNCHANGED slot
  /\ UNCHANGED <<slotMap, num, numMap, pool, call, due, hpc, hrun>>

\* get_telephony_provider raises for an organization without configuration.
GetTelephonyProvider(a) ==
  /\ \/ Goto(a, "lookedUp", "waitNumber")
     \/ "lookup" \in Faults /\ Goto(a, "lookedUp", "failed")
  /\ UNCHANGED <<slot, slotMap, num, numMap, pool, call, due, hpc, hrun>>

AcquireFromNumber(a) ==
  /\ Goto(a, "waitNumber", "haveNumber")
  /\ \E n \in AvailableNumbers :
       /\ num' = [num EXCEPT ![a] = n]
       /\ pool' = [m \in Numbers |->
                     IF m = n THEN 0 ELSE IF pool[m] = StaleAge THEN Free ELSE pool[m]]
  /\ UNCHANGED <<slot, slotMap, numMap, call, due, hpc, hrun>>

\* No number within sixty seconds: PhoneNumberPoolExhaustedError.
FromNumberTimeout(a) ==
  /\ Goto(a, "waitNumber", "reverted")
  /\ AvailableNumbers = {}
  /\ slot' = WithoutSlot(a)
  /\ UNCHANGED <<slotMap, num, numMap, pool, call, due, hpc, hrun>>

\* A workflow run that cannot be created gives slot and number back.  Both
\* releases are one step: no mapping names either of them yet.
CreateWorkflowRun(a) ==
  /\ \/ Goto(a, "haveNumber", "created") /\ UNCHANGED <<slot, pool>>
     \/ /\ "create" \in Faults
        /\ Goto(a, "haveNumber", "failed")
        /\ slot' = WithoutSlot(a)
        /\ pool' = WithFreed(num[a])
  /\ UNCHANGED <<slotMap, num, numMap, call, due, hpc, hrun>>

\* A refused store is swallowed: the run goes on without the mapping.
StoreWorkflowSlotMapping(a) ==
  /\ Goto(a, "created", "slotStored")
  /\ \/ slotMap' = [slotMap EXCEPT ![a] = 0]
     \/ "store" \in Faults /\ UNCHANGED slotMap
  /\ UNCHANGED <<slot, num, numMap, pool, call, due, hpc, hrun>>

StoreWorkflowFromNumberMapping(a) ==
  /\ Goto(a, "slotStored", "stored")
  /\ \/ numMap' = [numMap EXCEPT ![a] = 0]
     \/ "store" \in Faults /\ UNCHANGED numMap
  /\ UNCHANGED <<slot, slotMap, num, pool, call, due, hpc, hrun>>

\* Outside every try: a retry whose tag cannot be written keeps what it took.
TagRetry(a) ==
  /\ \/ Goto(a, "stored", "tagged")
     \/ "tag" \in Faults /\ Goto(a, "stored", "failed")
  /\ UNCHANGED <<slot, slotMap, num, numMap, pool, call, due, hpc, hrun>>

\* The provider places the call, or refuses it and the except branch runs.
InitiateCall(a) ==
  /\ \/ Goto(a, "tagged", "placed") /\ call' = [call EXCEPT ![a] = "live"]
     \/ "refuse" \in Faults /\ Goto(a, "tagged", "freeSlot") /\ UNCHANGED call
  /\ UNCHANGED <<slot, slotMap, num, numMap, pool, due, hpc, hrun>>

\* The same try block covers the update after the call was placed.
SaveCallMetadata(a) ==
  /\ \/ Goto(a, "placed", "processed")
     \/ "save" \in Faults /\ Goto(a, "placed", "freeSlot")
  /\ UNCHANGED <<slot, slotMap, num, numMap, pool, call, due, hpc, hrun>>

\* The except branch of dispatch_call: release through the mappings, which
\* are deleted whether or not something was released.  If recording the failure
\* raises as well, nothing is released.
RecoverSlot(a) ==
  /\ \/ /\ Goto(a, "freeSlot", "readNumber")
        /\ slot' = IF slotMap[a] # Gone THEN WithoutSlot(a) ELSE slot
        /\ slotMap' = [slotMap EXCEPT ![a] = Gone]
     \/ "save" \in Faults /\ Goto(a, "freeSlot", "failed") /\ UNCHANGED <<slot, slotMap>>
  /\ UNCHANGED <<num, numMap, pool, call, due, hpc, hrun>>

RecoverReadNumber(a) ==
  /\ \/ Goto(a, "readNumber", "freeNumber") /\ numMap[a] # Gone
     \/ Goto(a, "readNumber", "failed") /\ numMap[a] = Gone
  /\ UNCHANGED <<slot, slotMap, num, numMap, pool, call, due, hpc, hrun>>

RecoverFreeNumber(a) ==
  /\ Goto(a, "freeNumber", "dropNumber")
  /\ pool' = WithFreed(num[a])
  /\ UNCHANGED <<slot, slotMap, num, numMap, call, due, hpc, hrun>>

RecoverDropNumber(a) ==
  /\ Goto(a, "dropNumber", "failed")
  /\ numMap' = [numMap EXCEPT ![a] = Gone]
  /\ UNCHANGED <<slot, slotMap, num, pool, call, due, hpc, hrun>>

\* CancelledError is no Exception: no except branch runs, nothing is released.
CancelJob(a) ==
  /\ "cancel" \in Faults
  /\ pc[a] \in Dispatching
  /\ pc' = [pc EXCEPT ![a] = "abandoned"]
  /\ UNCHANGED <<slot, slotMap, num, numMap, pool, call, due, hpc, hrun>>

-----------------------------------------------------------------------------
(* The provider and release_call_slot, in the handlers of its statuses. *)

\* A call ends; the provider reports it once, or again with the CDR, or never.
EndCall(a) ==
  /\ call[a] = "live"
  /\ call' = [call EXCEPT ![a] = "ended"]
  /\ \E k \in 0 .. MaxDeliveries :
       /\ k = 0 => "lostStatus" \in Faults
       /\ due' = [due EXCEPT ![a] = k]
  /\ UNCHANGED <<pc, slot, slotMap, num, numMap, pool, hpc, hrun>>

HandlerGoto(h, from, to) ==
  /\ hpc[h] = from
  /\ hpc' = [hpc EXCEPT ![h] = to]

\* Only completed, failed, busy, no-answer, canceled and error release.
SlipTerminalStatus(a) == call[a] # "none"
TerminalStatus(a) == due[a] > 0

ReceiveStatus(h, a) ==
  /\ HandlerGoto(h, "idle", "freeSlot")
  /\ TerminalStatus(a)
  /\ due' = [due EXCEPT ![a] = @ - 1]
  /\ hrun' = [hrun EXCEPT ![h] = a]
  /\ UNCHANGED <<pc, slot, slotMap, num, numMap, pool, call>>

\* Mapping read, ZREM and mapping delete are one step: a slot id belongs to
\* one run, so the steps of two releases of a run commute.  The mapping goes
\* only if the ZREM removed something.
HandlerReleaseSlot(h) ==
  /\ HandlerGoto(h, "freeSlot", "readNumber")
  /\ LET r == hrun[h] IN
       IF slotMap[r] # Gone /\ slot[r] # Gone
         THEN /\ slot' = WithoutSlot(r)
              /\ slotMap' = [slotMap EXCEPT ![r] = Gone]
         ELSE UNCHANGED <<slot, slotMap>>
  /\ UNCHANGED <<pc, num, numMap, pool, call, due, hrun>>

HandlerReadNumber(h) ==
  /\ \/ /\ HandlerGoto(h, "readNumber", "freeNumber")
        /\ numMap[hrun[h]] # Gone
        /\ UNCHANGED hrun
     \/ /\ HandlerGoto(h, "readNumber", "idle")
        /\ numMap[hrun[h]] = Gone
        /\ hrun' = [hrun EXCEPT ![h] = NoRun]
  /\ UNCHANGED <<pc, slot, slotMap, num, numMap, pool, call, due>>

HandlerReleaseNumber(h) ==
  /\ HandlerGoto(h, "freeNumber", "dropNumber")
  /\ pool' = WithFreed(num[hrun[h]])
  /\ UNCHANGED <<pc, slot, slotMap, num, numMap, call, due, hrun>>

HandlerDropNumber(h) ==
  /\ HandlerGoto(h, "dropNumber", "idle")
  /\ numMap' = [numMap EXCEPT ![hrun[h]] = Gone]
  /\ hrun' = [hrun EXCEPT ![h] = NoRun]
  /\ UNCHANGED <<pc, slot, slotMap, num, pool, call, due>>

-----------------------------------------------------------------------------
(* Time. *)

Older(age, cap) == IF age < 0 \/ age = cap THEN age ELSE age + 1
Expiring(age, ttl) == IF age < 0 \/ age + 1 >= ttl THEN Gone ELSE age + 1

\* Somebody still works on the attempt or its call.
Busy(a) ==
  \/ pc[a] \in Dispatching
  \/ call[a] = "live"
  \/ due[a] > 0
  \/ \E h \in Handlers : hrun[h] = a

\* Nothing that holds a slot is about to outlast stale_call_timeout (a call
\* lasts max_call_duration, 300 s by default), and no release is half done (it
\* is a handful of Redis calls).
Prompt ==
  /\ \A a \in Attempts : Busy(a) => slot[a] + 1 < StaleAge
  /\ \A a \in Attempts : pc[a] \notin ReleaseSteps
  /\ \A h \in Handlers : hpc[h] \notin ReleaseSteps

\* Ten minutes pass.
Tick ==
  /\ Prompt \/ "longCall" \in Faults
  /\ slot' = [a \in Attempts |-> Older(slot[a], StaleAge)]
  /\ slotMap' = [a \in Attempts |-> Expiring(slotMap[a], StaleAge)]
  /\ numMap' = [a \in Attempts |-> Expiring(numMap[a], NumberTTL)]
  /\ pool' = [n \in Numbers |-> Older(pool[n], StaleAge)]
  /\ <<slot, slotMap, numMap, pool>>' # <<slot, slotMap, numMap, pool>>
  /\ UNCHANGED <<pc, num, call, due, hpc, hrun>>

-----------------------------------------------------------------------------
Acquire(a) ==
  \/ InitializeFromNumberPool(a)
  \/ ApplyRateLimit(a)
  \/ TryAcquireConcurrentSlot(a)
  \/ ConcurrentSlotTimeout(a)
  \/ LookUpRun(a)
  \/ GetTelephonyProvider(a)
  \/ AcquireFromNumber(a)
  \/ FromNumberTimeout(a)

Place(a) ==
  \/ CreateWorkflowRun(a)
  \/ StoreWorkflowSlotMapping(a)
  \/ StoreWorkflowFromNumberMapping(a)
  \/ TagRetry(a)
  \/ InitiateCall(a)
  \/ SaveCallMetadata(a)

Recover(a) ==
  \/ RecoverSlot(a)
  \/ RecoverReadNumber(a)
  \/ RecoverFreeNumber(a)
  \/ RecoverDropNumber(a)

Dispatch(a) == Acquire(a) \/ Place(a) \/ Recover(a)

Release(h) ==
  \/ HandlerReleaseSlot(h)
  \/ HandlerReadNumber(h)
  \/ HandlerReleaseNumber(h)
  \/ HandlerDropNumber(h)

\* Every attempt, call and handler is done: nothing is left to happen.
Terminating ==
  /\ \A a \in Attempts : ~Busy(a)
  /\ UNCHANGED vars

Next ==
  \/ \E a \in Attempts : Dispatch(a) \/ CancelJob(a) \/ EndCall(a)
  \/ \E h \in Handlers : Release(h) \/ \E a \in Attempts : ReceiveStatus(h, a)
  \/ Tick
  \/ Terminating

Spec == Init /\ [][Next]_vars

\* Jobs and handlers run on, calls end, statuses that are due arrive.  Time may
\* pass and need not: nothing below is owed to a time-out that runs down.
Fairness ==
  /\ \A a \in Attempts :
       WF_vars(Dispatch(a)) /\ WF_vars(EndCall(a)) /\ WF_vars(\E h \in Handlers : ReceiveStatus(h, a))
  /\ \A h \in Handlers : WF_vars(Release(h))

FairSpec == Spec /\ Fairness

-----------------------------------------------------------------------------
(* Safety. *)

Live == {a \in Attempts : call[a] = "live"}

\* The concurrency ZSET never holds more members than the organization may
\* have calls, whatever mix of campaign limits, stale members, retries and
\* failed dispatches it went through (the Lua script of
\* try_acquire_concurrent_slot).  A failed read of that limit counts as the
\* default limit.
SlotsWithinLimit == Cardinality(Slots) =< HighestLimit

\* The slots exist to bound the calls: there are never more calls in progress
\* than the limit (DEFAULT_ORG_CONCURRENCY_LIMIT, "Maximum concurrent outbound
\* calls per organization"), although the code that ends a call's slot runs
\* in another process than the code that placed the call.
CallsWithinLimit == Cardinality(Live) =< HighestLimit

\* Why it is so (the inductive invariant of the proof): an attempt holds a slot
\* that is not stale from the acquisition until its call is placed, and a call
\* in progress still holds it, because only a call that has ended has a status
\* to deliver and a handler at work, and only a call that was never placed is
\* recovered.
Holding == {"haveSlot", "lookedUp", "waitNumber", "haveNumber", "created",
            "slotStored", "stored", "tagged"}

LiveCallsHoldSlots ==
  /\ \A a \in Attempts : pc[a] \in Holding => a \in FreshSlots
  /\ \A a \in Live : a \in FreshSlots
  /\ \A a \in Attempts : pc[a] \in Dispatching \ {"placed"} => call[a] = "none"
  /\ \A a \in Attempts : due[a] > 0 => call[a] = "ended"
  /\ \A h \in Handlers : hpc[h] = "idle" \/ (hrun[h] \in Attempts /\ call[hrun[h]] = "ended")
  /\ \A h \in Handlers : hpc[h] = "idle" => hrun[h] = NoRun

\* Two calls in progress never show the same caller number (acquire_from_number
\* hands out "a unique from_number"; release_from_number takes no owner).
UniqueCallers ==
  \A a, b \in Live : a # b => num[a] # num[b]

\* A slot that is not stale belongs to a dispatch, a call or a release that is
\* still going on: no path through dispatch_call forgets the slot it was given.
NoOrphanSlot == \A a \in FreshSlots : Busy(a)

\* A number marked as in use was taken by an attempt that still has something
\* to do and that can find the number again: its own local variable before the
\* mapping is stored, the mapping afterwards.
NumberHasOwner ==
  \A n \in Numbers \ AvailableNumbers :
    pool[n] = Absent \/ \E a \in Attempts :
      /\ num[a] = n
      /\ Busy(a)
      /\ pc[a] \in {"haveNumber", "created", "slotStored"} \/ numMap[a] # Gone

-----------------------------------------------------------------------------
(* Liveness. *)

\* The end of a call gives back its slot, the mapping that names its number, and
\* the number itself, which others may take again, and they give it back in their
\* turn (release_call_slot, with the except branch of dispatch_call at work on
\* the same run and the same end reported twice to two handlers).
EndedCallReleases ==
  \A a \in Attempts :
    /\ call[a] = "ended" ~> a \notin FreshSlots /\ numMap[a] = Gone
    /\ call[a] = "ended" ~> num[a] \in AvailableNumbers

-----------------------------------------------------------------------------
(* The promise to the organization. *)

OC == INSTANCE OutboundCalls WITH
        Calls <- Attempts,
        Callers <- Numbers,
        Limit <- HighestLimit,
        live <- Live,
        ended <- {a \in Attempts : call[a] = "ended"},
        caller <- [a \in Attempts |-> IF call[a] = "none" THEN NoNumber ELSE num[a]]

\* Every step of dispatcher, handlers and rate limiter is a step of
\* OutboundCalls or leaves the calls alone.
ImplementsOutboundCalls == OC!Spec
=============================================================================
