--------------------------- MODULE PostCall_proofs ---------------------------
(***************************************************************************)
(* Type correctness of PostCall, the soundness of the usage ledger, the    *)
(* healing of transcripts and the coverage of the cost.                    *)
(***************************************************************************)
EXTENDS PostCall, TLAPS

-----------------------------------------------------------------------------
(* Types. *)

\* A job that waits in the queue has a try left.
Tries == \A r \in Runs : job[r] = "queued" => tries[r] < MaxTries
Inv == TypeOK /\ Tries

LEMMA Initially == Init => Inv
<1> SUFFICES ASSUME Init PROVE Inv
  OBVIOUS
<1>1. RunTypes
  BY BoundsAssumption DEF Init, RunTypes, Places
<1>2. FileTypes
  BY FilesAssumption DEF Init, FileTypes, Content
<1>3. TextTypes
  BY DEF Init, TextTypes, Content
<1>4. BillTypes
  BY DEF Init, BillTypes, NotCosted, Costs
<1>5. LedgerTypes
  BY DEF Init, LedgerTypes
<1>6. Tries
  BY BoundsAssumption DEF Init, Tries
<1> QED
  BY <1>1, <1>2, <1>3, <1>4, <1>5, <1>6 DEF Inv, TypeOK

\* The queue, the tries and the mishaps of a run.
LEMMA Control ==
  ASSUME Inv, [Next]_vars
  PROVE  RunTypes' /\ Tries'
<1> USE DEF Inv, TypeOK
<1>1. ASSUME NEW r \in Runs, NEW p \in Places \ {"queued"}, Goto(r, p), UNCHANGED <<tries, mishaps>>
      PROVE  RunTypes' /\ Tries'
  BY <1>1, BoundsAssumption, FaultAssumption DEF RunTypes, Tries, Goto, Places, Busy, Settling
<1>2. ASSUME NEW r \in Runs, NEW p \in Places \ {"queued"}, NEW k \in AllFaults, Goto(r, p), Mishap(r, k), UNCHANGED tries
      PROVE  RunTypes' /\ Tries'
  BY <1>2, BoundsAssumption, FaultAssumption DEF RunTypes, Tries, Goto, Places, Busy, Settling, Mishap, MayHappen
<1>3. ASSUME NEW r \in Runs, Begin(r)
      PROVE  RunTypes' /\ Tries'
  <2>1. job \in [Runs -> Places] /\ tries \in [Runs -> 0 .. MaxTries]
    BY DEF RunTypes
  <2>2. /\ tries' = [tries EXCEPT ![r] = @ + 1] /\ UNCHANGED mishaps
        /\ job' = [job EXCEPT ![r] = "put audio"] /\ tries[r] < MaxTries
    BY <1>3 DEF Begin, Goto, Tries
  <2>3. tries' \in [Runs -> 0 .. MaxTries]
    <3>1. tries[r] \in 0 .. MaxTries /\ tries[r] < MaxTries /\ MaxTries \in Nat
      BY <2>1, <2>2, BoundsAssumption
    <3>2. tries[r] + 1 \in 0 .. MaxTries
      BY <3>1, SMT
    <3> QED
      BY <2>1, <2>2, <3>2
  <2>4. job' \in [Runs -> Places] /\ job'[r] # "queued"
    BY <2>1, <2>2 DEF Places, Busy
  <2>5. \A q \in Runs \ {r} : job'[q] = job[q] /\ tries'[q] = tries[q]
    BY <2>1, <2>2
  <2> QED
    BY <2>2, <2>3, <2>4, <2>5 DEF RunTypes, Tries
<1>4. ASSUME NEW r \in Runs, Shutdown(r) \/ Kill(r) \/ Timeout(r)
      PROVE  RunTypes' /\ Tries'
  <2>1. job \in [Runs -> Places] /\ tries \in [Runs -> 0 .. MaxTries]
        /\ mishaps \in [Runs -> SUBSET AllFaults]
    BY DEF RunTypes
  <2>2. PICK p \in {"queued", "dead"}, k \in Faults :
          /\ job' = [job EXCEPT ![r] = p] /\ (p = "queued" => tries[r] < MaxTries)
          /\ UNCHANGED tries
          /\ mishaps' = [mishaps EXCEPT ![r] = @ \cup {k}]
    BY <1>4 DEF Shutdown, Kill, Timeout, Stop, Goto, Again, MayHappen
  <2>3. job' \in [Runs -> Places] /\ mishaps' \in [Runs -> SUBSET AllFaults]
    BY <2>1, <2>2, FaultAssumption DEF Places
  <2> QED
    BY <2>1, <2>2, <2>3 DEF RunTypes, Tries
<1>5. ASSUME NEW r \in Runs, NEW a \in Artifacts, Upload(r, a) \/ Link(r, a)
      PROVE  RunTypes' /\ Tries'
  <2>1. {AtLink[a], After[a]} \subseteq Places \ {"queued"}
    BY DEF Places, Busy, Settling, Artifacts, AtLink, After
  <2>2. \/ \E p \in Places \ {"queued"} : Goto(r, p) /\ UNCHANGED <<tries, mishaps>>
        \/ \E p \in Places \ {"queued"}, k \in AllFaults : Goto(r, p) /\ Mishap(r, k) /\ UNCHANGED tries
    BY <1>5, <2>1 DEF Upload, Link, Either, AllFaults
  <2> QED
    BY <1>1, <1>2, <2>2
<1>6. ASSUME NEW r \in Runs, Reuse(r) \/ Regenerate(r) \/ PutText(r) \/ LinkText(r)
      PROVE  RunTypes' /\ Tries'
  <2>1. \/ \E p \in Places \ {"queued"} : Goto(r, p) /\ UNCHANGED <<tries, mishaps>>
        \/ \E p \in Places \ {"queued"}, k \in AllFaults : Goto(r, p) /\ Mishap(r, k) /\ UNCHANGED tries
    BY <1>6 DEF Places, Busy, Settling, AllFaults, Reuse, Regenerate, PutText, LinkText, Either
  <2> QED
    BY <1>1, <1>2, <2>1
<1>7. ASSUME NEW r \in Runs, Summarize(r) \/ GainInsights(r) \/ Analyse(r) \/ CountTokens(r)
      PROVE  RunTypes' /\ Tries'
  <2>1. \/ \E p \in Places \ {"queued"} : Goto(r, p) /\ UNCHANGED <<tries, mishaps>>
        \/ \E p \in Places \ {"queued"}, k \in AllFaults : Goto(r, p) /\ Mishap(r, k) /\ UNCHANGED tries
    BY <1>7 DEF Places, Busy, Settling, AllFaults, Summarize, GainInsights, Analyse, CountTokens, Either
  <2> QED
    BY <1>1, <1>2, <2>1
<1>8. ASSUME NEW r \in Runs, ReadCost(r) \/ StoreCost(r) \/ Finish(r)
      PROVE  RunTypes' /\ Tries'
  <2>1. \/ \E p \in Places \ {"queued"} : Goto(r, p) /\ UNCHANGED <<tries, mishaps>>
        \/ \E p \in Places \ {"queued"}, k \in AllFaults : Goto(r, p) /\ Mishap(r, k) /\ UNCHANGED tries
    BY <1>8 DEF Places, Busy, Settling, AllFaults, ReadCost, StoreCost, Finish, Either, RestOfJob
  <2> QED
    BY <1>1, <1>2, <2>1
<1>9. ASSUME NEW r \in Runs, ReadCycle(r) \/ InsertCycle(r) \/ LockCycle(r) \/ CommitUsage(r)
      PROVE  RunTypes' /\ Tries'
  <2>1. \/ \E p \in Places \ {"queued"} : Goto(r, p) /\ UNCHANGED <<tries, mishaps>>
        \/ \E p \in Places \ {"queued"}, k \in AllFaults : Goto(r, p) /\ Mishap(r, k) /\ UNCHANGED tries
    BY <1>9 DEF Places, Busy, Settling, AllFaults, ReadCycle, InsertCycle, LockCycle, CommitUsage, Rollback, RestOfJob
  <2> QED
    BY <1>1, <1>2, <2>1
<1>10. ASSUME NEW r \in Runs, ReadPrice(r) \/ WritePrice(r)
      PROVE  RunTypes' /\ Tries'
  BY <1>10 DEF RunTypes, Tries, ReadPrice, WritePrice, runVars
<1>11. CASE UNCHANGED vars
  BY <1>11 DEF RunTypes, Tries, vars, runVars
<1> QED
  BY <1>3, <1>4, <1>5, <1>6, <1>7, <1>8, <1>9, <1>10, <1>11 DEF Next, Terminating, Step

\* A file or an object is written or removed.
Put(f, r, a, c) == [f EXCEPT ![r][a] = c]

LEMMA Written ==
  ASSUME NEW f \in [Runs -> [Artifacts -> Content]], NEW r \in Runs, NEW a \in Artifacts,
         NEW c \in Content
  PROVE  Put(f, r, a, c) \in [Runs -> [Artifacts -> Content]]
BY DEF Put

\* The temporary files, the objects and the links.
LEMMA FilesTyped ==
  ASSUME Inv, [Next]_vars
  PROVE  FileTypes'
<1> USE DEF Inv, TypeOK
<1> SUFFICES ASSUME FileTypes
             PROVE  FileTypes'
  OBVIOUS
<1>0. /\ temp \in [Runs -> [Artifacts -> Content]] /\ stored \in [Runs -> [Artifacts -> Content]]
      /\ linked \in [Runs -> SUBSET Artifacts]
      /\ {"nothing", "full"} \subseteq Content /\ "transcript" \in Artifacts
      /\ \A r \in Runs, a \in Artifacts : temp[r][a] \in Content
  BY DEF FileTypes, Content, Artifacts
<1>1. ASSUME NEW r \in Runs, NEW a \in Artifacts, Upload(r, a) \/ Link(r, a)
      PROVE  FileTypes'
  <2>1. /\ temp' = temp \/ temp' = Put(temp, r, a, "nothing")
        /\ stored' = stored \/ stored' = Put(stored, r, a, temp[r][a])
        /\ linked' = linked \/ linked' = [linked EXCEPT ![r] = @ \cup {a}]
    BY <1>1 DEF Upload, Link, RemoveTemp, Either, fileVars, Put
  <2>2. temp' \in [Runs -> [Artifacts -> Content]]
    BY <1>0, <2>1, Written
  <2>3. stored' \in [Runs -> [Artifacts -> Content]]
    <3>1. Put(stored, r, a, temp[r][a]) \in [Runs -> [Artifacts -> Content]]
      BY <1>0, Written
    <3> QED
      BY <1>0, <2>1, <3>1
  <2>4. linked' \in [Runs -> SUBSET Artifacts]
    BY <1>0, <2>1
  <2> QED
    BY <2>2, <2>3, <2>4 DEF FileTypes
<1>2. ASSUME NEW r \in Runs, PutText(r) \/ LinkText(r)
      PROVE  FileTypes'
  <2>1. /\ temp' = temp
        /\ stored' = stored \/ stored' = Put(stored, r, "transcript", "full")
        /\ linked' = linked \/ linked' = [linked EXCEPT ![r] = @ \cup {"transcript"}]
    BY <1>2 DEF PutText, LinkText, Either, Put
  <2>2. stored' \in [Runs -> [Artifacts -> Content]]
    <3>1. Put(stored, r, "transcript", "full") \in [Runs -> [Artifacts -> Content]]
      BY <1>0, Written
    <3> QED
      BY <1>0, <2>1, <3>1
  <2>3. linked' \in [Runs -> SUBSET Artifacts]
    BY <1>0, <2>1
  <2> QED
    BY <1>0, <2>1, <2>2, <2>3 DEF FileTypes
<1>3. ASSUME NEW r \in Runs, NEW k \in AllFaults, Stop(r, k)
      PROVE  FileTypes'
  BY <1>3 DEF FileTypes, Stop, Content
<1>4. ASSUME UNCHANGED fileVars
      PROVE  FileTypes'
  BY <1>4 DEF FileTypes, fileVars
<1>5. ASSUME NEW r \in Runs, Begin(r) \/ Reuse(r) \/ Regenerate(r) \/ Summarize(r) \/ GainInsights(r)
                             \/ Analyse(r) \/ CountTokens(r) \/ ReadPrice(r) \/ WritePrice(r)
      PROVE  UNCHANGED fileVars
  BY <1>5 DEF Begin, Reuse, Regenerate, Summarize, GainInsights, Analyse, CountTokens,
              ReadPrice, WritePrice
<1>6. ASSUME NEW r \in Runs, ReadCost(r) \/ StoreCost(r) \/ ReadCycle(r) \/ InsertCycle(r)
                             \/ LockCycle(r) \/ CommitUsage(r) \/ Finish(r)
      PROVE  UNCHANGED fileVars
  BY <1>6 DEF ReadCost, StoreCost, ReadCycle, InsertCycle, LockCycle, CommitUsage, Finish, RestOfJob
<1>7. CASE UNCHANGED vars
  BY <1>4, <1>7 DEF vars
<1> QED
  BY <1>1, <1>2, <1>3, <1>4, <1>5, <1>6, <1>7
     DEF Next, Terminating, Step, Shutdown, Kill, Timeout, AllFaults

\* The transcript of the job and what is made of it.
LEMMA TextsTyped ==
  ASSUME Inv, [Next]_vars
  PROVE  TextTypes'
<1> USE DEF Inv, TypeOK
<1>1. ASSUME NEW r \in Runs, NEW a \in Artifacts, Upload(r, a)
      PROVE  TextTypes'
  <2>1. /\ text' = text \/ text' = [text EXCEPT ![r] = temp[r][a]]
        /\ UNCHANGED <<regenerated, summary, insights>>
    BY <1>1 DEF Upload
  <2>2. temp[r][a] \in Content
    BY DEF FileTypes
  <2> QED
    BY <2>1, <2>2 DEF TextTypes
<1>2. ASSUME NEW r \in Runs, Begin(r) \/ Reuse(r) \/ LinkText(r)
      PROVE  TextTypes'
  <2>1. PICK c \in {"nothing", "full", stored[r]["transcript"]} :
          /\ text' = text \/ text' = [text EXCEPT ![r] = c]
          /\ \E b \in BOOLEAN : regenerated' = regenerated \/ regenerated' = [regenerated EXCEPT ![r] = b]
          /\ UNCHANGED <<summary, insights>>
    BY <1>2 DEF Begin, Reuse, LinkText, Either
  <2>2. c \in Content
    BY DEF FileTypes, Content, Artifacts
  <2> QED
    BY <2>1, <2>2 DEF TextTypes
<1>3. ASSUME NEW r \in Runs, Summarize(r) \/ GainInsights(r)
      PROVE  TextTypes'
  BY <1>3 DEF TextTypes, Summarize, GainInsights, Either
<1>4. ASSUME UNCHANGED textVars
      PROVE  TextTypes'
  BY <1>4 DEF TextTypes, textVars
<1>5. ASSUME NEW r \in Runs, NEW a \in Artifacts, Link(r, a)
      PROVE  UNCHANGED textVars
  BY <1>5 DEF Link
<1>6. ASSUME NEW r \in Runs, Regenerate(r) \/ PutText(r) \/ Analyse(r) \/ CountTokens(r)
                             \/ ReadPrice(r) \/ WritePrice(r)
      PROVE  UNCHANGED textVars
  BY <1>6 DEF Regenerate, PutText, Analyse, CountTokens, ReadPrice, WritePrice
<1>7. ASSUME NEW r \in Runs, ReadCost(r) \/ StoreCost(r) \/ ReadCycle(r) \/ InsertCycle(r)
                             \/ LockCycle(r) \/ CommitUsage(r) \/ Finish(r)
      PROVE  UNCHANGED textVars
  BY <1>7 DEF ReadCost, StoreCost, ReadCycle, InsertCycle, LockCycle, CommitUsage, Finish, RestOfJob
<1>8. ASSUME NEW r \in Runs, Shutdown(r) \/ Kill(r) \/ Timeout(r)
      PROVE  UNCHANGED textVars
  BY <1>8 DEF Shutdown, Kill, Timeout, Stop
<1>9. CASE UNCHANGED vars
  BY <1>4, <1>9 DEF vars
<1> QED
  BY <1>1, <1>2, <1>3, <1>4, <1>5, <1>6, <1>7, <1>8, <1>9 DEF Next, Terminating, Step

\* The tokens, the cost and the price.
LEMMA BillsTyped ==
  ASSUME Inv, [Next]_vars
  PROVE  BillTypes'
<1> USE DEF Inv, TypeOK
<1>0. /\ spent \in [Runs -> Nat] /\ uncounted \in [Runs -> Nat] /\ usage \in [Runs -> Nat]
      /\ cost \in [Runs -> Costs] /\ costRead \in [Runs -> [usage : Nat, cost : Costs]]
      /\ hook \in [Runs -> {"none", "read", "done"}] /\ hookRead \in [Runs -> Costs]
  BY DEF BillTypes
<1>1. ASSUME UNCHANGED <<qaVars, costVars, hookVars>>
      PROVE  BillTypes'
  BY <1>0, <1>1 DEF BillTypes, qaVars, costVars, hookVars
<1>2. ASSUME NEW f \in [Runs -> Nat], NEW r \in Runs
      PROVE  [f EXCEPT ![r] = @ + 1] \in [Runs -> Nat]
  OBVIOUS
<1>3. ASSUME NEW r \in Runs, Analyse(r) \/ CountTokens(r) \/ Shutdown(r) \/ Kill(r) \/ Timeout(r)
      PROVE  BillTypes'
  <2>1. /\ UNCHANGED <<costVars, hookVars>>
        /\ spent' = spent \/ spent' = [spent EXCEPT ![r] = @ + 1]
        /\ uncounted' = uncounted \/ uncounted' = [uncounted EXCEPT ![r] = @ + 1]
        /\ usage' = usage \/ usage' = [usage EXCEPT ![r] = usage[r] + 1]
    BY <1>3 DEF Analyse, CountTokens, Counted, Either, Shutdown, Kill, Timeout, Stop
  <2>2. spent' \in [Runs -> Nat] /\ uncounted' \in [Runs -> Nat] /\ usage' \in [Runs -> Nat]
    BY <1>0, <1>2, <2>1
  <2> QED
    BY <1>0, <2>1, <2>2 DEF BillTypes, costVars, hookVars
<1>4. ASSUME NEW r \in Runs, ReadCost(r) \/ StoreCost(r)
      PROVE  BillTypes'
  <2> DEFINE ToRead == [usage |-> usage[r], cost |-> cost[r]]
             ToStore == [qa |-> costRead[r].usage, price |-> costRead[r].cost.price]
  <2>1. /\ UNCHANGED <<qaVars, hookVars>>
        /\ costRead' = costRead \/ costRead' = [costRead EXCEPT ![r] = ToRead]
        /\ cost' = cost \/ cost' = [cost EXCEPT ![r] = ToStore]
    BY <1>4 DEF ReadCost, StoreCost, Either
  <2>2. ToRead \in [usage : Nat, cost : Costs] /\ ToStore \in Costs
    BY <1>0 DEF Costs
  <2> HIDE DEF ToRead, ToStore
  <2>3. costRead' \in [Runs -> [usage : Nat, cost : Costs]] /\ cost' \in [Runs -> Costs]
    BY <1>0, <2>1, <2>2
  <2> QED
    BY <1>0, <2>1, <2>3 DEF BillTypes, qaVars, hookVars
<1>5. ASSUME NEW r \in Runs, ReadPrice(r) \/ WritePrice(r)
      PROVE  BillTypes'
  <2>1. /\ UNCHANGED <<qaVars, costRead>>
        /\ hook' = [hook EXCEPT ![r] = "read"] \/ hook' = [hook EXCEPT ![r] = "done"]
        /\ hookRead' = hookRead \/ hookRead' = [hookRead EXCEPT ![r] = cost[r]]
        /\ cost' = cost \/ cost' = [cost EXCEPT ![r] = [qa |-> hookRead[r].qa, price |-> TRUE]]
    BY <1>5 DEF ReadPrice, WritePrice, costVars
  <2>2. [qa |-> hookRead[r].qa, price |-> TRUE] \in Costs
    BY <1>0 DEF Costs
  <2> QED
    BY <1>0, <2>1, <2>2 DEF BillTypes, qaVars
<1>6. ASSUME NEW r \in Runs, NEW a \in Artifacts, Upload(r, a) \/ Link(r, a)
      PROVE  UNCHANGED <<qaVars, costVars, hookVars>>
  BY <1>6 DEF Upload, Link
<1>7. ASSUME NEW r \in Runs, Begin(r) \/ Reuse(r) \/ Regenerate(r) \/ PutText(r) \/ LinkText(r)
                             \/ Summarize(r) \/ GainInsights(r)
      PROVE  UNCHANGED <<qaVars, costVars, hookVars>>
  BY <1>7 DEF Begin, Reuse, Regenerate, PutText, LinkText, Summarize, GainInsights
<1>8. ASSUME NEW r \in Runs, ReadCycle(r) \/ InsertCycle(r) \/ LockCycle(r) \/ CommitUsage(r) \/ Finish(r)
      PROVE  UNCHANGED <<qaVars, costVars, hookVars>>
  BY <1>8 DEF ReadCycle, InsertCycle, LockCycle, CommitUsage, Finish, RestOfJob
<1>9. CASE UNCHANGED vars
  BY <1>1, <1>9 DEF vars
<1> QED
  BY <1>1, <1>3, <1>4, <1>5, <1>6, <1>7, <1>8, <1>9 DEF Next, Terminating, Step

\* The usage cycle.
LEMMA LedgerTyped ==
  ASSUME Inv, [Next]_vars
  PROVE  LedgerTypes'
<1> USE DEF Inv, TypeOK
<1>0. \A r \in Runs : Settlement(r) \in Runs \X Nat
  BY BoundsAssumption DEF RunTypes, Settlement
<1>1. ASSUME NEW r \in Runs, ReadCycle(r) \/ InsertCycle(r) \/ LockCycle(r)
      PROVE  LedgerTypes'
  <2>1. /\ cycle' = cycle /\ used' = used /\ settled' = settled /\ overlapped' = overlapped
        /\ lock' \in {lock, r, None}
        /\ seen' = seen \/ seen' = [seen EXCEPT ![r] = used]
    BY <1>1 DEF ReadCycle, InsertCycle, LockCycle, Rollback, Selected, ledgerVars
  <2> QED
    BY <2>1 DEF LedgerTypes
<1>2. ASSUME NEW r \in Runs, CommitUsage(r)
      PROVE  LedgerTypes'
  <2>1. /\ cycle' \in {cycle, TRUE} /\ lock' \in {lock, None} /\ seen' = seen
        /\ used' \in {used, seen[r] \cup {Settlement(r)}}
        /\ settled' \in {settled, settled \cup {Settlement(r)}}
    BY <1>2 DEF CommitUsage, Rollback
  <2>2. overlapped' \in BOOLEAN
    BY <1>2 DEF CommitUsage, Rollback, LedgerTypes
  <2> QED
    BY <1>0, <2>1, <2>2 DEF LedgerTypes
<1>3. ASSUME NEW r \in Runs, NEW k \in AllFaults, Stop(r, k)
      PROVE  LedgerTypes'
  BY <1>3 DEF LedgerTypes, Stop
<1>4. ASSUME UNCHANGED ledgerVars
      PROVE  LedgerTypes'
  BY <1>4 DEF LedgerTypes, ledgerVars
<1>5. ASSUME NEW r \in Runs, NEW a \in Artifacts, Upload(r, a) \/ Link(r, a)
      PROVE  UNCHANGED ledgerVars
  BY <1>5 DEF Upload, Link
<1>6. ASSUME NEW r \in Runs, Begin(r) \/ Reuse(r) \/ Regenerate(r) \/ PutText(r) \/ LinkText(r)
                             \/ Summarize(r) \/ GainInsights(r) \/ Analyse(r) \/ CountTokens(r)
      PROVE  UNCHANGED ledgerVars
  BY <1>6 DEF Begin, Reuse, Regenerate, PutText, LinkText, Summarize, GainInsights, Analyse, CountTokens
<1>7. ASSUME NEW r \in Runs, ReadCost(r) \/ StoreCost(r) \/ Finish(r) \/ ReadPrice(r) \/ WritePrice(r)
      PROVE  UNCHANGED ledgerVars
  BY <1>7 DEF ReadCost, StoreCost, Finish, ReadPrice, WritePrice
<1>8. CASE UNCHANGED vars
  BY <1>4, <1>8 DEF vars
<1> QED
  BY <1>1, <1>2, <1>3, <1>4, <1>5, <1>6, <1>7, <1>8
     DEF Next, Terminating, Step, Shutdown, Kill, Timeout, AllFaults

LEMMA InvHolds == Spec => []Inv
<1>1. Inv /\ [Next]_vars => Inv'
  BY Control, FilesTyped, TextsTyped, BillsTyped, LedgerTyped DEF Inv, TypeOK
<1> QED
  BY Initially, <1>1, PTL DEF Spec

\* What a run, its files, its texts, its bill and the ledger are, whatever
\* goes wrong (s3_upload.py, run_integrations.py, organization_usage_client.py).
THEOREM TypeCorrect == Spec => []TypeOK
  BY InvHolds, PTL DEF Inv

-----------------------------------------------------------------------------
(* The ledger. *)

\* Nothing is read or summed up that was not settled, and as long as no
\* transaction has overtaken a reader, every reader has the present sum.
Sound ==
  /\ used \subseteq settled /\ \A r \in Runs : seen[r] \subseteq settled
  /\ ~overlapped =>
       /\ used = settled
       /\ \A r \in Runs : job[r] \in {"lock", "commit"} => seen[r] = used

LEMMA SoundInitially == Init => Sound
BY DEF Init, Sound

LEMMA SoundKept ==
  ASSUME Inv, Sound, [Next]_vars
  PROVE  Sound'
<1>0. job \in [Runs -> Places] /\ seen \in [Runs -> SUBSET (Runs \X Nat)] /\ overlapped \in BOOLEAN
  BY DEF Inv, TypeOK, RunTypes, LedgerTypes
\* A job that goes anywhere but to the lock, or to it from nowhere.
<1>1. ASSUME NEW r \in Runs, NEW p \in Places \ {"lock", "commit"}, Goto(r, p),
             UNCHANGED <<used, seen, settled, overlapped>>
      PROVE  Sound'
  BY <1>0, <1>1 DEF Sound, Goto
<1>2. ASSUME NEW r \in Runs, Goto(r, "lock"), seen' = [seen EXCEPT ![r] = used],
             UNCHANGED <<used, settled, overlapped>>
      PROVE  Sound'
  BY <1>0, <1>2 DEF Sound, Goto
<1>3. ASSUME NEW r \in Runs, job[r] = "lock", Goto(r, "commit"),
             UNCHANGED <<used, seen, settled, overlapped>>
      PROVE  Sound'
  BY <1>0, <1>3 DEF Sound, Goto
<1>4. ASSUME NEW r \in Runs, Rollback(r), UNCHANGED RestOfJob
      PROVE  Sound'
  BY <1>1, <1>4 DEF Rollback, Places, Busy
<1>5. ASSUME NEW r \in Runs, CommitUsage(r)
      PROVE  Sound'
  <2>1. CASE Rollback(r)
    BY <1>4, <1>5, <2>1 DEF CommitUsage
  <2>2. CASE ~Rollback(r)
    <3>1. /\ job[r] = "commit" /\ job' = [job EXCEPT ![r] = "end"] /\ UNCHANGED seen
          /\ used' = seen[r] \cup {Settlement(r)} /\ settled' = settled \cup {Settlement(r)}
          /\ overlapped' = (overlapped \/ Reading(r) # {})
      BY <1>5, <2>2 DEF CommitUsage, Goto
    <3>2. used' \subseteq settled' /\ \A q \in Runs : seen'[q] \subseteq settled'
      BY <3>1 DEF Sound
    <3>3. ASSUME ~overlapped'
          PROVE  /\ used' = settled'
                 /\ \A q \in Runs : job'[q] \notin {"lock", "commit"}
      <4>1. ~overlapped /\ Reading(r) = {}
        BY <1>0, <3>1, <3>3
      <4>2. used' = settled'
        BY <3>1, <4>1 DEF Sound
      <4>3. \A q \in Runs : job'[q] \notin {"lock", "commit"}
        BY <1>0, <3>1, <4>1 DEF Reading
      <4> QED
        BY <4>2, <4>3
    <3> QED
      BY <3>2, <3>3 DEF Sound
  <2> QED
    BY <2>1, <2>2
<1>6. ASSUME NEW r \in Runs, ReadCycle(r) \/ InsertCycle(r) \/ LockCycle(r)
      PROVE  Sound'
  BY <1>1, <1>2, <1>3, <1>4, <1>6
     DEF ReadCycle, InsertCycle, LockCycle, Selected, ledgerVars, Places, Busy, Settling
<1>7. ASSUME NEW r \in Runs, NEW a \in Artifacts, Upload(r, a) \/ Link(r, a)
      PROVE  Sound'
  <2>1. {AtLink[a], After[a]} \subseteq Places \ {"lock", "commit"}
    BY DEF Places, Busy, Settling, Artifacts, AtLink, After
  <2> QED
    BY <1>1, <1>7, <2>1 DEF Upload, Link, ledgerVars
<1>8. ASSUME NEW r \in Runs, Begin(r) \/ Reuse(r) \/ Regenerate(r) \/ PutText(r) \/ LinkText(r)
                             \/ Summarize(r) \/ GainInsights(r) \/ Analyse(r) \/ CountTokens(r)
      PROVE  Sound'
  <2>1. \E p \in Places \ {"lock", "commit"} : Goto(r, p) /\ UNCHANGED ledgerVars
    BY <1>8 DEF Places, Busy, Settling, Begin, Reuse, Regenerate, PutText, LinkText, Summarize,
                GainInsights, Analyse, CountTokens, Either
  <2> QED
    BY <1>1, <2>1 DEF ledgerVars
<1>9. ASSUME NEW r \in Runs, ReadCost(r) \/ StoreCost(r) \/ Finish(r)
      PROVE  Sound'
  <2>1. \E p \in Places \ {"lock", "commit"} : Goto(r, p) /\ UNCHANGED ledgerVars
    BY <1>9 DEF Places, Busy, Settling, ReadCost, StoreCost, Finish, Either
  <2> QED
    BY <1>1, <2>1 DEF ledgerVars
<1>10. ASSUME NEW r \in Runs, Shutdown(r) \/ Kill(r) \/ Timeout(r)
      PROVE  Sound'
  <2>1. \E p \in Places \ {"lock", "commit"} : Goto(r, p) /\ UNCHANGED <<used, seen, settled, overlapped>>
    BY <1>10 DEF Places, Shutdown, Kill, Timeout, Stop, Again
  <2> QED
    BY <1>1, <2>1
<1>11. ASSUME UNCHANGED job, UNCHANGED ledgerVars
      PROVE  Sound'
  BY <1>11 DEF Sound, ledgerVars
<1> QED
  BY <1>5, <1>6, <1>7, <1>8, <1>9, <1>10, <1>11
     DEF Next, Terminating, Step, ReadPrice, WritePrice, vars, runVars

\* Settlements that do not overlap add up, and the sum never holds what was not
\* settled (update_usage_after_run, organization_usage_client.py).
THEOREM LedgerSound == Spec => []LedgerIsSound
<1>1. Sound => LedgerIsSound
  BY DEF Sound, LedgerIsSound
<1>2. Inv /\ Sound /\ [Next]_vars => Sound'
  BY SoundKept
<1> QED
  BY SoundInitially, InvHolds, <1>1, <1>2, PTL DEF Spec

-----------------------------------------------------------------------------
(* The transcript and the cost of one run. *)

\* A step of one run leaves what belongs to another as it is.
Same(r) ==
  /\ job'[r] = job[r] /\ tries'[r] = tries[r] /\ mishaps'[r] = mishaps[r]
  /\ text'[r] = text[r] /\ stored'[r] = stored[r] /\ linked'[r] = linked[r]
  /\ spent'[r] = spent[r] /\ uncounted'[r] = uncounted[r] /\ usage'[r] = usage[r]
  /\ cost'[r] = cost[r] /\ costRead'[r] = costRead[r]
  /\ hook'[r] = hook[r] /\ hookRead'[r] = hookRead[r]

LEMMA Apart ==
  ASSUME Inv, NEW q \in Runs, NEW r \in Runs \ {q},
         \/ Step(q) \/ ReadPrice(q) \/ WritePrice(q)
         \/ Shutdown(q) \/ Kill(q) \/ Timeout(q)
  PROVE  Same(r)
<1>0. /\ job \in [Runs -> Places] /\ mishaps \in [Runs -> SUBSET AllFaults]
      /\ text \in [Runs -> Content] /\ stored \in [Runs -> [Artifacts -> Content]]
      /\ linked \in [Runs -> SUBSET Artifacts] /\ tries \in [Runs -> 0 .. MaxTries]
      /\ spent \in [Runs -> Nat] /\ uncounted \in [Runs -> Nat] /\ usage \in [Runs -> Nat]
      /\ cost \in [Runs -> Costs] /\ costRead \in [Runs -> [usage : Nat, cost : Costs]]
      /\ hook \in [Runs -> {"none", "read", "done"}] /\ hookRead \in [Runs -> Costs]
  BY DEF Inv, TypeOK, RunTypes, FileTypes, TextTypes, BillTypes
<1> USE DEF Same, Goto, Mishap, Either, fileVars, textVars, qaVars, costVars, hookVars
<1>1. ASSUME NEW a \in Artifacts, Upload(q, a) \/ Link(q, a)
      PROVE  Same(r)
  BY <1>0, <1>1 DEF Upload, Link
<1>2. CASE Begin(q) \/ Reuse(q) \/ Regenerate(q) \/ PutText(q) \/ LinkText(q)
  BY <1>0, <1>2 DEF Begin, Reuse, Regenerate, PutText, LinkText
<1>3. CASE Summarize(q) \/ GainInsights(q) \/ Analyse(q) \/ CountTokens(q)
  BY <1>0, <1>3 DEF Summarize, GainInsights, Analyse, CountTokens
<1>4. CASE ReadCost(q) \/ StoreCost(q) \/ ReadPrice(q) \/ WritePrice(q)
  BY <1>0, <1>4 DEF ReadCost, StoreCost, ReadPrice, WritePrice, runVars
<1>5. CASE ReadCycle(q) \/ InsertCycle(q) \/ LockCycle(q) \/ CommitUsage(q) \/ Finish(q)
  BY <1>0, <1>5 DEF ReadCycle, InsertCycle, LockCycle, CommitUsage, Finish, Rollback, RestOfJob
<1>6. CASE Shutdown(q) \/ Kill(q) \/ Timeout(q)
  BY <1>0, <1>6 DEF Shutdown, Kill, Timeout, Stop
<1> QED
  BY <1>1, <1>2, <1>3, <1>4, <1>5, <1>6 DEF Step

\* A mishap is never forgotten.
LEMMA MishapsGrow ==
  ASSUME Inv, NEW r \in Runs,
         \/ Step(r) \/ ReadPrice(r) \/ WritePrice(r)
         \/ Shutdown(r) \/ Kill(r) \/ Timeout(r)
  PROVE  mishaps[r] \subseteq mishaps'[r]
<1>0. mishaps \in [Runs -> SUBSET AllFaults]
  BY DEF Inv, TypeOK, RunTypes
<1>1. \A k \in AllFaults : Mishap(r, k) => mishaps[r] \subseteq mishaps'[r]
  BY <1>0 DEF Mishap
<1>2. \A k \in AllFaults : Stop(r, k) => mishaps[r] \subseteq mishaps'[r]
  BY <1>0 DEF Stop
<1>3. \A a \in Artifacts : Upload(r, a) \/ Link(r, a) => mishaps[r] \subseteq mishaps'[r]
  BY <1>1 DEF Upload, Link, Either, AllFaults
<1>4. Begin(r) \/ Reuse(r) \/ Regenerate(r) \/ PutText(r) \/ LinkText(r) \/ Summarize(r)
        => mishaps[r] \subseteq mishaps'[r]
  BY <1>1 DEF Begin, Reuse, Regenerate, PutText, LinkText, Summarize, Either, AllFaults
<1>5. GainInsights(r) \/ Analyse(r) \/ CountTokens(r) \/ ReadCost(r) \/ StoreCost(r)
        => mishaps[r] \subseteq mishaps'[r]
  BY <1>1 DEF GainInsights, Analyse, CountTokens, ReadCost, StoreCost, Either, AllFaults
<1>6. ReadCycle(r) \/ InsertCycle(r) \/ LockCycle(r) \/ CommitUsage(r) \/ Finish(r)
        => mishaps[r] \subseteq mishaps'[r]
  BY <1>1 DEF ReadCycle, InsertCycle, LockCycle, CommitUsage, Finish, Rollback, AllFaults
<1>7. ReadPrice(r) \/ WritePrice(r) => mishaps[r] \subseteq mishaps'[r]
  BY DEF ReadPrice, WritePrice
<1> QED
  BY <1>2, <1>3, <1>4, <1>5, <1>6, <1>7 DEF Step, Shutdown, Kill, Timeout, AllFaults

\* What the job knows of the transcript is what the storage has and the run is
\* linked to; past the regeneration, a recording means a transcript of both sides.
Late == Places \ {"queued", "dead", "put audio", "link audio", "put transcript",
                  "link transcript", "reuse", "regenerate", "put text", "link text"}
HasTranscript(r) == "transcript" \in linked[r] /\ stored[r]["transcript"] = "full"
Untroubled(r) == mishaps[r] \cap {"refused", "storage", "llm", "db"} = {}
Heals(r) ==
  Untroubled(r) =>
    /\ job[r] = "link transcript" => text[r] = stored[r]["transcript"]
    /\ job[r] \in {"reuse", "regenerate"} /\ text[r] = "full" => HasTranscript(r)
    /\ job[r] = "link text" => stored[r]["transcript"] = "full"
    /\ job[r] \in Late /\ stored[r]["audio"] # "nothing" => HasTranscript(r)

LEMMA HealsKept ==
  ASSUME Inv, NEW r \in Runs, Heals(r),
         \/ Step(r) \/ ReadPrice(r) \/ WritePrice(r)
         \/ Shutdown(r) \/ Kill(r) \/ Timeout(r)
  PROVE  Heals(r)'
<1>0. /\ job \in [Runs -> Places] /\ mishaps \in [Runs -> SUBSET AllFaults]
      /\ text \in [Runs -> Content] /\ stored \in [Runs -> [Artifacts -> Content]]
      /\ linked \in [Runs -> SUBSET Artifacts] /\ temp \in [Runs -> [Artifacts -> Content]]
      /\ "audio" \in Artifacts /\ "transcript" \in Artifacts
  BY DEF Inv, TypeOK, RunTypes, FileTypes, TextTypes, Artifacts
<1>1. SUFFICES ASSUME Untroubled(r)'
               PROVE  Heals(r)'
  BY DEF Heals
<1>2. Untroubled(r) /\ \A k \in {"refused", "storage", "llm", "db"} : ~Mishap(r, k)
  <2>1. mishaps[r] \subseteq mishaps'[r]
    BY MishapsGrow
  <2>2. \A k \in {"refused", "storage", "llm", "db"} : Mishap(r, k) => k \in mishaps'[r]
    BY <1>0 DEF Mishap
  <2> QED
    BY <1>1, <2>1, <2>2 DEF Untroubled
<1>a. ASSUME NEW p \in Places, job'[r] = p,
             p \in Late => job[r] \in Late,
             p \notin {"reuse", "regenerate", "link transcript", "link text"},
             linked'[r] = linked[r], stored'[r] = stored[r]
      PROVE  Heals(r)'
  BY <1>2, <1>a DEF Heals, HasTranscript, Late
<1>3. CASE Begin(r) \/ Shutdown(r) \/ Kill(r) \/ Timeout(r)
  <2>1. /\ job'[r] \in {"put audio", "queued", "dead"}
        /\ linked' = linked /\ stored' = stored
    BY <1>0, <1>3 DEF Begin, Shutdown, Kill, Timeout, Stop, Goto, Again, fileVars
  <2> QED
    BY <1>a, <2>1 DEF Places, Busy, Late
<1>4. CASE Upload(r, "audio") \/ Link(r, "audio")
  <2>1. job'[r] \in {"link audio", "put transcript"}
    BY <1>0, <1>4 DEF Upload, Link, Goto, AtLink, After
  <2> QED
    BY <2>1 DEF Heals, Late
<1>5. CASE Upload(r, "transcript")
  <2>1. text'[r] = temp[r]["transcript"]
    BY <1>0, <1>5 DEF Upload
  <2>2. CASE temp[r]["transcript"] = "nothing"
    <3>1. job'[r] = "reuse" /\ text'[r] = "nothing"
      BY <1>0, <1>5, <2>1, <2>2 DEF Upload, Goto, After
    <3> QED
      BY <3>1 DEF Heals, Late
  <2>3. CASE temp[r]["transcript"] # "nothing"
    <3>1. job'[r] = "link transcript" /\ stored' = [stored EXCEPT ![r]["transcript"] = temp[r]["transcript"]]
      BY <1>0, <1>2, <1>5, <2>3 DEF Upload, Goto, AtLink
    <3>2. stored'[r]["transcript"] = temp[r]["transcript"]
      BY <1>0, <3>1
    <3> QED
      BY <2>1, <3>1, <3>2 DEF Heals, Late
  <2> QED
    BY <2>2, <2>3
<1>6. CASE Link(r, "transcript")
  <2>1. /\ job[r] = "link transcript" /\ job'[r] = "reuse"
        /\ stored' = stored /\ text' = text /\ linked'[r] = linked[r] \cup {"transcript"}
    BY <1>0, <1>2, <1>6 DEF Link, Either, Goto, AtLink, After, textVars
  <2>2. text[r] = stored[r]["transcript"]
    BY <1>2, <2>1 DEF Heals
  <2> QED
    BY <2>1, <2>2 DEF Heals, HasTranscript, Late
<1>7. CASE Reuse(r)
  <2>1. /\ job[r] = "reuse" /\ job'[r] = "regenerate"
        /\ stored' = stored /\ linked' = linked
        /\ \/ text'[r] = text[r]
           \/ "transcript" \in linked[r] /\ text'[r] = stored[r]["transcript"]
    BY <1>0, <1>2, <1>7 DEF Reuse, Either, Goto, fileVars
  <2> QED
    BY <1>2, <2>1 DEF Heals, HasTranscript, Late
<1>8. CASE Regenerate(r)
  <2>1. /\ job[r] = "regenerate" /\ stored' = stored /\ linked' = linked
        /\ \/ job'[r] = "put text"
           \/ job'[r] = "summary" /\ (text[r] = "full" \/ stored[r]["audio"] = "nothing")
    BY <1>0, <1>2, <1>8 DEF Regenerate, Either, Goto, Recording, fileVars
  <2> QED
    BY <1>2, <2>1 DEF Heals, HasTranscript, Late
<1>9. CASE PutText(r)
  <2>1. job'[r] = "link text" /\ stored' = [stored EXCEPT ![r]["transcript"] = "full"]
    BY <1>0, <1>2, <1>9 DEF PutText, Goto
  <2>2. stored'[r]["transcript"] = "full"
    BY <1>0, <2>1
  <2> QED
    BY <2>1, <2>2 DEF Heals, Late
<1>10. CASE LinkText(r)
  <2>1. /\ job[r] = "link text" /\ job'[r] = "summary"
        /\ stored' = stored /\ linked'[r] = linked[r] \cup {"transcript"}
    BY <1>0, <1>2, <1>10 DEF LinkText, Either, Goto
  <2>2. HasTranscript(r)'
    BY <1>2, <2>1 DEF Heals, HasTranscript
  <2> QED
    BY <2>1, <2>2 DEF Heals
<1>11. CASE Summarize(r) \/ GainInsights(r) \/ Analyse(r) \/ CountTokens(r) \/ ReadCost(r) \/ StoreCost(r)
  <2>1. /\ job[r] \in Late /\ job'[r] \in Late /\ linked' = linked /\ stored' = stored
    BY <1>0, <1>11 DEF Summarize, GainInsights, Analyse, CountTokens, ReadCost, StoreCost, Either, Goto,
                       fileVars, Late, Places, Busy, Settling
  <2> QED
    BY <1>a, <2>1 DEF Late
<1>12. CASE ReadCycle(r) \/ InsertCycle(r) \/ LockCycle(r) \/ CommitUsage(r) \/ Finish(r)
  <2>1. /\ job[r] \in Late /\ job'[r] \in Late /\ linked' = linked /\ stored' = stored
    BY <1>0, <1>12 DEF ReadCycle, InsertCycle, LockCycle, CommitUsage, Finish, Rollback, RestOfJob, Goto,
                       fileVars, Late, Places, Busy, Settling
  <2> QED
    BY <1>a, <2>1 DEF Late
<1>13. CASE ReadPrice(r) \/ WritePrice(r)
  BY <1>2, <1>13 DEF Heals, HasTranscript, ReadPrice, WritePrice, runVars, fileVars, textVars
<1> QED
  BY <1>3, <1>4, <1>5, <1>6, <1>7, <1>8, <1>9, <1>10, <1>11, <1>12, <1>13 DEF Step, Artifacts

\* A try that is stopped loses one analysis at the most.
Losses(r) ==
  IF job[r] \in {"queued", "dead"} THEN uncounted[r] =< tries[r] ELSE uncounted[r] < tries[r]

LEMMA LossesKept ==
  ASSUME Inv, NEW r \in Runs, Losses(r),
         \/ Step(r) \/ ReadPrice(r) \/ WritePrice(r)
         \/ Shutdown(r) \/ Kill(r) \/ Timeout(r)
  PROVE  Losses(r)'
<1>0. /\ job \in [Runs -> Places] /\ tries \in [Runs -> 0 .. MaxTries] /\ MaxTries \in Nat
      /\ uncounted \in [Runs -> Nat] /\ uncounted[r] \in Nat /\ tries[r] \in Nat
  <2>1. tries[r] \in 0 .. MaxTries
    BY DEF Inv, TypeOK, RunTypes
  <2> QED
    BY <2>1, BoundsAssumption DEF Inv, TypeOK, RunTypes, BillTypes
<1>a. ASSUME job[r] \notin {"queued", "dead"}, NEW p \in Places, Goto(r, p), p # "queued",
             UNCHANGED <<tries, uncounted>>
      PROVE  Losses(r)'
  BY <1>0, <1>a DEF Losses, Goto
<1>1. CASE Begin(r)
  <2>1. /\ job[r] = "queued" /\ job'[r] = "put audio" /\ uncounted'[r] = uncounted[r]
        /\ tries'[r] = tries[r] + 1
    BY <1>0, <1>1 DEF Begin, Goto, qaVars
  <2>2. uncounted[r] =< tries[r]
    BY <2>1 DEF Losses
  <2>3. uncounted[r] < tries[r] + 1
    BY <1>0, <2>2
  <2> QED
    BY <2>1, <2>3 DEF Losses
<1>2. ASSUME NEW a \in Artifacts, Upload(r, a) \/ Link(r, a)
      PROVE  Losses(r)'
  <2>1. {AtLink[a], After[a]} \subseteq Places \ {"queued"} /\ AtUpload[a] \notin {"queued", "dead"}
        /\ AtLink[a] \notin {"queued", "dead"}
    BY DEF Places, Busy, Settling, Artifacts, AtUpload, AtLink, After
  <2> QED
    BY <1>a, <1>2, <2>1 DEF Upload, Link, qaVars
<1>3. CASE Reuse(r) \/ Regenerate(r) \/ PutText(r) \/ LinkText(r) \/ Summarize(r) \/ GainInsights(r)
  BY <1>a, <1>3 DEF Reuse, Regenerate, PutText, LinkText, Summarize, GainInsights, Either, Places, Busy, qaVars
<1>4. CASE Analyse(r) \/ CountTokens(r) \/ ReadCost(r) \/ StoreCost(r)
  BY <1>a, <1>4 DEF Analyse, CountTokens, ReadCost, StoreCost, Either, Places, Busy, Settling, qaVars
<1>5. CASE ReadCycle(r) \/ InsertCycle(r) \/ LockCycle(r) \/ CommitUsage(r) \/ Finish(r)
  BY <1>a, <1>5 DEF ReadCycle, InsertCycle, LockCycle, CommitUsage, Finish, Rollback, RestOfJob, Places, Busy,
                    Settling, qaVars
<1>6. CASE ReadPrice(r) \/ WritePrice(r)
  BY <1>6 DEF Losses, ReadPrice, WritePrice, runVars, qaVars
<1>7. CASE Shutdown(r) \/ Kill(r) \/ Timeout(r)
  <2>1. /\ job[r] \notin {"queued", "dead"} /\ job'[r] \in {"queued", "dead"} /\ tries'[r] = tries[r]
        /\ uncounted'[r] \in {uncounted[r], uncounted[r] + 1}
    BY <1>0, <1>7 DEF Shutdown, Kill, Timeout, Stop, Goto, Again, Busy, Settling
  <2> QED
    BY <1>0, <2>1 DEF Losses
<1> QED
  BY <1>1, <1>2, <1>3, <1>4, <1>5, <1>6, <1>7 DEF Step

\* Whatever was analysed is counted or lost, but for the analysis the job is
\* about to count; the job calculates from what is counted, and the webhook may
\* put back the cost it has read.
Calculated == Settling \cup {"end", "done"}
Covers(r) == cost[r].qa = usage[r] \/ (hook[r] = "done" /\ cost[r].qa = hookRead[r].qa)
Covered(r) ==
  "db" \notin mishaps[r] =>
    /\ job[r] = "count" => spent[r] = usage[r] + uncounted[r] + 1
    /\ job[r] # "count" => spent[r] = usage[r] + uncounted[r]
    /\ job[r] = "store" => costRead[r].usage = usage[r]
    /\ job[r] \in Calculated => Covers(r)

LEMMA CoveredKept ==
  ASSUME Inv, NEW r \in Runs, Covered(r),
         \/ Step(r) \/ ReadPrice(r) \/ WritePrice(r)
         \/ Shutdown(r) \/ Kill(r) \/ Timeout(r)
  PROVE  Covered(r)'
<1>0. /\ job \in [Runs -> Places] /\ mishaps \in [Runs -> SUBSET AllFaults]
      /\ spent \in [Runs -> Nat] /\ uncounted \in [Runs -> Nat] /\ usage \in [Runs -> Nat]
      /\ cost \in [Runs -> Costs] /\ costRead \in [Runs -> [usage : Nat, cost : Costs]]
      /\ hook \in [Runs -> {"none", "read", "done"}] /\ hookRead \in [Runs -> Costs]
      /\ spent[r] \in Nat /\ uncounted[r] \in Nat /\ usage[r] \in Nat
  BY DEF Inv, TypeOK, RunTypes, BillTypes
<1>1. SUFFICES ASSUME "db" \notin mishaps'[r]
               PROVE  Covered(r)'
  BY DEF Covered
<1>2. "db" \notin mishaps[r] /\ ~Mishap(r, "db")
  BY <1>0, <1>1, MishapsGrow DEF Mishap
<1>a. ASSUME job[r] # "count", job'[r] \notin {"count", "store"},
             job'[r] \in Calculated => job[r] \in Calculated,
             UNCHANGED <<qaVars, costVars, hookVars>>
      PROVE  Covered(r)'
  BY <1>2, <1>a DEF Covered, Covers, qaVars, costVars, hookVars
<1>3. CASE Begin(r)
  <2>1. job[r] = "queued" /\ job'[r] = "put audio" /\ UNCHANGED <<qaVars, costVars, hookVars>>
    BY <1>0, <1>3 DEF Begin, Goto
  <2> QED
    BY <1>a, <2>1 DEF Calculated, Settling
<1>4. CASE Upload(r, "audio") \/ Link(r, "audio") \/ Upload(r, "transcript") \/ Link(r, "transcript")
  <2>1. /\ job[r] \in {"put audio", "link audio", "put transcript", "link transcript"}
        /\ job'[r] \in {"link audio", "put transcript", "link transcript", "reuse"}
        /\ UNCHANGED <<qaVars, costVars, hookVars>>
    BY <1>0, <1>4 DEF Upload, Link, Goto, AtUpload, AtLink, After, Artifacts
  <2> QED
    BY <1>a, <2>1 DEF Calculated, Settling
<1>5. CASE Reuse(r) \/ Regenerate(r) \/ PutText(r) \/ LinkText(r) \/ Summarize(r) \/ GainInsights(r)
  <2>1. /\ job[r] \in {"reuse", "regenerate", "put text", "link text", "summary", "insights"}
        /\ job'[r] \in {"regenerate", "put text", "link text", "summary", "insights", "qa"}
        /\ UNCHANGED <<qaVars, costVars, hookVars>>
    BY <1>0, <1>5 DEF Reuse, Regenerate, PutText, LinkText, Summarize, GainInsights, Either, Goto
  <2> QED
    BY <1>a, <2>1 DEF Calculated, Settling
<1>6. CASE Analyse(r)
  <2>1. /\ job[r] = "qa" /\ UNCHANGED <<uncounted, usage, costVars, hookVars>>
        /\ \/ job'[r] = "cost" /\ spent' = spent
           \/ job'[r] = "count" /\ spent'[r] = spent[r] + 1
    BY <1>0, <1>6 DEF Analyse, Goto
  <2>2. spent[r] = usage[r] + uncounted[r] /\ usage'[r] = usage[r]
    BY <1>2, <2>1 DEF Covered
  <2> QED
    BY <1>0, <2>1, <2>2 DEF Covered, Calculated, Settling
<1>7. CASE CountTokens(r)
  <2>1. /\ job[r] = "count" /\ job'[r] = "cost" /\ UNCHANGED <<spent, uncounted, costVars, hookVars>>
        /\ usage'[r] = usage[r] + 1
    BY <1>0, <1>2, <1>7 DEF CountTokens, Either, Counted, Goto
  <2>2. spent'[r] = usage'[r] + uncounted'[r]
    BY <1>0, <1>2, <2>1 DEF Covered
  <2> QED
    BY <2>1, <2>2 DEF Covered, Calculated, Settling
<1>8. CASE ReadCost(r)
  <2>1. /\ job[r] = "cost" /\ job'[r] = "store" /\ UNCHANGED <<spent, uncounted, usage>>
        /\ costRead'[r] = [usage |-> usage[r], cost |-> cost[r]]
    BY <1>0, <1>2, <1>8 DEF ReadCost, Either, Goto, qaVars
  <2>2. spent'[r] = usage'[r] + uncounted'[r] /\ costRead'[r].usage = usage'[r]
    BY <1>2, <2>1 DEF Covered
  <2> QED
    BY <2>1, <2>2 DEF Covered, Calculated, Settling
<1>9. CASE StoreCost(r)
  <2>1. /\ job[r] = "store" /\ job'[r] = "cycle" /\ UNCHANGED <<spent, uncounted, usage, hookVars>>
        /\ cost'[r].qa = costRead[r].usage
    BY <1>0, <1>2, <1>9 DEF StoreCost, Either, Goto, qaVars
  <2>2. spent'[r] = usage'[r] + uncounted'[r] /\ cost'[r].qa = usage'[r]
    BY <1>2, <2>1 DEF Covered
  <2> QED
    BY <2>1, <2>2 DEF Covered, Covers
<1>10. CASE ReadCycle(r) \/ InsertCycle(r) \/ LockCycle(r) \/ CommitUsage(r) \/ Finish(r)
  <2>1. /\ job[r] \in Calculated /\ job'[r] \in Calculated
        /\ UNCHANGED <<qaVars, costVars, hookVars>>
    BY <1>0, <1>10 DEF ReadCycle, InsertCycle, LockCycle, CommitUsage, Finish, Rollback, RestOfJob, Goto,
                       Calculated, Settling
  <2> QED
    BY <1>a, <2>1 DEF Calculated, Settling
<1>11. CASE ReadPrice(r)
  <2>1. /\ hook[r] = "none" /\ UNCHANGED <<job, qaVars, costVars>>
    BY <1>11 DEF ReadPrice, runVars
  <2> QED
    BY <1>2, <2>1 DEF Covered, Covers, qaVars, costVars
<1>12. CASE WritePrice(r)
  <2>1. /\ UNCHANGED <<job, qaVars, costRead, hookRead>>
        /\ hook'[r] = "done" /\ cost'[r].qa = hookRead[r].qa
    BY <1>0, <1>12 DEF WritePrice, runVars
  <2>2. Covers(r)'
    BY <2>1 DEF Covers
  <2> QED
    BY <1>2, <2>1, <2>2 DEF Covered, qaVars
<1>13. CASE Shutdown(r) \/ Kill(r) \/ Timeout(r)
  <2>1. /\ job'[r] \in {"queued", "dead"} /\ UNCHANGED <<spent, usage, costVars, hookVars>>
        /\ uncounted'[r] = IF job[r] = "count" THEN uncounted[r] + 1 ELSE uncounted[r]
    BY <1>0, <1>13 DEF Shutdown, Kill, Timeout, Stop, Goto, Again
  <2>2. spent'[r] = usage'[r] + uncounted'[r]
    BY <1>0, <1>2, <2>1 DEF Covered
  <2> QED
    BY <2>1, <2>2 DEF Covered, Calculated, Settling
<1> QED
  BY <1>3, <1>4, <1>5, <1>6, <1>7, <1>8, <1>9, <1>10, <1>11, <1>12, <1>13 DEF Step, Artifacts

Each == \A r \in Runs : Heals(r) /\ Losses(r) /\ Covered(r)

LEMMA EachKept ==
  ASSUME Inv, Each, [Next]_vars
  PROVE  Each'
<1>1. ASSUME NEW r \in Runs, Same(r)
      PROVE  Heals(r)' /\ Losses(r)' /\ Covered(r)'
  BY <1>1 DEF Each, Same, Heals, HasTranscript, Untroubled, Losses, Covered, Covers
<1>2. CASE UNCHANGED vars
  BY <1>1, <1>2 DEF Each, Same, vars, runVars, fileVars, textVars, qaVars, costVars, hookVars
<1>3. CASE Next /\ ~Terminating
  <2>1. PICK q \in Runs : \/ Step(q) \/ ReadPrice(q) \/ WritePrice(q)
                          \/ Shutdown(q) \/ Kill(q) \/ Timeout(q)
    BY <1>3 DEF Next
  <2>2. Heals(q)' /\ Losses(q)' /\ Covered(q)'
    BY <2>1, HealsKept, LossesKept, CoveredKept DEF Each
  <2>3. \A r \in Runs \ {q} : Heals(r)' /\ Losses(r)' /\ Covered(r)'
    BY <2>1, <1>1, Apart
  <2> QED
    BY <2>2, <2>3 DEF Each
<1> QED
  BY <1>2, <1>3 DEF Terminating

LEMMA EachHolds == Spec => []Each
<1>1. Init => Each
  BY DEF Init, Each, Heals, Losses, Covered, HasTranscript, Late, Calculated, Settling
<1>2. Inv /\ Each /\ [Next]_vars => Each'
  BY EachKept
<1> QED
  BY InvHolds, <1>1, <1>2, PTL DEF Spec

\* A run whose recording has reached the storage ends with a transcript of both
\* sides, however often its job was cancelled, killed and begun again
\* (process_workflow_completion, s3_upload.py).
THEOREM TranscriptsHealed == Spec => []TranscriptHeals
<1>1. Each => TranscriptHeals
  BY DEF Each, Heals, Untroubled, HasTranscript, Late, Places, TranscriptHeals
<1> QED
  BY EachHolds, <1>1, PTL

\* The cost of a run covers the QA analyses of all its tries (run_integrations.py,
\* workflow_run_cost.py), but for one at the most of each try that was stopped
\* before the tokens were written, unless the webhook has put an older cost_info
\* back.
THEOREM CostCovered == Spec => []CostCoversUsage
<1>1. Inv /\ Each => CostCoversUsage
  <2> SUFFICES ASSUME Inv, Each, NEW r \in Runs, job[r] = "done", "db" \notin mishaps[r]
               PROVE  /\ uncounted[r] =< tries[r] - 1
                      /\ \/ cost[r].qa = spent[r] - uncounted[r]
                         \/ hook[r] = "done" /\ cost[r].qa = hookRead[r].qa
    BY DEF CostCoversUsage
  <2>1. tries[r] \in 0 .. MaxTries /\ MaxTries \in Nat /\ uncounted[r] \in Nat /\ usage[r] \in Nat
    BY BoundsAssumption DEF Inv, TypeOK, RunTypes, BillTypes
  <2>2. uncounted[r] < tries[r] /\ spent[r] = usage[r] + uncounted[r] /\ Covers(r)
    BY DEF Each, Losses, Covered, Calculated
  <2> QED
    BY <2>1, <2>2 DEF Covers
<1> QED
  BY InvHolds, EachHolds, <1>1, PTL
=============================================================================
