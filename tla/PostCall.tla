------------------------------ MODULE PostCall ------------------------------
(***************************************************************************)
(* What happens to a call when its pipeline is over: one arq job per run   *)
(* uploads the recording and the live transcript, regenerates a transcript *)
(* of which one side is missing, summarizes, runs the QA analysis,         *)
(* calculates the cost and adds it to the usage of the organization.  A    *)
(* worker that shuts down cancels its jobs, and arq runs them again from   *)
(* the start; the worker's disk is the only place of what was not yet      *)
(* uploaded.  Jobs of several runs meet at the row of the usage cycle, and *)
(* the webhook of Vonage writes the cost_info of its run.                  *)
(***************************************************************************)
EXTENDS Integers, FiniteSets

CONSTANTS
  Runs,        \* completed runs of one organization
  Priced,      \* those whose provider reports a price by webhook (Vonage)
  Files,       \* what may be in the temporary files of each run when its job is enqueued
  None,
  MaxTries,    \* how often arq runs a job, max_tries
  Faults,      \* what may go wrong, a subset of AllFaults
  MaxMishaps   \* bound on how many kinds of it happen

\* refused:  an upload is refused, and aupload_file returns False
\* storage:  the storage cannot be reached, and the call raises
\* llm:      a model does not answer
\* db:       a read or write of the job raises
\* shutdown: the worker cancels the job;  kill: the worker dies
\* timeout:  the job takes more than the 300 s of arq, and is not run again
AllFaults == {"refused", "storage", "llm", "db", "shutdown", "kill", "timeout"}

\* A transcript has both sides, or it is one to regenerate; a recording is "full".
Artifacts == {"audio", "transcript"}
Content == {"nothing", "onesided", "full"}

ASSUME RunsAssumption == Priced \subseteq Runs /\ None \notin Runs
ASSUME FilesAssumption ==
  /\ Files \in [Runs -> SUBSET [Artifacts -> Content]]
  /\ \A r \in Runs : \A f \in Files[r] : f["audio"] # "onesided"
ASSUME BoundsAssumption == MaxTries \in Nat \ {0} /\ MaxMishaps \in Nat
ASSUME FaultAssumption == Faults \subseteq AllFaults

VARIABLES
  job,         \* where the job of a run stands
  tries,       \* how often it was begun
  temp,        \* temporary files on the worker's disk
  stored,      \* objects in the storage
  linked,      \* which of them the run has a URL of
  text,        \* the job's transcript_text
  regenerated, \* the job's transcript_regenerated
  summary,     \* what the summary was made of
  insights,    \* what action items and sentiment were made of
  spent,       \* QA analyses made
  uncounted,   \* those of them whose try was stopped before they were counted
  usage,       \* QA analyses in usage_info
  cost,        \* cost_info: the QA analyses it covers, and the webhook's price
  costRead,    \* usage_info and cost_info as the job has read them
  hook,        \* where the webhook stands
  hookRead,    \* cost_info as the webhook has read it
  cycle,       \* the usage cycle exists
  lock,        \* the run whose transaction has inserted or locked its row
  used,        \* the settlements that are summed up in it
  seen,        \* the sum as a transaction has read it
  settled,     \* all settlements committed
  overlapped,  \* one was committed while another transaction had read the sum
  mishaps

runVars == <<job, tries>>
fileVars == <<temp, stored, linked>>
textVars == <<text, regenerated, summary, insights>>
qaVars == <<spent, uncounted, usage>>
costVars == <<cost, costRead>>
hookVars == <<hook, hookRead>>
ledgerVars == <<cycle, lock, used, seen, settled, overlapped>>
vars == <<runVars, fileVars, textVars, qaVars, costVars, hookVars, ledgerVars, mishaps>>

-----------------------------------------------------------------------------
(* The places of a job. *)

AtUpload == [a \in Artifacts |-> IF a = "audio" THEN "put audio" ELSE "put transcript"]
AtLink == [a \in Artifacts |-> IF a = "audio" THEN "link audio" ELSE "link transcript"]
After == [a \in Artifacts |-> IF a = "audio" THEN "put transcript" ELSE "reuse"]

Settling == {"cycle", "insert", "lock", "commit"}
Busy == {"put audio", "link audio", "put transcript", "link transcript", "reuse", "regenerate",
         "put text", "link text", "summary", "insights", "qa", "count", "cost", "store", "end"}
        \cup Settling
Places == {"queued", "done", "dead"} \cup Busy

\* cost_info before any calculation.
NotCosted == [qa |-> -1, price |-> FALSE]
Costs == [qa : {-1} \cup Nat, price : BOOLEAN]

RunTypes ==
  /\ job \in [Runs -> Places] /\ tries \in [Runs -> 0 .. MaxTries]
  /\ mishaps \in [Runs -> SUBSET AllFaults]
FileTypes ==
  /\ temp \in [Runs -> [Artifacts -> Content]] /\ stored \in [Runs -> [Artifacts -> Content]]
  /\ linked \in [Runs -> SUBSET Artifacts]
TextTypes ==
  /\ text \in [Runs -> Content] /\ regenerated \in [Runs -> BOOLEAN]
  /\ summary \in [Runs -> Content] /\ insights \in [Runs -> Content]
BillTypes ==
  /\ spent \in [Runs -> Nat] /\ uncounted \in [Runs -> Nat] /\ usage \in [Runs -> Nat]
  /\ cost \in [Runs -> Costs] /\ costRead \in [Runs -> [usage : Nat, cost : Costs]]
  /\ hook \in [Runs -> {"none", "read", "done"}] /\ hookRead \in [Runs -> Costs]
LedgerTypes ==
  /\ cycle \in BOOLEAN /\ lock \in Runs \cup {None} /\ overlapped \in BOOLEAN
  /\ used \subseteq Runs \X Nat /\ settled \subseteq Runs \X Nat
  /\ seen \in [Runs -> SUBSET (Runs \X Nat)]

TypeOK == RunTypes /\ FileTypes /\ TextTypes /\ BillTypes /\ LedgerTypes

\* on_pipeline_finished has written the files and enqueued the job.  The cycle
\* may be new; what earlier runs have used is left out of the sum.
Init ==
  /\ job = [r \in Runs |-> "queued"] /\ tries = [r \in Runs |-> 0]
  /\ temp \in {t \in [Runs -> UNION {Files[r] : r \in Runs}] : \A r \in Runs : t[r] \in Files[r]}
  /\ stored = [r \in Runs |-> [a \in Artifacts |-> "nothing"]]
  /\ linked = [r \in Runs |-> {}]
  /\ text = [r \in Runs |-> "nothing"] /\ regenerated = [r \in Runs |-> FALSE]
  /\ summary = [r \in Runs |-> "nothing"] /\ insights = [r \in Runs |-> "nothing"]
  /\ spent = [r \in Runs |-> 0] /\ uncounted = [r \in Runs |-> 0] /\ usage = [r \in Runs |-> 0]
  /\ cost = [r \in Runs |-> NotCosted]
  /\ costRead = [r \in Runs |-> [usage |-> 0, cost |-> NotCosted]]
  /\ hook = [r \in Runs |-> "none"] /\ hookRead = [r \in Runs |-> NotCosted]
  /\ cycle \in BOOLEAN /\ lock = None /\ used = {} /\ settled = {} /\ overlapped = FALSE
  /\ seen = [r \in Runs |-> {}]
  /\ mishaps = [r \in Runs |-> {}]

Goto(r, place) == job' = [job EXCEPT ![r] = place]

\* The bound: no more than MaxMishaps kinds happen, to one run or several.
MayHappen(kind) ==
  kind \in Faults /\ Cardinality(UNION {mishaps[r] : r \in Runs} \cup {kind}) =< MaxMishaps

\* An interruption (Stop) may happen to each try, everything else once to a run.
Mishap(r, kind) ==
  /\ MayHappen(kind) /\ kind \notin mishaps[r]
  /\ mishaps' = [mishaps EXCEPT ![r] = @ \cup {kind}]

\* A step is done, or something of these kinds goes wrong and it is not.
Either(r, done, kinds, undone) ==
  \/ done /\ UNCHANGED mishaps
  \/ (\E kind \in kinds : Mishap(r, kind)) /\ undone

-----------------------------------------------------------------------------
(* Steps 1 and 2: the artifacts. *)

Begin(r) ==
  /\ job[r] = "queued"
  /\ Goto(r, "put audio")
  /\ tries' = [tries EXCEPT ![r] = @ + 1]
  /\ text' = [text EXCEPT ![r] = "nothing"]
  /\ regenerated' = [regenerated EXCEPT ![r] = FALSE]
  /\ UNCHANGED <<fileVars, summary, insights, qaVars, costVars, hookVars, ledgerVars, mishaps>>

RemoveTemp(r, a) == temp' = [temp EXCEPT ![r][a] = "nothing"]

\* The transcript is read before it is uploaded.  Nobody looks at the result of
\* an upload: one that is refused is followed by its link.
Upload(r, a) ==
  /\ job[r] = AtUpload[a]
  /\ text' = IF a = "transcript" THEN [text EXCEPT ![r] = temp[r][a]] ELSE text
  /\ \/ /\ temp[r][a] = "nothing"
        /\ Goto(r, After[a])
        /\ UNCHANGED <<fileVars, mishaps>>
     \/ /\ temp[r][a] # "nothing"
        /\ \/ /\ stored' = [stored EXCEPT ![r][a] = temp[r][a]]
              /\ Goto(r, AtLink[a])
              /\ UNCHANGED <<temp, mishaps>>
           \/ /\ Mishap(r, "refused")
              /\ Goto(r, AtLink[a])
              /\ UNCHANGED <<temp, stored>>
           \/ /\ Mishap(r, "storage")
              /\ RemoveTemp(r, a)
              /\ Goto(r, After[a])
              /\ UNCHANGED stored
        /\ UNCHANGED linked
  /\ UNCHANGED <<tries, regenerated, summary, insights, qaVars, costVars, hookVars, ledgerVars>>

Link(r, a) ==
  /\ job[r] = AtLink[a]
  /\ Either(r, linked' = [linked EXCEPT ![r] = @ \cup {a}], {"db"}, UNCHANGED linked)
  /\ RemoveTemp(r, a)
  /\ Goto(r, After[a])
  /\ UNCHANGED <<tries, stored, textVars, qaVars, costVars, hookVars, ledgerVars>>

-----------------------------------------------------------------------------
(* Step 2b: the transcript is reused, or regenerated from the recording. *)

Reuse(r) ==
  /\ job[r] = "reuse"
  /\ \/ /\ text[r] # "nothing" \/ "transcript" \notin linked[r]
        /\ UNCHANGED <<text, mishaps>>
     \/ /\ text[r] = "nothing" /\ "transcript" \in linked[r]
        /\ Either(r, text' = [text EXCEPT ![r] = stored[r]["transcript"]],
                  {"storage", "db"}, UNCHANGED text)
  /\ Goto(r, "regenerate")
  /\ UNCHANGED <<tries, fileVars, regenerated, summary, insights,
                 qaVars, costVars, hookVars, ledgerVars>>

\* The recording is looked for under its name, whether it is linked or not.
SlipRecording(r) == IF "audio" \in linked[r] THEN stored[r]["audio"] ELSE "nothing"
Recording(r) == stored[r]["audio"]

Regenerate(r) ==
  /\ job[r] = "regenerate"
  /\ \/ /\ text[r] = "full" \/ Recording(r) = "nothing"
        /\ Goto(r, "summary") /\ UNCHANGED mishaps
     \/ /\ text[r] # "full" /\ Recording(r) # "nothing"
        /\ Either(r, Goto(r, "put text"), {"storage", "llm", "db"}, Goto(r, "summary"))
  /\ UNCHANGED <<tries, fileVars, textVars, qaVars, costVars, hookVars, ledgerVars>>

PutText(r) ==
  /\ job[r] = "put text"
  /\ \/ /\ stored' = [stored EXCEPT ![r]["transcript"] = "full"]
        /\ Goto(r, "link text") /\ UNCHANGED mishaps
     \/ /\ Mishap(r, "refused")
        /\ Goto(r, "link text") /\ UNCHANGED stored
     \/ /\ Mishap(r, "storage")
        /\ Goto(r, "summary") /\ UNCHANGED stored
  /\ UNCHANGED <<tries, temp, linked, textVars, qaVars, costVars, hookVars, ledgerVars>>

LinkText(r) ==
  /\ job[r] = "link text"
  /\ Either(r,
            /\ linked' = [linked EXCEPT ![r] = @ \cup {"transcript"}]
            /\ text' = [text EXCEPT ![r] = "full"]
            /\ regenerated' = [regenerated EXCEPT ![r] = TRUE],
            {"db"}, UNCHANGED <<linked, text, regenerated>>)
  /\ Goto(r, "summary")
  /\ UNCHANGED <<tries, temp, stored, summary, insights, qaVars, costVars, hookVars, ledgerVars>>

-----------------------------------------------------------------------------
(* Steps 2c and 2d: summary and insights, kept once they are there. *)

Summarize(r) ==
  /\ job[r] = "summary"
  /\ \/ /\ text[r] # "nothing" /\ (summary[r] = "nothing" \/ regenerated[r])
        /\ Either(r, summary' = [summary EXCEPT ![r] = text[r]],
                  {"llm", "db"}, UNCHANGED summary)
     \/ /\ text[r] = "nothing" \/ ~(summary[r] = "nothing" \/ regenerated[r])
        /\ UNCHANGED <<summary, mishaps>>
  /\ Goto(r, "insights")
  /\ UNCHANGED <<tries, fileVars, text, regenerated, insights,
                 qaVars, costVars, hookVars, ledgerVars>>

GainInsights(r) ==
  /\ job[r] = "insights"
  /\ \/ /\ text[r] # "nothing" /\ insights[r] = "nothing"
        /\ Either(r, insights' = [insights EXCEPT ![r] = text[r]],
                  {"llm", "db"}, UNCHANGED insights)
     \/ /\ text[r] = "nothing" \/ insights[r] # "nothing"
        /\ UNCHANGED <<insights, mishaps>>
  /\ Goto(r, "qa")
  /\ UNCHANGED <<tries, fileVars, text, regenerated, summary,
                 qaVars, costVars, hookVars, ledgerVars>>

-----------------------------------------------------------------------------
(* Step 3: the integrations, of which the QA analysis has tokens to count. *)

\* A call that is short, sampled out or voicemail is not analysed.
Analyse(r) ==
  /\ job[r] = "qa"
  /\ \/ Goto(r, "cost") /\ UNCHANGED <<spent, mishaps>>
     \/ Mishap(r, "llm") /\ Goto(r, "cost") /\ UNCHANGED spent
     \/ /\ spent' = [spent EXCEPT ![r] = @ + 1]
        /\ Goto(r, "count") /\ UNCHANGED mishaps
  /\ UNCHANGED <<tries, fileVars, textVars, uncounted, usage, costVars, hookVars, ledgerVars>>

\* The tokens are added to those of an earlier analysis with the same model.
SlipCounted(r) == 1
Counted(r) == usage[r] + 1

CountTokens(r) ==
  /\ job[r] = "count"
  /\ Either(r, usage' = [usage EXCEPT ![r] = Counted(r)], {"db"}, UNCHANGED usage)
  /\ Goto(r, "cost")
  /\ UNCHANGED <<tries, fileVars, textVars, spent, uncounted, costVars, hookVars, ledgerVars>>

-----------------------------------------------------------------------------
(* Step 4: the cost.  The provider is asked between the read and the write. *)

ReadCost(r) ==
  /\ job[r] = "cost"
  /\ Either(r,
            /\ costRead' = [costRead EXCEPT ![r] = [usage |-> usage[r], cost |-> cost[r]]]
            /\ Goto(r, "store"),
            {"db"}, Goto(r, "end") /\ UNCHANGED costRead)
  /\ UNCHANGED <<tries, fileVars, textVars, qaVars, cost, hookVars, ledgerVars>>

StoreCost(r) ==
  /\ job[r] = "store"
  /\ Either(r,
            /\ cost' = [cost EXCEPT ![r] =
                          [qa |-> costRead[r].usage, price |-> costRead[r].cost.price]]
            /\ Goto(r, "cycle"),
            {"db"}, Goto(r, "end") /\ UNCHANGED cost)
  /\ UNCHANGED <<tries, fileVars, textVars, qaVars, costRead, hookVars, ledgerVars>>

\* The webhook of Vonage adds the price to the cost_info it has read.
ReadPrice(r) ==
  /\ r \in Priced /\ hook[r] = "none"
  /\ hook' = [hook EXCEPT ![r] = "read"]
  /\ hookRead' = [hookRead EXCEPT ![r] = cost[r]]
  /\ UNCHANGED <<runVars, fileVars, textVars, qaVars, costVars, ledgerVars, mishaps>>

WritePrice(r) ==
  /\ hook[r] = "read"
  /\ hook' = [hook EXCEPT ![r] = "done"]
  /\ cost' = [cost EXCEPT ![r] = [qa |-> hookRead[r].qa, price |-> TRUE]]
  /\ UNCHANGED <<runVars, fileVars, textVars, qaVars, costRead, hookRead, ledgerVars, mishaps>>

-----------------------------------------------------------------------------
(* update_usage_after_run: one transaction per settlement.  A settlement is *)
(* a try of a job, and the sum is the set of its summands.                  *)

Settlement(r) == <<r, tries[r]>>

\* The others whose transaction has read the sum and is not over.
Reading(r) == {q \in Runs \ {r} : job[q] \in {"lock", "commit"}}

RestOfJob == <<tries, fileVars, textVars, qaVars, costVars, hookVars>>

Rollback(r) ==
  /\ Mishap(r, "db")
  /\ Goto(r, "end")
  /\ lock' = IF lock = r THEN None ELSE lock
  /\ UNCHANGED <<cycle, used, seen, settled, overlapped>>

ReadCycle(r) ==
  /\ job[r] = "cycle"
  /\ \/ /\ cycle
        /\ seen' = [seen EXCEPT ![r] = used]
        /\ Goto(r, "lock") /\ UNCHANGED <<cycle, lock, used, settled, overlapped, mishaps>>
     \/ /\ ~cycle
        /\ Goto(r, "insert") /\ UNCHANGED <<ledgerVars, mishaps>>
     \/ Rollback(r)
  /\ UNCHANGED RestOfJob

\* The cycle is selected once more after the insert.
SlipSelected == {}
Selected == used

\* The insert waits for one that is not committed, and does nothing if the
\* cycle is there then.
InsertCycle(r) ==
  /\ job[r] = "insert"
  /\ \/ /\ cycle \/ lock = None
        /\ lock' = IF cycle THEN lock ELSE r
        /\ seen' = [seen EXCEPT ![r] = Selected]
        /\ Goto(r, "lock") /\ UNCHANGED <<cycle, used, settled, overlapped, mishaps>>
     \/ Rollback(r)
  /\ UNCHANGED RestOfJob

\* The row of one's own insert is one's own to lock.
Free(r) == lock \in {None, r}

\* SELECT ... FOR UPDATE returns the object the session has, as it was read.
LockCycle(r) ==
  /\ job[r] = "lock"
  /\ \/ /\ Free(r)
        /\ lock' = r
        /\ Goto(r, "commit") /\ UNCHANGED <<cycle, used, seen, settled, overlapped, mishaps>>
     \/ Rollback(r)
  /\ UNCHANGED RestOfJob

CommitUsage(r) ==
  /\ job[r] = "commit"
  /\ \/ /\ used' = seen[r] \cup {Settlement(r)}
        /\ settled' = settled \cup {Settlement(r)}
        /\ overlapped' = (overlapped \/ Reading(r) # {})
        /\ cycle' = TRUE /\ lock' = None
        /\ Goto(r, "end") /\ UNCHANGED <<seen, mishaps>>
     \/ Rollback(r)
  /\ UNCHANGED RestOfJob

Finish(r) ==
  /\ job[r] = "end"
  /\ Goto(r, "done")
  /\ UNCHANGED <<RestOfJob, ledgerVars, mishaps>>

-----------------------------------------------------------------------------
(* The worker. *)

\* A job that is cancelled removes the file it was working on, one that is
\* killed does not.  In both cases the database rolls its transaction back, and
\* the tokens of an analysis that were not yet written are lost.
Stop(r, kind) ==
  /\ job[r] \in Busy
  /\ MayHappen(kind)
  /\ mishaps' = [mishaps EXCEPT ![r] = @ \cup {kind}]
  /\ temp' = [temp EXCEPT ![r] =
                [a \in Artifacts |-> IF kind # "kill" /\ job[r] \in {AtUpload[a], AtLink[a]}
                                       THEN "nothing" ELSE temp[r][a]]]
  /\ uncounted' = IF job[r] = "count" THEN [uncounted EXCEPT ![r] = @ + 1] ELSE uncounted
  /\ lock' = IF lock = r THEN None ELSE lock
  /\ UNCHANGED <<tries, stored, linked, textVars, spent, usage, costVars, hookVars,
                 cycle, used, seen, settled, overlapped>>

\* arq runs a job again that was cancelled or has vanished, and not too often.
SlipAgain(r) == "queued"
Again(r) == IF tries[r] < MaxTries THEN "queued" ELSE "dead"

Shutdown(r) == Stop(r, "shutdown") /\ Goto(r, Again(r))
Kill(r) == Stop(r, "kill") /\ Goto(r, Again(r))
Timeout(r) == Stop(r, "timeout") /\ Goto(r, "dead")

Step(r) ==
  \/ Begin(r)
  \/ \E a \in Artifacts : Upload(r, a) \/ Link(r, a)
  \/ Reuse(r) \/ Regenerate(r) \/ PutText(r) \/ LinkText(r)
  \/ Summarize(r) \/ GainInsights(r)
  \/ Analyse(r) \/ CountTokens(r)
  \/ ReadCost(r) \/ StoreCost(r)
  \/ ReadCycle(r) \/ InsertCycle(r) \/ LockCycle(r) \/ CommitUsage(r)
  \/ Finish(r)

\* Every job is over, and nobody waits for a row.
Terminating ==
  /\ \A r \in Runs : job[r] \in {"done", "dead"}
  /\ UNCHANGED vars

Next ==
  \/ \E r \in Runs :
       \/ Step(r)
       \/ ReadPrice(r) \/ WritePrice(r)
       \/ Shutdown(r) \/ Kill(r) \/ Timeout(r)
  \/ Terminating

Spec == Init /\ [][Next]_vars

-----------------------------------------------------------------------------
(* Properties. *)

\* Settlements that do not overlap add up, the one that creates the cycle and
\* those that wait for it included, and nothing is ever in the sum that was not
\* settled, whoever rolls back or is cancelled.
LedgerIsSound ==
  /\ used \subseteq settled
  /\ ~overlapped => used = settled

\* A run whose recording has reached the storage has a transcript of both sides
\* in the end, at whatever point and however often its job was interrupted
\* ("reprocessing also heals old runs").
TranscriptHeals ==
  \A r \in Runs :
    job[r] = "done" /\ stored[r]["audio"] # "nothing"
    /\ mishaps[r] \cap {"refused", "storage", "llm", "db"} = {}
      => "transcript" \in linked[r] /\ stored[r]["transcript"] = "full"

\* The cost of a run covers its QA analyses, those of earlier tries too ("so QA
\* token usage is included"), but for the analysis a try was stopped over before
\* its tokens were written, at most one for each of the tries before the last;
\* and unless the webhook has put an older cost_info back.
CostCoversUsage ==
  \A r \in Runs :
    job[r] = "done" /\ "db" \notin mishaps[r]
      => /\ uncounted[r] =< tries[r] - 1
         /\ \/ cost[r].qa = spent[r] - uncounted[r]
            \/ hook[r] = "done" /\ cost[r].qa = hookRead[r].qa
=============================================================================
