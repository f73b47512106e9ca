----------------------------- MODULE CallEnding -----------------------------
(***************************************************************************)
(* The end of one call in the workflow engine.  The model moves from node  *)
(* to node, and what the caller said at a node is extracted by a task in   *)
(* the background; up to eight parties may end the call, each in a task of *)
(* its own; the one that comes first awaits the extractions, maps the      *)
(* disposition and queues the frame that ends the pipeline; and when the   *)
(* pipeline has ended, the gathered context is copied and saved.           *)
(***************************************************************************)
EXTENDS Naturals, FiniteSets

CONSTANTS
  Nodes,        \* nodes of the workflow, each entered at most once by a call of the model
  StartNode,
  EndNodes,
  Edges,
  Extracting,   \* nodes with variables to extract
  Disposing,    \* those among them that extract a variable call_disposition
  Reasons,      \* who may end the call
  NoValue,
  Faults,       \* what may go wrong in a run, a subset of AllFaults
  MaxMishaps    \* bound on how much of it does, each kind once

\* An error or a voicemail ends the call without extractions.
Abrupt == {"error", "voicemail"}
AllReasons == {"qualified", "tool", "transfer", "hangup", "idle", "duration"} \cup Abrupt

\* raise:     an extraction raises
\* timeout:   extractions in the background take more than 30 s
\* setup:     a node is entered and cannot be set up
\* late:      the model moves on, or ends the call, while the call is being ended
\* fatal:     a fatal error, for which the pipeline is cancelled at once
\* silence:   the pipeline is cancelled as idle while somebody ends the call
\* interrupt: speech cancels the frame in whose processing the longest duration is noticed
\* db:        the run cannot be read or written at the end
AllFaults == {"raise", "timeout", "setup", "late", "fatal", "silence", "interrupt", "db"}

ASSUME NodeAssumption ==
  /\ StartNode \in Nodes /\ EndNodes \subseteq Nodes
  /\ Disposing \subseteq Extracting /\ Extracting \subseteq Nodes
  /\ NoValue \notin Nodes \cup AllReasons /\ Nodes \cap AllReasons = {}
ASSUME ReasonAssumption == Reasons \subseteq AllReasons
ASSUME FaultAssumption == Faults \subseteq AllFaults /\ MaxMishaps \in Nat

VARIABLES
  current,      \* the node the call is at
  visited,
  moves,        \* where the model's call of the transition to a node stands
  pending,      \* nodes whose extraction runs in the background
  gathered,     \* nodes whose variables are in the gathered context
  disposition,  \* call_disposition: extracted by a node, given by the tool, or a reason
  mapped,       \* what mapped_call_disposition was made of
  disposed,
  ender,        \* where the one who ends the call for a reason stands
  awaited,      \* the extractions that are being awaited
  final,        \* the node of the last extraction, while that one is awaited
  read,         \* the disposition that is being mapped
  ended,        \* a frame that ends the pipeline is queued
  pipeline,     \* running, or over
  finish,       \* where on_pipeline_finished stands
  saved,        \* what of the gathered context it has copied
  mishaps

flowVars == <<current, visited, moves>>
gatherVars == <<pending, gathered>>
contextVars == <<disposition, mapped>>
endVars == <<disposed, ender, awaited, final, read>>
pipeVars == <<ended, pipeline>>
finishVars == <<finish, saved>>
vars == <<flowVars, gatherVars, contextVars, endVars, pipeVars, finishVars, mishaps>>

Dispositions == Nodes \cup AllReasons \cup {NoValue}
Busy == {"wait", "extract", "map"}

TypeOK ==
  /\ current \in Nodes /\ visited \subseteq Nodes
  /\ moves \in [Nodes -> {"none", "setup", "result", "done"}]
  /\ pending \subseteq Extracting /\ gathered \subseteq Extracting
  /\ disposition \in Dispositions /\ mapped \in Dispositions
  /\ disposed \in BOOLEAN
  /\ ender \in [Reasons -> {"none", "called", "ignored", "done", "cancelled"} \cup Busy]
  /\ awaited \subseteq Extracting /\ final \in Nodes \cup {NoValue} /\ read \in Dispositions
  /\ ended \in BOOLEAN /\ pipeline \in {"running", "over"}
  /\ finish \in {"none", "read", "copy", "save", "done", "failed"}
  /\ saved \in [nodes : SUBSET Extracting, disposition : Dispositions, mapped : Dispositions]
  /\ mishaps \subseteq Faults

\* The first node is set before the pipeline starts.
Init ==
  /\ current = StartNode /\ visited = {StartNode}
  /\ moves = [n \in Nodes |-> "none"]
  /\ pending = {} /\ gathered = {}
  /\ disposition = NoValue /\ mapped = NoValue
  /\ disposed = FALSE /\ ender = [r \in Reasons |-> "none"]
  /\ awaited = {} /\ final = NoValue /\ read = NoValue
  /\ ended = FALSE /\ pipeline = "running"
  /\ finish = "none"
  /\ saved = [nodes |-> {}, disposition |-> NoValue, mapped |-> NoValue]
  /\ mishaps = {}

Mishap(kind) ==
  /\ kind \in Faults \ mishaps
  /\ Cardinality(mishaps) < MaxMishaps
  /\ mishaps' = mishaps \cup {kind}

\* A tool that is called once the call is being ended is a mishap.
InTime == IF disposed THEN Mishap("late") ELSE UNCHANGED mishaps

-----------------------------------------------------------------------------
(* The model moves along the edges.  A transition stays registered when its *)
(* node is left, and the calls of one generation run in parallel.           *)

SlipTransition(n) ==
  /\ pipeline = "running"
  /\ n # StartNode /\ moves[n] = "none" /\ \E m \in visited \ EndNodes : <<m, n>> \in Edges
  /\ InTime
  /\ pending' = pending \cup {current}
  /\ current' = n /\ visited' = visited \cup {n}
  /\ moves' = [moves EXCEPT ![n] = "setup"]
  /\ UNCHANGED <<gathered, contextVars, endVars, pipeVars, finishVars>>

\* Up to the set-up of the new node nothing is awaited.
Transition(n) ==
  /\ pipeline = "running"
  /\ n # StartNode /\ moves[n] = "none" /\ \E m \in visited \ EndNodes : <<m, n>> \in Edges
  /\ InTime
  /\ pending' = pending \cup ({current} \cap Extracting)
  /\ current' = n /\ visited' = visited \cup {n}
  /\ moves' = [moves EXCEPT ![n] = "setup"]
  /\ UNCHANGED <<gathered, contextVars, endVars, pipeVars, finishVars>>

SetUpNode(n) ==
  /\ pipeline = "running" /\ moves[n] = "setup"
  /\ \/ moves' = [moves EXCEPT ![n] = "result"] /\ UNCHANGED mishaps
     \/ moves' = [moves EXCEPT ![n] = "done"] /\ Mishap("setup")
  /\ UNCHANGED <<current, visited, gatherVars, contextVars, endVars, pipeVars, finishVars>>

\* on_context_updated: the node asked for its end is the one the call is at by now.
ContextUpdated(n) ==
  /\ pipeline = "running" /\ moves[n] = "result"
  /\ moves' = [moves EXCEPT ![n] = "done"]
  /\ ender' = IF current \in EndNodes /\ "qualified" \in Reasons /\ ender["qualified"] = "none"
                THEN [ender EXCEPT !["qualified"] = "called"] ELSE ender
  /\ UNCHANGED <<current, visited, gatherVars, contextVars, disposed, awaited, final, read,
                 pipeVars, finishVars, mishaps>>

\* The extraction of a node has its answer: a disposition may be among the variables.
Gathers(n) ==
  /\ gathered' = gathered \cup {n}
  /\ disposition' = IF n \in Disposing THEN n ELSE disposition

ExtractionRaises == Mishap("raise") /\ UNCHANGED <<gathered, disposition>>

BackgroundExtraction(n) ==
  /\ n \in pending
  /\ pending' = pending \ {n}
  /\ \/ Gathers(n) /\ UNCHANGED mishaps
     \/ ExtractionRaises
  /\ UNCHANGED <<flowVars, mapped, endVars, pipeVars, finishVars>>

-----------------------------------------------------------------------------
(* Somebody ends the call.                                                  *)

Called(r) == ender[r] = "none" /\ ender' = [ender EXCEPT ![r] = "called"]

\* The tool of the model may give its own disposition, and answers the model
\* before it ends the call.
EndTool ==
  /\ pipeline = "running"
  /\ "tool" \in Reasons /\ Called("tool")
  /\ InTime
  /\ disposition' \in {disposition, "tool"}
  /\ UNCHANGED <<flowVars, gatherVars, mapped, disposed, awaited, final, read, pipeVars,
                 finishVars>>

\* The caller hangs up or stays idle, a transfer succeeds, a voicemail is
\* detected, the longest duration is exceeded, or an error goes up the pipeline.
EndEvent(r) ==
  /\ pipeline = "running"
  /\ r \in Reasons \ {"qualified", "tool"} /\ Called(r)
  /\ \/ UNCHANGED <<ended, mishaps>>
     \/ r = "error" /\ Mishap("fatal") /\ ended' = TRUE
  /\ UNCHANGED <<flowVars, gatherVars, contextVars, disposed, awaited, final, read, pipeline,
                 finishVars>>

\* The steps of end_call_with_reason between its awaits.
SlipMap(r) ==
  /\ ender' = [ender EXCEPT ![r] = "map"]
  /\ read' = disposition /\ final' = NoValue

Map(r) ==
  /\ ender' = [ender EXCEPT ![r] = "map"]
  /\ read' = disposition' /\ final' = NoValue

LastExtraction(r) ==
  IF current \in Extracting
    THEN ender' = [ender EXCEPT ![r] = "extract"] /\ final' = current /\ UNCHANGED read
    ELSE Map(r)

SlipWait(r) == LastExtraction(r) /\ UNCHANGED awaited

Wait(r) ==
  IF pending # {}
    THEN ender' = [ender EXCEPT ![r] = "wait"] /\ awaited' = pending /\ UNCHANGED <<final, read>>
    ELSE LastExtraction(r) /\ UNCHANGED awaited

EndCall(r) ==
  /\ ender[r] = "called"
  /\ UNCHANGED disposition
  /\ IF disposed
       THEN /\ ender' = [ender EXCEPT ![r] = "ignored"]
            /\ UNCHANGED <<disposed, awaited, final, read>>
       ELSE /\ disposed' = TRUE
            /\ IF r \in Abrupt THEN Map(r) /\ UNCHANGED awaited ELSE Wait(r)
  /\ UNCHANGED <<flowVars, gatherVars, mapped, pipeVars, finishVars, mishaps>>

PendingDone(r) ==
  /\ ender[r] = "wait" /\ awaited \cap pending = {}
  /\ UNCHANGED disposition
  /\ LastExtraction(r) /\ awaited' = {}
  /\ UNCHANGED <<flowVars, gatherVars, mapped, disposed, pipeVars, finishVars, mishaps>>

\* asyncio.wait_for cancels what it has gathered.
PendingTimeOut(r) ==
  /\ ender[r] = "wait" /\ awaited \cap pending # {}
  /\ Mishap("timeout")
  /\ pending' = pending \ awaited
  /\ UNCHANGED disposition
  /\ LastExtraction(r) /\ awaited' = {}
  /\ UNCHANGED <<flowVars, gathered, mapped, disposed, pipeVars, finishVars>>

FinalExtraction(r) ==
  /\ ender[r] = "extract"
  /\ \/ Gathers(final) /\ UNCHANGED mishaps
     \/ ExtractionRaises
  /\ Map(r)
  /\ UNCHANGED <<flowVars, pending, mapped, disposed, awaited, pipeVars, finishVars>>

\* The organization and its mapping are read; then the disposition, or the
\* reason in its place, is written with its image and the frame is queued.
QueueEnd(r) ==
  /\ ender[r] = "map"
  /\ ender' = [ender EXCEPT ![r] = "done"]
  /\ disposition' = (IF read # NoValue THEN read ELSE r) /\ mapped' = disposition'
  /\ ended' = TRUE
  /\ UNCHANGED <<flowVars, gatherVars, disposed, awaited, final, read, pipeline, finishVars, mishaps>>

\* The end for the longest duration is awaited in the processing of a heartbeat,
\* which an interruption cancels, and with it the extractions that are awaited.
\* The next heartbeat finds the call disposed.
InterruptEnd ==
  /\ "duration" \in Reasons /\ ender["duration"] \in Busy
  /\ Mishap("interrupt")
  /\ ender' = [ender EXCEPT !["duration"] = "cancelled"]
  /\ pending' = pending \ awaited
  /\ awaited' = {} /\ final' = NoValue
  /\ UNCHANGED <<flowVars, gathered, contextVars, disposed, read, pipeVars, finishVars>>

EndCallSteps(r) ==
  \/ EndCall(r)
  \/ PendingDone(r)
  \/ FinalExtraction(r)
  \/ QueueEnd(r)

-----------------------------------------------------------------------------
(* The pipeline takes the first frame that ends it.                         *)

EndPipeline ==
  /\ pipeline = "running" /\ ended
  /\ pipeline' = "over" /\ finish' = "read"
  /\ UNCHANGED <<flowVars, gatherVars, contextVars, endVars, ended, saved, mishaps>>

\* Five minutes without speech: once nobody is left to end the call, sooner or later.
Abandoned == disposed /\ \A r \in Reasons : ender[r] \notin Busy

SlipCancelIdle ==
  /\ pipeline = "running" /\ ~ended /\ ~disposed
  /\ Mishap("silence")
  /\ ended' = TRUE
  /\ UNCHANGED <<flowVars, gatherVars, contextVars, endVars, pipeline, finishVars>>

CancelIdle ==
  /\ pipeline = "running" /\ ~ended
  /\ IF Abandoned THEN UNCHANGED mishaps ELSE Mishap("silence")
  /\ ended' = TRUE
  /\ UNCHANGED <<flowVars, gatherVars, contextVars, endVars, pipeline, finishVars>>

-----------------------------------------------------------------------------
(* on_pipeline_finished.                                                    *)

FinishRaises == finish' = "failed" /\ Mishap("db") /\ UNCHANGED saved

ReadRun ==
  /\ finish = "read"
  /\ \/ finish' = "copy" /\ UNCHANGED <<saved, mishaps>>
     \/ FinishRaises
  /\ UNCHANGED <<flowVars, gatherVars, contextVars, endVars, pipeVars>>

CopyContext ==
  /\ finish = "copy" /\ finish' = "save"
  /\ saved' = [nodes |-> gathered, disposition |-> disposition, mapped |-> mapped]
  /\ UNCHANGED <<flowVars, gatherVars, contextVars, endVars, pipeVars, mishaps>>

SaveRun ==
  /\ finish = "save"
  /\ \/ finish' = "done" /\ UNCHANGED <<saved, mishaps>>
     \/ FinishRaises
  /\ UNCHANGED <<flowVars, gatherVars, contextVars, endVars, pipeVars>>

Finish == ReadRun \/ CopyContext \/ SaveRun

-----------------------------------------------------------------------------
Next ==
  \/ \E n \in Nodes : \/ Transition(n) \/ SetUpNode(n) \/ ContextUpdated(n)
                      \/ BackgroundExtraction(n)
  \/ \E r \in Reasons : EndEvent(r) \/ EndCallSteps(r) \/ PendingTimeOut(r)
  \/ EndTool \/ InterruptEnd
  \/ EndPipeline \/ CancelIdle \/ Finish

Spec == Init /\ [][Next]_vars

\* Tasks run on, an extraction answers or raises, heartbeats come until the
\* longest duration is exceeded, and nobody speaks for ever to a call that has
\* been given up.  The model need not move and the caller need not hang up.
Fairness ==
  /\ \A n \in Nodes : WF_vars(BackgroundExtraction(n))
  /\ \A r \in Reasons : WF_vars(EndCallSteps(r))
  /\ WF_vars(EndEvent("duration"))
  /\ WF_vars(EndPipeline) /\ WF_vars(Abandoned /\ CancelIdle) /\ WF_vars(Finish)

FairSpec == Spec /\ Fairness

-----------------------------------------------------------------------------
(* Properties.                                                              *)

\* An error or a voicemail has come first, or something came in between that
\* lets the pipeline end before the context is complete.
CutShort ==
  \/ \E r \in Reasons \cap Abrupt : ender[r] \in Busy \cup {"done"}
  \/ mishaps \cap {"late", "fatal", "silence", "interrupt"} # {}

\* What the caller has said at any node of the call is in the run that is saved,
\* whoever has ended the call and however many extractions were on their way.
NothingExtractedIsLost ==
  finish = "done" /\ ~CutShort /\ mishaps \cap {"raise", "timeout"} = {}
    => visited \cap Extracting \subseteq saved.nodes

\* The run is saved with a disposition and the image of this very disposition,
\* and with a reason in its place only if no node has extracted one.
DispositionIsMapped ==
  finish = "done" /\ ~CutShort
    => /\ saved.disposition # NoValue /\ saved.mapped = saved.disposition
       /\ saved.disposition \in AllReasons \ {"tool"} => saved.nodes \cap Disposing = {}

\* A call is ended and its run saved, although the one who was to end it may be
\* cancelled half-way and everybody after him is turned away.
EveryCallIsSaved == <>(finish = "done" \/ "db" \in mishaps)
=============================================================================
