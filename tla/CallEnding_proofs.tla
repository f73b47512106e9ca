-------------------------- MODULE CallEnding_proofs --------------------------
(***************************************************************************)
(* Theorems about CallEnding for every workflow, every set of those who    *)
(* may end the call, and every bound on mishaps.                           *)
(***************************************************************************)
EXTENDS CallEnding, TLAPS

USE DEF flowVars, gatherVars, contextVars, endVars, pipeVars, finishVars

\* Those whose call of end_call_with_reason was the first.
Passed(r) == ender[r] \in Busy \cup {"done", "cancelled"}

\* There is one of them at most: the flag is tested and set without an await in between.
EndedOnce ==
  /\ \A r \in Reasons : Passed(r) => disposed
  /\ \A r, q \in Reasons : Passed(r) /\ Passed(q) => r = q

FinalKnown == \A r \in Reasons : ender[r] = "extract" => final \in Extracting

LEMMA TypeInit == Init => TypeOK
<1> SUFFICES ASSUME Init PROVE TypeOK
  OBVIOUS
<1>1. /\ moves \in [Nodes -> {"none", "setup", "result", "done"}]
      /\ ender \in [Reasons -> {"none", "called", "ignored", "done", "cancelled"} \cup Busy]
  BY DEF Init
<1>2. saved \in [nodes : SUBSET Extracting, disposition : Dispositions, mapped : Dispositions]
  BY DEF Init, Dispositions
<1>3. QED
  BY <1>1, <1>2, NodeAssumption DEF Init, TypeOK, Dispositions

\* Whoever ends the call takes a step of his own.
LEMMA EnderTypes ==
  ASSUME TypeOK, NEW r \in Reasons, NEW s \in {"called", "ignored", "done", "cancelled"} \cup Busy,
         ender' = [ender EXCEPT ![r] = s]
  PROVE  /\ ender' \in [Reasons -> {"none", "called", "ignored", "done", "cancelled"} \cup Busy]
         /\ ender'[r] = s /\ \A q \in Reasons \ {r} : ender'[q] = ender[q]
  BY DEF TypeOK

LEMMA LastTypes ==
  ASSUME TypeOK, NEW r \in Reasons, disposition' \in Dispositions, LastExtraction(r)
  PROVE  /\ ender' \in [Reasons -> {"none", "called", "ignored", "done", "cancelled"} \cup Busy]
         /\ final' \in Nodes \cup {NoValue} /\ read' \in Dispositions
  BY EnderTypes DEF LastExtraction, Map, TypeOK, Busy

LEMMA TypeStep ==
  ASSUME TypeOK, FinalKnown, [Next]_vars
  PROVE  TypeOK'
<1> USE NodeAssumption, ReasonAssumption DEF TypeOK
<1>1. ASSUME NEW n \in Nodes, Transition(n) PROVE TypeOK'
  BY <1>1 DEF Transition, InTime, Mishap
<1>2. ASSUME NEW n \in Nodes, SetUpNode(n) PROVE TypeOK'
  BY <1>2 DEF SetUpNode, Mishap
<1>3. ASSUME NEW n \in Nodes, ContextUpdated(n) PROVE TypeOK'
  <2>1. ender' \in [Reasons -> {"none", "called", "ignored", "done", "cancelled"} \cup Busy]
    BY <1>3, EnderTypes DEF ContextUpdated
  <2>2. QED
    BY <1>3, <2>1 DEF ContextUpdated
<1>4. ASSUME NEW n \in Nodes, BackgroundExtraction(n) PROVE TypeOK'
  BY <1>4 DEF BackgroundExtraction, Gathers, ExtractionRaises, Mishap, Dispositions
<1>5. ASSUME NEW r \in Reasons, EndEvent(r) PROVE TypeOK'
  <2>1. ender' \in [Reasons -> {"none", "called", "ignored", "done", "cancelled"} \cup Busy]
    BY <1>5, EnderTypes DEF EndEvent, Called
  <2>2. QED
    BY <1>5, <2>1 DEF EndEvent, Mishap
<1>6. ASSUME NEW r \in Reasons, EndCall(r) PROVE TypeOK'
  <2>1. disposition' \in Dispositions
    BY <1>6 DEF EndCall
  <2>2. CASE disposed
    BY <1>6, <2>2, EnderTypes DEF EndCall
  <2>3. CASE ~disposed /\ r \in Abrupt
    <3>1. ender' \in [Reasons -> {"none", "called", "ignored", "done", "cancelled"} \cup Busy]
      BY <1>6, <2>3, EnderTypes DEF EndCall, Map, Busy
    <3>2. QED
      BY <1>6, <2>3, <3>1 DEF EndCall, Map
  <2>4. CASE ~disposed /\ r \notin Abrupt /\ pending # {}
    <3>1. ender' \in [Reasons -> {"none", "called", "ignored", "done", "cancelled"} \cup Busy]
      BY <1>6, <2>4, EnderTypes DEF EndCall, Wait, Busy
    <3>2. QED
      BY <1>6, <2>4, <3>1 DEF EndCall, Wait
  <2>5. CASE ~disposed /\ r \notin Abrupt /\ pending = {}
    <3>1. LastExtraction(r) /\ UNCHANGED awaited
      BY <1>6, <2>5 DEF EndCall, Wait
    <3>2. QED
      BY <1>6, <2>1, <2>5, <3>1, LastTypes DEF EndCall
  <2>6. QED
    BY <2>2, <2>3, <2>4, <2>5
<1>7. ASSUME NEW r \in Reasons, PendingDone(r) \/ PendingTimeOut(r) PROVE TypeOK'
  BY <1>7, LastTypes DEF PendingDone, PendingTimeOut, Mishap
<1>8. ASSUME NEW r \in Reasons, FinalExtraction(r) PROVE TypeOK'
  <2>1. ender' \in [Reasons -> {"none", "called", "ignored", "done", "cancelled"} \cup Busy]
    BY <1>8, EnderTypes DEF FinalExtraction, Map, Busy
  <2>2. final \in Extracting
    BY <1>8 DEF FinalExtraction, FinalKnown
  <2>3. QED
    BY <1>8, <2>1, <2>2 DEF FinalExtraction, Map, Gathers, ExtractionRaises, Mishap, Dispositions
<1>9. ASSUME NEW r \in Reasons, QueueEnd(r) PROVE TypeOK'
  <2>1. ender' \in [Reasons -> {"none", "called", "ignored", "done", "cancelled"} \cup Busy]
    BY <1>9, EnderTypes DEF QueueEnd
  <2>2. r \in Dispositions
    BY DEF Dispositions
  <2>3. QED
    BY <1>9, <2>1, <2>2 DEF QueueEnd
<1>10. CASE EndTool
  <2>1. ender' \in [Reasons -> {"none", "called", "ignored", "done", "cancelled"} \cup Busy]
    BY <1>10, EnderTypes DEF EndTool, Called
  <2>2. QED
    BY <1>10, <2>1 DEF EndTool, InTime, Mishap, Dispositions, AllReasons
<1>11. CASE InterruptEnd
  <2>1. ender' \in [Reasons -> {"none", "called", "ignored", "done", "cancelled"} \cup Busy]
    BY <1>11, EnderTypes DEF InterruptEnd
  <2>2. QED
    BY <1>11, <2>1 DEF InterruptEnd, Mishap
<1>12. CASE EndPipeline \/ CancelIdle
  BY <1>12 DEF EndPipeline, CancelIdle, Mishap
<1>13. CASE Finish
  <2>1. CASE CopyContext
    BY <2>1 DEF CopyContext
  <2>2. CASE ReadRun \/ SaveRun
    BY <2>2 DEF ReadRun, SaveRun, FinishRaises, Mishap
  <2>3. QED
    BY <1>13, <2>1, <2>2 DEF Finish
<1>14. CASE UNCHANGED vars
  BY <1>14 DEF vars
<1>15. QED
  BY <1>1, <1>2, <1>3, <1>4, <1>5, <1>6, <1>7, <1>8, <1>9, <1>10, <1>11, <1>12, <1>13, <1>14
     DEF Next, EndCallSteps

\* A step that leaves those who have passed where they are keeps them alone.
LEMMA OthersStay ==
  ASSUME EndedOnce, FinalKnown, disposed => disposed', final' = final,
         \A r \in Reasons : (Passed(r))' => ender'[r] = ender[r]
  PROVE  EndedOnce' /\ FinalKnown'
  BY DEF EndedOnce, FinalKnown, Passed, Busy

\* One that goes on stays the only one.
LEMMA OneGoesOn ==
  ASSUME EndedOnce, FinalKnown, NEW r \in Reasons, disposed',
         Passed(r) \/ ~disposed,
         ender'[r] = "extract" => final' \in Extracting,
         \A q \in Reasons \ {r} : ender'[q] = ender[q]
  PROVE  EndedOnce' /\ FinalKnown'
<1>1. \A q \in Reasons \ {r} : ~(Passed(q))'
  BY DEF EndedOnce, Passed
<1>2. QED
  BY <1>1 DEF EndedOnce, FinalKnown, Passed, Busy

LEMMA OnceStep ==
  ASSUME TypeOK, EndedOnce, FinalKnown, [Next]_vars
  PROVE  EndedOnce' /\ FinalKnown'
<1> DEFINE Goal == EndedOnce' /\ FinalKnown'
<1>1. ASSUME NEW n \in Nodes, Transition(n) \/ SetUpNode(n) \/ BackgroundExtraction(n) PROVE Goal
  BY <1>1, OthersStay DEF Transition, SetUpNode, BackgroundExtraction
<1>2. ASSUME NEW n \in Nodes, ContextUpdated(n) PROVE Goal
  BY <1>2, EnderTypes, OthersStay DEF ContextUpdated, Passed, Busy
<1>3. ASSUME NEW r \in Reasons, EndEvent(r) PROVE Goal
  BY <1>3, EnderTypes, OthersStay DEF EndEvent, Called, Passed, Busy
<1>4. ASSUME NEW r \in Reasons, EndCall(r) PROVE Goal
  <2>1. CASE disposed
    BY <1>4, <2>1, EnderTypes, OthersStay DEF EndCall, Passed, Busy
  <2>2. CASE ~disposed
    <3>1. ender'[r] = "extract" => final' \in Extracting
      BY <1>4, <2>2, EnderTypes DEF EndCall, Wait, LastExtraction, Map, Busy
    <3>2. \A q \in Reasons \ {r} : ender'[q] = ender[q]
      BY <1>4, <2>2, EnderTypes DEF EndCall, Wait, LastExtraction, Map, Busy
    <3>3. QED
      BY <1>4, <2>2, <3>1, <3>2, OneGoesOn DEF EndCall
  <2>3. QED
    BY <2>1, <2>2
<1>5. ASSUME NEW r \in Reasons, PendingDone(r) \/ PendingTimeOut(r) PROVE Goal
  <2>1. Passed(r) /\ disposed
    BY <1>5 DEF PendingDone, PendingTimeOut, Passed, Busy, EndedOnce
  <2>2. /\ ender'[r] = "extract" => final' \in Extracting
        /\ \A q \in Reasons \ {r} : ender'[q] = ender[q]
    BY <1>5, EnderTypes DEF PendingDone, PendingTimeOut, LastExtraction, Map, Busy
  <2>3. QED
    BY <1>5, <2>1, <2>2, OneGoesOn DEF PendingDone, PendingTimeOut
<1>6. ASSUME NEW r \in Reasons, FinalExtraction(r) \/ QueueEnd(r) PROVE Goal
  <2>1. Passed(r) /\ disposed
    BY <1>6 DEF FinalExtraction, QueueEnd, Passed, Busy, EndedOnce
  <2>2. ender'[r] \in {"map", "done"} /\ \A q \in Reasons \ {r} : ender'[q] = ender[q]
    BY <1>6, EnderTypes DEF FinalExtraction, QueueEnd, Map, Busy
  <2>3. QED
    BY <1>6, <2>1, <2>2, OneGoesOn DEF FinalExtraction, QueueEnd
<1>7. CASE EndTool
  BY <1>7, EnderTypes, OthersStay DEF EndTool, Called, Passed, Busy
<1>8. CASE InterruptEnd
  <2>1. "duration" \in Reasons /\ Passed("duration") /\ disposed
    BY <1>8 DEF InterruptEnd, Passed, EndedOnce
  <2>2. ender'["duration"] = "cancelled" /\ \A q \in Reasons \ {"duration"} : ender'[q] = ender[q]
    BY <1>8, EnderTypes DEF InterruptEnd
  <2>3. QED
    BY <1>8, <2>1, <2>2, OneGoesOn DEF InterruptEnd
<1>9. CASE EndPipeline \/ CancelIdle \/ Finish \/ UNCHANGED vars
  BY <1>9, OthersStay DEF EndPipeline, CancelIdle, Finish, ReadRun, CopyContext, SaveRun, vars
<1>10. QED
  BY <1>1, <1>2, <1>3, <1>4, <1>5, <1>6, <1>7, <1>8, <1>9 DEF Next, EndCallSteps

\* Who has ended the call has queued the frame, is about to, or was interrupted.
Accounted ==
  /\ \A r \in Reasons : /\ ender[r] = "done" => ended
                        /\ ender[r] = "cancelled" => "interrupt" \in mishaps
  /\ disposed => \E r \in Reasons : Passed(r)

LEMMA Grows == ASSUME [Next]_vars PROVE mishaps \subseteq mishaps' /\ (ended => ended')
  BY DEF Next, vars, Transition, InTime, SetUpNode, ContextUpdated, BackgroundExtraction,
     ExtractionRaises, EndEvent, EndCallSteps, EndCall, PendingDone, PendingTimeOut,
     FinalExtraction, QueueEnd, EndTool, InterruptEnd, EndPipeline, CancelIdle, Finish, ReadRun,
     CopyContext, SaveRun, FinishRaises, Mishap

LEMMA AccountedStep ==
  ASSUME TypeOK, Accounted, [Next]_vars
  PROVE  Accounted'
<1>0. mishaps \subseteq mishaps' /\ (ended => ended')
  BY Grows
<1>1. ASSUME NEW n \in Nodes, ContextUpdated(n) PROVE Accounted'
  BY <1>0, <1>1, EnderTypes DEF ContextUpdated, Accounted, Passed, Busy
<1>2. ASSUME NEW r \in Reasons, EndEvent(r) PROVE Accounted'
  BY <1>0, <1>2, EnderTypes DEF EndEvent, Called, Accounted, Passed, Busy
<1>3. ASSUME NEW r \in Reasons, EndCall(r) \/ PendingDone(r) \/ PendingTimeOut(r) PROVE Accounted'
  <2>1. ender[r] \in {"called", "wait"} /\ \A q \in Reasons \ {r} : ender'[q] = ender[q]
    BY <1>3, EnderTypes DEF EndCall, PendingDone, PendingTimeOut, Wait, LastExtraction, Map, Busy
  <2>2. \/ ender'[r] \in Busy
        \/ ender[r] = "called" /\ ender'[r] = "ignored" /\ UNCHANGED disposed
    BY <1>3, EnderTypes DEF EndCall, PendingDone, PendingTimeOut, Wait, LastExtraction, Map, Busy
  <2>3. QED
    BY <1>0, <2>1, <2>2 DEF Accounted, Passed, Busy
<1>4. ASSUME NEW r \in Reasons, FinalExtraction(r) \/ QueueEnd(r) PROVE Accounted'
  BY <1>0, <1>4, EnderTypes DEF FinalExtraction, QueueEnd, Map, Accounted, Passed, Busy
<1>5. CASE EndTool
  BY <1>0, <1>5, EnderTypes DEF EndTool, Called, Accounted, Passed, Busy
<1>6. CASE InterruptEnd
  BY <1>0, <1>6, EnderTypes DEF InterruptEnd, Mishap, Accounted, Passed, Busy
<1>7. CASE UNCHANGED <<ender, disposed>>
  BY <1>0, <1>7 DEF Accounted, Passed
<1>8. QED
  BY <1>1, <1>2, <1>3, <1>4, <1>5, <1>6, <1>7
     DEF Next, EndCallSteps, Transition, SetUpNode, BackgroundExtraction, EndPipeline, CancelIdle,
         Finish, ReadRun, CopyContext, SaveRun, vars

Sound == TypeOK /\ EndedOnce /\ FinalKnown /\ Accounted

LEMMA SoundAlways == Spec => []Sound
<1>1. Init => Sound
  BY TypeInit DEF Init, Sound, EndedOnce, FinalKnown, Accounted, Passed, Busy
<1>2. Sound /\ [Next]_vars => Sound'
  BY TypeStep, OnceStep, AccountedStep DEF Sound
<1>3. QED
  BY <1>1, <1>2, PTL DEF Spec

\* Every variable keeps its type.
THEOREM TypeCorrect == Spec => []TypeOK
  BY SoundAlways, PTL DEF Sound

\* A call that has been marked as ended and whose pipeline runs on has somebody still
\* at work on its end, of whatever reason, unless that one was cancelled half-way:
\* the flag turns everybody else away, and no extraction that raises or times out
\* stops the one who has set it.  It is the safety half of EveryCallIsSaved.
EndHasOwner ==
  disposed /\ ~ended => \/ \E r \in Reasons : ender[r] \in Busy
                       \/ "interrupt" \in mishaps

THEOREM EndsHaveOwners == Spec => []EndHasOwner
<1>1. Sound => EndHasOwner
  BY DEF Sound, Accounted, Passed, EndHasOwner
<1>2. QED
  BY <1>1, SoundAlways, PTL

-----------------------------------------------------------------------------
(* What has been said and what has been gathered of it, from await to await.*)

Whole == ~CutShort /\ mishaps \cap {"raise", "timeout"} = {}
Said == visited \cap Extracting

NodesKept ==
  Whole =>
    /\ ~disposed => Said \subseteq gathered \cup pending \cup {current}
    /\ \A r \in Reasons :
         /\ ender[r] = "wait" => Said \subseteq gathered \cup pending \cup {current}
         /\ ender[r] = "extract" => Said \subseteq gathered \cup {final}
         /\ ender[r] \in {"map", "done"} => Said \subseteq gathered
    /\ finish \in {"save", "done"} => Said \subseteq saved.nodes

DispositionKept ==
  ~CutShort =>
    /\ \A r \in Reasons :
         /\ ender[r] = "wait" => pending \subseteq awaited
         /\ ender[r] = "extract" => pending = {}
         /\ ender[r] = "map" => pending = {} /\ read = disposition
         /\ ender[r] = "done" => pending = {} /\ disposition # NoValue /\ mapped = disposition
    /\ disposition \in (AllReasons \ {"tool"}) \cup {NoValue} => gathered \cap Disposing = {}
    /\ finish \in {"save", "done"} =>
         /\ saved.disposition # NoValue /\ saved.mapped = saved.disposition
         /\ saved.disposition \in AllReasons \ {"tool"} => saved.nodes \cap Disposing = {}

EndKept ==
  /\ ended /\ ~CutShort => \E r \in Reasons : ender[r] = "done"
  /\ pipeline = "over" => ended
  /\ finish # "none" => pipeline = "over"

Kept == NodesKept /\ DispositionKept /\ EndKept

LEMMA KeptInit == Init => Kept
  BY DEF Init, Kept, NodesKept, DispositionKept, EndKept, Said, Busy

\* A call that is cut short stays so, and what has gone wrong is not forgotten.
LEMMA CutStays ==
  ASSUME Sound, [Next]_vars
  PROVE  (CutShort => CutShort') /\ (Whole' => Whole)
<1>1. mishaps \subseteq mishaps'
  BY Grows
<1>2. ASSUME NEW r \in Reasons \cap Abrupt, ender[r] \in Busy \cup {"done"}
      PROVE  ender'[r] \in Busy \cup {"done"}
  <2> DEFINE Goal == ender'[r] \in Busy \cup {"done"}
  <2>1. ASSUME NEW n \in Nodes, ContextUpdated(n) PROVE Goal
    BY <1>2, <2>1, EnderTypes DEF ContextUpdated, Sound, Busy
  <2>2. ASSUME NEW q \in Reasons, EndEvent(q) PROVE Goal
    BY <1>2, <2>2, EnderTypes DEF EndEvent, Called, Sound, Busy
  <2>3. ASSUME NEW q \in Reasons, EndCall(q) PROVE Goal
    BY <1>2, <2>3, EnderTypes DEF EndCall, Map, Wait, LastExtraction, Sound, Busy
  <2>4. ASSUME NEW q \in Reasons, PendingDone(q) \/ PendingTimeOut(q) PROVE Goal
    BY <1>2, <2>4, EnderTypes DEF PendingDone, PendingTimeOut, LastExtraction, Map, Sound, Busy
  <2>5. ASSUME NEW q \in Reasons, FinalExtraction(q) \/ QueueEnd(q) PROVE Goal
    BY <1>2, <2>5, EnderTypes DEF FinalExtraction, QueueEnd, Map, Sound, Busy
  <2>6. CASE EndTool \/ InterruptEnd
    BY <1>2, <2>6, EnderTypes DEF EndTool, Called, InterruptEnd, Abrupt, Sound, Busy
  <2>7. CASE UNCHANGED ender
    BY <1>2, <2>7
  <2>8. QED
    BY <2>1, <2>2, <2>3, <2>4, <2>5, <2>6, <2>7
       DEF Next, EndCallSteps, Transition, SetUpNode, BackgroundExtraction, EndPipeline,
           CancelIdle, Finish, ReadRun, CopyContext, SaveRun, vars
<1>3. QED
  BY <1>1, <1>2 DEF CutShort, Whole

\* A step that moves nobody on who ends the call, and touches no context.
LEMMA NobodyMoves ==
  ASSUME Kept, CutShort => CutShort', Whole' => Whole,
         UNCHANGED <<current, visited, gatherVars, contextVars, awaited, final, read, disposed,
                     pipeline, finishVars>>,
         ended' => ended \/ CutShort',
         \A r \in Reasons : ender'[r] \in Busy \cup {"done"} => ender'[r] = ender[r],
         \A r \in Reasons : ender[r] = "done" => ender'[r] = "done",
         ended => ended'
  PROVE  Kept'
<1>1. NodesKept'
  BY DEF Kept, NodesKept, Said, Busy
<1>2. DispositionKept'
  BY DEF Kept, DispositionKept, Busy
<1>3. EndKept'
  BY DEF Kept, EndKept
<1>4. QED
  BY <1>1, <1>2, <1>3 DEF Kept

LEMMA MoveKeeps ==
  ASSUME Sound, Kept, NEW n \in Nodes, Transition(n), CutShort => CutShort', Whole' => Whole
  PROVE  Kept'
<1>1. finish = "none"
  BY DEF Sound, TypeOK, Kept, EndKept, Transition
<1>2. CASE disposed
  <2>1. CutShort'
    BY <1>2 DEF Transition, InTime, Mishap, CutShort
  <2>2. QED
    BY <1>1, <2>1 DEF Transition, Kept, NodesKept, DispositionKept, EndKept, Whole
<1>3. CASE ~disposed
  <2>1. \A r \in Reasons : ender'[r] \notin Busy \cup {"done"}
    BY <1>3 DEF Transition, Sound, EndedOnce, Passed
  <2>2. NodesKept'
    BY <1>1, <1>3, <2>1 DEF Transition, Kept, NodesKept, Said, Busy
  <2>3. DispositionKept' /\ EndKept'
    BY <1>1, <2>1 DEF Transition, Kept, DispositionKept, EndKept, Busy
  <2>4. QED
    BY <2>2, <2>3 DEF Kept
<1>4. QED
  BY <1>2, <1>3

LEMMA BackgroundKeeps ==
  ASSUME Sound, Kept, NEW n \in Nodes, BackgroundExtraction(n), CutShort => CutShort',
         Whole' => Whole
  PROVE  Kept'
<1>1. NodesKept'
  <2>1. CASE Gathers(n)
    BY <2>1 DEF BackgroundExtraction, Gathers, Kept, NodesKept, Said
  <2>2. CASE ExtractionRaises
    BY <2>2 DEF ExtractionRaises, Mishap, NodesKept, Whole
  <2>3. QED
    BY <2>1, <2>2 DEF BackgroundExtraction
<1>2. DispositionKept'
  <2> SUFFICES ASSUME ~CutShort' PROVE DispositionKept'
    BY DEF DispositionKept
  <2>1. \A r \in Reasons : /\ ender'[r] = "wait" => pending' \subseteq awaited'
                          /\ ender'[r] \notin {"extract", "map", "done"}
    BY DEF BackgroundExtraction, Kept, DispositionKept
  <2>2. disposition' \in (AllReasons \ {"tool"}) \cup {NoValue} => gathered' \cap Disposing = {}
    BY NodeAssumption DEF BackgroundExtraction, Gathers, ExtractionRaises, Kept, DispositionKept
  <2>3. QED
    BY <2>1, <2>2 DEF BackgroundExtraction, Kept, DispositionKept
<1>3. EndKept'
  BY DEF BackgroundExtraction, Kept, EndKept
<1>4. QED
  BY <1>1, <1>2, <1>3 DEF Kept

\* The first to end the call finds nobody else.
LEMMA EndCallKeeps ==
  ASSUME Sound, Kept, NEW r \in Reasons, EndCall(r), CutShort => CutShort', Whole' => Whole
  PROVE  Kept'
<1>1. ASSUME disposed PROVE Kept'
  <2>1. /\ \A q \in Reasons : ender'[q] \in Busy \cup {"done"} => ender'[q] = ender[q]
        /\ \A q \in Reasons : ender[q] = "done" => ender'[q] = "done"
    BY <1>1, EnderTypes DEF EndCall, Sound, Busy
  <2>2. QED
    BY <1>1, <2>1, NobodyMoves DEF EndCall
<1>2. ASSUME ~disposed, r \in Abrupt PROVE Kept'
  <2>1. CutShort'
    BY <1>2, EnderTypes DEF EndCall, Map, CutShort, Sound, Busy
  <2>2. QED
    BY <2>1 DEF EndCall, Kept, NodesKept, DispositionKept, EndKept, Whole
<1>3. ASSUME ~disposed, r \notin Abrupt PROVE Kept'
  <2>1. /\ ender'[r] \in Busy
        /\ \A q \in Reasons \ {r} : ender'[q] = ender[q] /\ ender[q] \notin Busy \cup {"done"}
    BY <1>3, EnderTypes DEF EndCall, Wait, LastExtraction, Map, Sound, EndedOnce, Passed, Busy
  <2>2. \/ ender'[r] = "wait" /\ awaited' = pending
        \/ ender'[r] = "extract" /\ final' = current /\ pending = {}
        \/ ender'[r] = "map" /\ read' = disposition' /\ pending = {} /\ current \notin Extracting
    BY <1>3, EnderTypes DEF EndCall, Wait, LastExtraction, Map, Sound, Busy
  <2>3. NodesKept'
    BY <1>3, <2>1, <2>2 DEF EndCall, Kept, NodesKept, Said, Busy
  <2>4. DispositionKept'
    BY <1>3, <2>1, <2>2 DEF EndCall, Kept, DispositionKept, Busy
  <2>5. EndKept'
    <3>1. ended' => CutShort'
      BY <1>3 DEF EndCall, Kept, EndKept, Sound, EndedOnce, Passed
    <3>2. QED
      BY <3>1 DEF EndCall, Kept, EndKept
  <2>6. QED
    BY <2>3, <2>4, <2>5 DEF Kept
<1>4. QED
  BY <1>1, <1>2, <1>3

\* The awaited extractions are through, or cancelled.
LEMMA WaitKeeps ==
  ASSUME Sound, Kept, NEW r \in Reasons, PendingDone(r) \/ PendingTimeOut(r),
         CutShort => CutShort', Whole' => Whole
  PROVE  Kept'
<1>1. /\ ender'[r] \in Busy /\ ender[r] = "wait"
      /\ \A q \in Reasons \ {r} : ender'[q] = ender[q] /\ ender[q] \notin Busy \cup {"done"}
  BY EnderTypes DEF PendingDone, PendingTimeOut, LastExtraction, Map, Sound, EndedOnce, Passed, Busy
<1>2. \/ ender'[r] = "extract" /\ final' = current
      \/ ender'[r] = "map" /\ read' = disposition' /\ current \notin Extracting
  BY EnderTypes DEF PendingDone, PendingTimeOut, LastExtraction, Map, Sound, Busy
<1>3. ~CutShort' => pending' = {}
  BY <1>1 DEF PendingDone, PendingTimeOut, Kept, DispositionKept
<1>4. Whole' => pending = {}
  BY <1>3 DEF PendingDone, PendingTimeOut, Mishap, Whole
<1>5. NodesKept'
  BY <1>1, <1>2, <1>4 DEF PendingDone, PendingTimeOut, Kept, NodesKept, Said, Busy
<1>6. DispositionKept'
  BY <1>1, <1>2, <1>3 DEF PendingDone, PendingTimeOut, Kept, DispositionKept, Busy
<1>7. EndKept'
  <2>1. ended => CutShort
    BY <1>1 DEF Kept, EndKept, Busy
  <2>2. QED
    BY <2>1 DEF PendingDone, PendingTimeOut, Kept, EndKept
<1>8. QED
  BY <1>5, <1>6, <1>7 DEF Kept

LEMMA FinalKeeps ==
  ASSUME Sound, Kept, NEW r \in Reasons, FinalExtraction(r), CutShort => CutShort', Whole' => Whole
  PROVE  Kept'
<1>1. /\ ender[r] = "extract" /\ ender'[r] = "map" /\ read' = disposition'
      /\ \A q \in Reasons \ {r} : ender'[q] = ender[q] /\ ender[q] \notin Busy \cup {"done"}
  BY EnderTypes DEF FinalExtraction, Map, Sound, EndedOnce, Passed, Busy
<1>2. NodesKept'
  <2>1. CASE Gathers(final)
    BY <1>1, <2>1 DEF FinalExtraction, Gathers, Kept, NodesKept, Said, Busy
  <2>2. CASE ExtractionRaises
    BY <2>2 DEF ExtractionRaises, Mishap, NodesKept, Whole
  <2>3. QED
    BY <2>1, <2>2 DEF FinalExtraction
<1>3. DispositionKept'
  <2> SUFFICES ASSUME ~CutShort' PROVE DispositionKept'
    BY DEF DispositionKept
  <2>1. pending' = {}
    BY <1>1 DEF FinalExtraction, Kept, DispositionKept
  <2>2. final \in Nodes
    BY <1>1, NodeAssumption DEF Sound, FinalKnown
  <2>3. disposition' \in (AllReasons \ {"tool"}) \cup {NoValue} => gathered' \cap Disposing = {}
    BY <2>2, NodeAssumption DEF FinalExtraction, Gathers, ExtractionRaises, Kept, DispositionKept
  <2>4. QED
    BY <1>1, <2>1, <2>3 DEF FinalExtraction, Kept, DispositionKept, Busy
<1>4. EndKept'
  <2>1. ended => CutShort
    BY <1>1 DEF Kept, EndKept
  <2>2. QED
    BY <2>1 DEF FinalExtraction, Kept, EndKept
<1>5. QED
  BY <1>2, <1>3, <1>4 DEF Kept

LEMMA QueueKeeps ==
  ASSUME Sound, Kept, NEW r \in Reasons, QueueEnd(r), CutShort => CutShort', Whole' => Whole
  PROVE  Kept'
<1>1. /\ ender[r] = "map" /\ ender'[r] = "done"
      /\ \A q \in Reasons \ {r} : ender'[q] = ender[q] /\ ender[q] \notin Busy \cup {"done"}
  BY EnderTypes DEF QueueEnd, Sound, EndedOnce, Passed, Busy
<1>2. NodesKept'
  BY <1>1 DEF QueueEnd, Kept, NodesKept, Said, Busy
<1>3. DispositionKept'
  <2> SUFFICES ASSUME ~CutShort' PROVE DispositionKept'
    BY DEF DispositionKept
  <2>1. pending' = {} /\ read = disposition
    BY <1>1 DEF QueueEnd, Kept, DispositionKept
  <2>2. r # NoValue
    BY NodeAssumption, ReasonAssumption
  <2>3. disposition' # NoValue /\ mapped' = disposition'
    BY <2>2 DEF QueueEnd
  <2>4. disposition' \in (AllReasons \ {"tool"}) \cup {NoValue} => gathered' \cap Disposing = {}
    BY <2>1 DEF QueueEnd, Kept, DispositionKept
  <2>5. QED
    BY <1>1, <2>1, <2>3, <2>4 DEF QueueEnd, Kept, DispositionKept, Busy
<1>4. EndKept'
  BY <1>1 DEF QueueEnd, Kept, EndKept
<1>5. QED
  BY <1>2, <1>3, <1>4 DEF Kept

LEMMA FinishKeeps ==
  ASSUME Sound, Kept, Finish, CutShort => CutShort', Whole' => Whole
  PROVE  Kept'
<1>1. CASE CopyContext
  <2>1. pipeline = "over" /\ ended
    BY <1>1 DEF CopyContext, Kept, EndKept
  <2>2. ~CutShort => \E r \in Reasons : ender[r] = "done"
    BY <2>1 DEF Kept, EndKept
  <2>3. NodesKept'
    BY <1>1, <2>2 DEF CopyContext, Kept, NodesKept, Whole, Said
  <2>4. DispositionKept'
    BY <1>1, <2>2 DEF CopyContext, Kept, DispositionKept
  <2>5. EndKept'
    BY <1>1 DEF CopyContext, Kept, EndKept
  <2>6. QED
    BY <2>3, <2>4, <2>5 DEF Kept
<1>2. CASE ReadRun \/ SaveRun
  <2>1. finish' \in {"save", "done"} => finish = "save"
    BY <1>2 DEF ReadRun, SaveRun, FinishRaises
  <2>2. finish # "none" /\ UNCHANGED <<saved, flowVars, gatherVars, contextVars, endVars, pipeVars>>
    BY <1>2 DEF ReadRun, SaveRun, FinishRaises
  <2>3. QED
    BY <2>1, <2>2 DEF Kept, NodesKept, DispositionKept, EndKept, Said
<1>3. QED
  BY <1>1, <1>2 DEF Finish

LEMMA KeptStep ==
  ASSUME Sound, Kept, [Next]_vars
  PROVE  Kept'
<1>0. (CutShort => CutShort') /\ (Whole' => Whole)
  BY CutStays
<1>1. ASSUME NEW n \in Nodes, Transition(n) \/ BackgroundExtraction(n) PROVE Kept'
  BY <1>0, <1>1, MoveKeeps, BackgroundKeeps
<1>2. ASSUME NEW n \in Nodes, SetUpNode(n) PROVE Kept'
  BY <1>0, <1>2, NobodyMoves DEF SetUpNode
<1>3. ASSUME NEW n \in Nodes, ContextUpdated(n) PROVE Kept'
  BY <1>0, <1>3, EnderTypes, NobodyMoves DEF ContextUpdated, Sound, Busy
<1>4. ASSUME NEW r \in Reasons, EndEvent(r) PROVE Kept'
  <2>1. ended' => ended \/ CutShort'
    BY <1>4 DEF EndEvent, Mishap, CutShort
  <2>2. QED
    BY <1>0, <1>4, <2>1, EnderTypes, NobodyMoves DEF EndEvent, Called, Sound, Busy
<1>5. ASSUME NEW r \in Reasons, EndCallSteps(r) \/ PendingTimeOut(r) PROVE Kept'
  BY <1>0, <1>5, EndCallKeeps, WaitKeeps, FinalKeeps, QueueKeeps DEF EndCallSteps
<1>6. CASE EndTool
  <2>1. /\ \A q \in Reasons : ender'[q] \in Busy \cup {"done"} => ender'[q] = ender[q]
        /\ \A q \in Reasons : ender[q] = "done" => ender'[q] = "done"
    BY <1>6, EnderTypes DEF EndTool, Called, Sound, Busy
  <2>2. CASE disposed
    <3>1. CutShort'
      BY <1>6, <2>2 DEF EndTool, InTime, Mishap, CutShort
    <3>2. QED
      BY <1>6, <3>1 DEF EndTool, Kept, NodesKept, DispositionKept, EndKept, Whole
  <2>3. CASE ~disposed
    <3>1. \A q \in Reasons : ender'[q] \notin Busy \cup {"done"}
      BY <2>1, <2>3 DEF Sound, EndedOnce, Passed
    <3>2. NodesKept' /\ EndKept'
      BY <1>0, <1>6, <2>1, <3>1 DEF EndTool, Kept, NodesKept, EndKept, Said, Busy
    <3>3. DispositionKept'
      BY <1>0, <1>6, <3>1, NodeAssumption DEF EndTool, Kept, DispositionKept, Busy, AllReasons
    <3>4. QED
      BY <3>2, <3>3 DEF Kept
  <2>4. QED
    BY <2>2, <2>3
<1>7. CASE InterruptEnd
  <2>1. CutShort'
    BY <1>7 DEF InterruptEnd, Mishap, CutShort
  <2>2. QED
    BY <1>7, <2>1 DEF InterruptEnd, Kept, NodesKept, DispositionKept, EndKept, Whole
<1>8. CASE EndPipeline
  BY <1>0, <1>8 DEF EndPipeline, Kept, NodesKept, DispositionKept, EndKept, Said
<1>9. CASE CancelIdle
  <2>1. CutShort'
    BY <1>9 DEF CancelIdle, Abandoned, Mishap, Sound, Accounted, Passed, CutShort
  <2>2. QED
    BY <1>9, <2>1 DEF CancelIdle, Kept, NodesKept, DispositionKept, EndKept, Whole
<1>10. CASE Finish
  BY <1>0, <1>10, FinishKeeps
<1>11. CASE UNCHANGED vars
  BY <1>0, <1>11, NobodyMoves DEF vars
<1>12. QED
  BY <1>1, <1>2, <1>3, <1>4, <1>5, <1>6, <1>7, <1>8, <1>9, <1>10, <1>11 DEF Next

\* Of all who may end a call, at most one gets past the flag, and it is the one who
\* has set it.
THEOREM OneEnds == Spec => []EndedOnce
  BY SoundAlways, PTL DEF Sound

LEMMA KeptAlways == Spec => [](Sound /\ Kept)
  BY SoundAlways, KeptInit, KeptStep, PTL DEF Spec

\* What was said at the nodes of a call is in the run, whoever ends the call.
THEOREM NothingIsLost == Spec => []NothingExtractedIsLost
<1>1. Kept => NothingExtractedIsLost
  BY DEF Kept, NodesKept, NothingExtractedIsLost, Whole, Said
<1>2. QED
  BY <1>1, KeptAlways, PTL

\* The disposition of a run and its image are of one another.
THEOREM DispositionAndImage == Spec => []DispositionIsMapped
<1>1. Kept => DispositionIsMapped
  BY DEF Kept, DispositionKept, DispositionIsMapped
<1>2. QED
  BY <1>1, KeptAlways, PTL
=============================================================================
