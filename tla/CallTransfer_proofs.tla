------------------------- MODULE CallTransfer_proofs -------------------------
(***************************************************************************)
(* Theorems about CallTransfer for every set of attempts, every set of     *)
(* faults and every bound on them: the types, that the media channel of a  *)
(* transferred call does not take the call with it, that nothing is left   *)
(* of a call whose caller has gone, and that no caller is left alone.      *)
(***************************************************************************)
EXTENDS CallTransfer, TLAPS

USE DEF channels, runVars, endVars, pipeVars, toolVars, redisVars, eventVars, Ends,
        outsideSetup, outsideEnd, outsideTool, outsideEvents, outsidePipeline

\* The next-state relation, one disjunct per action.
LEMMA NextCases ==
  ASSUME Next
  PROVE
    \/ AnswerInbound
    \/ TrackCaller
    \/ CreateMedia
    \/ TrackMedia
    \/ CreateBridge
    \/ AddChannels
    \/ SaveResources
    \/ EndPipeline
    \/ HangUpCaller
    \/ FindContext
    \/ CheckResources
    \/ MarkTransfer
    \/ AddDestination
    \/ RemoveMedia
    \/ ReleaseMedia
    \/ ForgetContext
    \/ CloseSocket
    \/ Originate
    \/ MapChannel
    \/ UpdateContext
    \/ Subscribe
    \/ Conclude
    \/ CallerHangsUp
    \/ SocketBreaks
    \/ \E c \in Ends : LookUpKey(c)
    \/ \E c \in Ends : ReadRun(c)
    \/ \E c \in Ends : KeepCaller(c)
    \/ \E c \in Ends : DeleteBridge(c)
    \/ \E c \in Ends : DeleteOther(c)
    \/ \E c \in Ends : DeleteKeys(c)
    \/ \E t \in Attempts : StartTransfer(t)
    \/ \E t \in Attempts : ReadAnswered(t)
    \/ \E t \in Attempts : PublishAnswered(t)
    \/ \E t \in Attempts : ReadDestroyed(t)
    \/ \E t \in Attempts : PublishFailed(t)
    \/ \E t \in Attempts : KeysExpire(t)
    \/ \E t \in Attempts : DestinationAnswers(t)
    \/ \E t \in Attempts : DestinationEnds(t)
<1>1. CASE SetUp \/ Pipeline \/ Tool
  BY <1>1 DEF SetUp, Pipeline, Tool
<1>2. CASE CallerHangsUp \/ SocketBreaks
  BY <1>2
<1>3. CASE \E c \in Ends : StasisEnd(c)
  BY <1>3 DEF StasisEnd
<1>4. CASE \E t \in Attempts : \/ StartTransfer(t) \/ DestinationEvent(t) \/ KeysExpire(t)
                               \/ DestinationAnswers(t) \/ DestinationEnds(t)
  BY <1>4 DEF DestinationEvent
<1>5. QED
  BY <1>1, <1>2, <1>3, <1>4 DEF Next


-----------------------------------------------------------------------------
(* Types.  An attempt that the tool or the swap works on is one.            *)

Working ==
  /\ tool # "idle" => current \in Attempts
  /\ pipeline \in {"check", "mark", "add"} => found \in Attempts

Typed == TypeOK /\ Working

LEMMA TypedInit == Init => Typed
<1> SUFFICES ASSUME Init PROVE Typed
  OBVIOUS
<1> USE DEF Init, TransferStates
<1>1. ChannelTypes
  BY DEF ChannelTypes
<1>2. KeyTypes
  BY DEF KeyTypes
<1>3. HandlerTypes
  BY DEF HandlerTypes
<1>4. PipelineTypes /\ mishaps \subseteq Faults /\ Working
  BY DEF PipelineTypes, Working
<1>5. QED
  BY <1>1, <1>2, <1>3, <1>4 DEF Typed, TypeOK

LEMMA TypedStep ==
  ASSUME Typed, [Next]_vars
  PROVE  Typed'
<1> USE DEF Typed, TypeOK, ChannelTypes, KeyTypes, HandlerTypes, PipelineTypes, Working,
            TransferStates
<1>1. CASE AnswerInbound
  <2>1. ChannelTypes'
    BY <1>1 DEF AnswerInbound, Mishap, CallerEnds
  <2>2. KeyTypes'
    BY <1>1 DEF AnswerInbound, Mishap, CallerEnds
  <2>3. HandlerTypes'
    BY <1>1 DEF AnswerInbound, Mishap, CallerEnds
  <2>4. PipelineTypes'
    BY <1>1 DEF AnswerInbound, Mishap, CallerEnds
  <2>5. (mishaps \subseteq Faults)' /\ Working'
    BY <1>1 DEF AnswerInbound, Mishap, CallerEnds
  <2>6. QED
    BY <2>1, <2>2, <2>3, <2>4, <2>5
<1>2. CASE TrackCaller
  BY <1>2 DEF TrackCaller
<1>3. CASE CreateMedia
  BY <1>3 DEF CreateMedia, Mishap
<1>4. CASE TrackMedia
  BY <1>4 DEF TrackMedia
<1>5. CASE CreateBridge
  BY <1>5 DEF CreateBridge, Mishap
<1>6. CASE AddChannels
  <2>1. ChannelTypes'
    BY <1>6 DEF AddChannels, Mishap
  <2>2. KeyTypes'
    BY <1>6 DEF AddChannels, Mishap
  <2>3. HandlerTypes'
    BY <1>6 DEF AddChannels, Mishap
  <2>4. PipelineTypes'
    BY <1>6 DEF AddChannels, Mishap
  <2>5. (mishaps \subseteq Faults)' /\ Working'
    BY <1>6 DEF AddChannels, Mishap
  <2>6. QED
    BY <2>1, <2>2, <2>3, <2>4, <2>5
<1>7. CASE SaveResources
  <2>1. ChannelTypes'
    BY <1>7 DEF SaveResources, Mishap
  <2>2. KeyTypes'
    BY <1>7 DEF SaveResources, Mishap
  <2>3. HandlerTypes'
    BY <1>7 DEF SaveResources, Mishap
  <2>4. PipelineTypes'
    BY <1>7 DEF SaveResources, Mishap
  <2>5. (mishaps \subseteq Faults)' /\ Working'
    BY <1>7 DEF SaveResources, Mishap
  <2>6. QED
    BY <2>1, <2>2, <2>3, <2>4, <2>5
<1>8. CASE EndPipeline
  BY <1>8 DEF EndPipeline, Mishap, PipelineTo
<1>9. CASE HangUpCaller
  <2>1. ChannelTypes'
    BY <1>9 DEF HangUpCaller, Mishap, CallerEnds, PipelineTo
  <2>2. KeyTypes'
    BY <1>9 DEF HangUpCaller, Mishap, CallerEnds, PipelineTo
  <2>3. HandlerTypes'
    BY <1>9 DEF HangUpCaller, Mishap, CallerEnds, PipelineTo
  <2>4. PipelineTypes'
    BY <1>9 DEF HangUpCaller, Mishap, CallerEnds, PipelineTo
  <2>5. (mishaps \subseteq Faults)' /\ Working'
    BY <1>9 DEF HangUpCaller, Mishap, CallerEnds, PipelineTo
  <2>6. QED
    BY <2>1, <2>2, <2>3, <2>4, <2>5
<1>10. CASE FindContext
  BY <1>10 DEF FindContext, PipelineTo
<1>11. CASE CheckResources
  BY <1>11 DEF CheckResources
<1>12. CASE MarkTransfer
  BY <1>12 DEF MarkTransfer, PipelineTo, Mark
<1>13. CASE AddDestination
  <2>1. ChannelTypes'
    <3>1. found \in Attempts /\ UNCHANGED <<caller, media, dest, bridge>>
      BY <1>13 DEF AddDestination, Mishap
    <3>2. members' \subseteq members \cup {found}
      BY <1>13 DEF AddDestination, Mishap, Joins
    <3>3. QED
      BY <3>1, <3>2
  <2>2. KeyTypes'
    BY <1>13 DEF AddDestination, Mishap
  <2>3. HandlerTypes'
    BY <1>13 DEF AddDestination, Mishap, Joins
  <2>4. PipelineTypes'
    BY <1>13 DEF AddDestination, Mishap, Joins
  <2>5. (mishaps \subseteq Faults)' /\ Working'
    BY <1>13 DEF AddDestination, Mishap, Joins
  <2>6. QED
    BY <2>1, <2>2, <2>3, <2>4, <2>5
<1>14. CASE RemoveMedia
  <2>1. ChannelTypes'
    BY <1>14 DEF RemoveMedia, Mishap, PipelineTo
  <2>2. KeyTypes'
    BY <1>14 DEF RemoveMedia, Mishap, PipelineTo
  <2>3. HandlerTypes'
    BY <1>14 DEF RemoveMedia, Mishap, PipelineTo
  <2>4. PipelineTypes'
    BY <1>14 DEF RemoveMedia, Mishap, PipelineTo
  <2>5. (mishaps \subseteq Faults)' /\ Working'
    BY <1>14 DEF RemoveMedia, Mishap, PipelineTo
  <2>6. QED
    BY <2>1, <2>2, <2>3, <2>4, <2>5
<1>15. CASE ReleaseMedia
  <2>1. ChannelTypes'
    BY <1>15 DEF ReleaseMedia, Mishap, MediaEnds, PipelineTo
  <2>2. KeyTypes'
    BY <1>15 DEF ReleaseMedia, Mishap, MediaEnds, PipelineTo
  <2>3. HandlerTypes'
    BY <1>15 DEF ReleaseMedia, Mishap, MediaEnds, PipelineTo
  <2>4. PipelineTypes'
    BY <1>15 DEF ReleaseMedia, Mishap, MediaEnds, PipelineTo
  <2>5. (mishaps \subseteq Faults)' /\ Working'
    BY <1>15 DEF ReleaseMedia, Mishap, MediaEnds, PipelineTo
  <2>6. QED
    BY <2>1, <2>2, <2>3, <2>4, <2>5
<1>16. CASE ForgetContext
  <2>1. ChannelTypes'
    BY <1>16 DEF ForgetContext, PipelineTo
  <2>2. KeyTypes'
    BY <1>16 DEF ForgetContext, PipelineTo
  <2>3. HandlerTypes'
    BY <1>16 DEF ForgetContext, PipelineTo
  <2>4. PipelineTypes'
    BY <1>16 DEF ForgetContext, PipelineTo
  <2>5. (mishaps \subseteq Faults)' /\ Working'
    BY <1>16 DEF ForgetContext, PipelineTo
  <2>6. QED
    BY <2>1, <2>2, <2>3, <2>4, <2>5
<1>17. CASE CloseSocket
  BY <1>17 DEF CloseSocket, MediaEnds, PipelineTo
<1>18. CASE Originate
  BY <1>18 DEF Originate, Mishap
<1>19. CASE MapChannel
  BY <1>19 DEF MapChannel
<1>20. CASE UpdateContext
  BY <1>20 DEF UpdateContext
<1>21. CASE Subscribe
  BY <1>21 DEF Subscribe
<1>22. CASE Conclude
  BY <1>22 DEF Conclude
<1>23. CASE CallerHangsUp
  BY <1>23 DEF CallerHangsUp, CallerEnds
<1>24. CASE SocketBreaks
  BY <1>24 DEF SocketBreaks, Mishap, MediaEnds
<1>25. ASSUME NEW c \in Ends, LookUpKey(c) PROVE Typed'
  BY <1>25 DEF LookUpKey, Mishap, EndTo
<1>26. ASSUME NEW c \in Ends, ReadRun(c) PROVE Typed'
  BY <1>26 DEF ReadRun, Mishap, EndTo, KeepsCaller
<1>27. ASSUME NEW c \in Ends, KeepCaller(c) PROVE Typed'
  BY <1>27 DEF KeepCaller, EndTo
<1>28. ASSUME NEW c \in Ends, DeleteBridge(c) PROVE Typed'
  <2>1. ChannelTypes'
    BY <1>28 DEF DeleteBridge, DeleteFails, Mishap, EndTo
  <2>2. KeyTypes'
    BY <1>28 DEF DeleteBridge, DeleteFails, Mishap, EndTo
  <2>3. HandlerTypes'
    BY <1>28 DEF DeleteBridge, DeleteFails, Mishap, EndTo
  <2>4. PipelineTypes'
    BY <1>28 DEF DeleteBridge, DeleteFails, Mishap, EndTo
  <2>5. (mishaps \subseteq Faults)' /\ Working'
    BY <1>28 DEF DeleteBridge, DeleteFails, Mishap, EndTo
  <2>6. QED
    BY <2>1, <2>2, <2>3, <2>4, <2>5
<1>29. ASSUME NEW c \in Ends, DeleteOther(c) PROVE Typed'
  <2>1. ChannelTypes'
    BY <1>29 DEF DeleteOther, DeleteFails, Mishap, EndTo
  <2>2. KeyTypes'
    BY <1>29 DEF DeleteOther, DeleteFails, Mishap, EndTo
  <2>3. HandlerTypes'
    BY <1>29 DEF DeleteOther, DeleteFails, Mishap, EndTo
  <2>4. PipelineTypes'
    BY <1>29 DEF DeleteOther, DeleteFails, Mishap, EndTo
  <2>5. (mishaps \subseteq Faults)' /\ Working'
    BY <1>29 DEF DeleteOther, DeleteFails, Mishap, EndTo
  <2>6. QED
    BY <2>1, <2>2, <2>3, <2>4, <2>5
<1>30. ASSUME NEW c \in Ends, DeleteKeys(c) PROVE Typed'
  BY <1>30 DEF DeleteKeys, EndTo, Resources
<1>31. ASSUME NEW t \in Attempts, StartTransfer(t) PROVE Typed'
  BY <1>31 DEF StartTransfer, Mishap
<1>32. ASSUME NEW t \in Attempts, ReadAnswered(t) PROVE Typed'
  BY <1>32 DEF ReadAnswered
<1>33. ASSUME NEW t \in Attempts, PublishAnswered(t) PROVE Typed'
  BY <1>33 DEF PublishAnswered, Publish
<1>34. ASSUME NEW t \in Attempts, ReadDestroyed(t) PROVE Typed'
  BY <1>34 DEF ReadDestroyed
<1>35. ASSUME NEW t \in Attempts, PublishFailed(t) PROVE Typed'
  BY <1>35 DEF PublishFailed, Publish
<1>36. ASSUME NEW t \in Attempts, KeysExpire(t) PROVE Typed'
  BY <1>36 DEF KeysExpire
<1>37. ASSUME NEW t \in Attempts, DestinationAnswers(t) PROVE Typed'
  BY <1>37 DEF DestinationAnswers
<1>38. ASSUME NEW t \in Attempts, DestinationEnds(t) PROVE Typed'
  <2>1. ChannelTypes'
    BY <1>38 DEF DestinationEnds, Mishap
  <2>2. KeyTypes'
    BY <1>38 DEF DestinationEnds, Mishap
  <2>3. HandlerTypes'
    BY <1>38 DEF DestinationEnds, Mishap
  <2>4. PipelineTypes'
    BY <1>38 DEF DestinationEnds, Mishap
  <2>5. (mishaps \subseteq Faults)' /\ Working'
    BY <1>38 DEF DestinationEnds, Mishap
  <2>6. QED
    BY <2>1, <2>2, <2>3, <2>4, <2>5
<1>39. CASE UNCHANGED vars
  BY <1>39 DEF vars
<1>40. QED
  BY <1>1, <1>2, <1>3, <1>4, <1>5, <1>6, <1>7, <1>8, <1>9, <1>10, <1>11, <1>12, <1>13, <1>14,
     <1>15, <1>16, <1>17, <1>18, <1>19, <1>20, <1>21, <1>22, <1>23, <1>24, <1>25, <1>26,
     <1>27, <1>28, <1>29, <1>30, <1>31, <1>32, <1>33, <1>34, <1>35, <1>36, <1>37, <1>38,
     <1>39, NextCases

\* Every variable keeps its type.
THEOREM TypeCorrect == Spec => []TypeOK
<1>1. Typed => TypeOK
  BY DEF Typed
<1>2. QED
  BY <1>1, TypedInit, TypedStep, PTL DEF Spec

-----------------------------------------------------------------------------
(* A destination joins the bridge only when the ids of the call are saved   *)
(* and the transfer is marked, and the media channel ends, unless its       *)
(* socket breaks, only after the destination has joined or its end has let  *)
(* the caller go.                                                           *)

Joined == members \cap Attempts # {}

\* The StasisEnd of a channel comes when it is down.
EndedIsDown ==
  /\ ending["caller"] # "none" => caller = "down" /\ ending["caller"] # "keep"
  /\ ending["media"] # "none" => media = "down"

\* The pipeline begins with the media channel, and but for a mishap nothing
\* happens to it before the set-up is through.  A context is found only once.
Begins ==
  /\ setup \in {"answer", "track", "media"} =>
       media = "none" /\ pipeline = "none" /\ ending["media"] = "none"
  /\ media # "none" => pipeline # "none"
  /\ setup # "done" /\ "early" \notin mishaps => pipeline \in {"none", "talking"} /\ tool = "idle"
  /\ saved \/ known["caller"].saved => setup = "done"
  /\ found # NoAttempt => pipeline \notin {"none", "talking", "hangup", "transfer"}

\* Past its checks the swap works on a call whose ids are saved, and past its
\* mark on a call that is being transferred.
Marked ==
  /\ pipeline \in {"mark", "add", "remove", "release", "forget"} \/ Joined => saved
  /\ pipeline \in {"add", "remove", "release", "forget"} \/ Joined => transfer # "none"
  /\ transfer = "complete" => ending["media"] = "done"

\* The caller's line is up and the media channel has been ended by the pipeline.
EndedByPipeline ==
  ending["media"] # "none" /\ caller = "up" /\ "drop" \notin mishaps =>
    pipeline \in {"forget", "close", "closed"}

\* The StasisEnd of the media channel that tears down the call has not seen a
\* transfer that is under way.
TearsDownAlone ==
  ending["media"] = "bridge" /\ known["media"].saved /\ caller = "up" /\ "drop" \notin mishaps =>
    ~Joined

Inv == Typed /\ EndedIsDown /\ Begins /\ Marked /\ EndedByPipeline /\ TearsDownAlone

LEMMA InvInit == Init => Inv
<1> SUFFICES ASSUME Init PROVE Inv
  OBVIOUS
<1>1. EndedIsDown /\ Begins /\ Marked /\ EndedByPipeline /\ TearsDownAlone
  BY DEF Init, EndedIsDown, Begins, Marked, EndedByPipeline, TearsDownAlone, Joined
<1>2. QED
  BY <1>1, TypedInit DEF Inv

LEMMA EndedIsDownStep ==
  ASSUME Inv, [Next]_vars
  PROVE  EndedIsDown'
<1> USE DEF Inv, Typed, TypeOK, HandlerTypes, EndedIsDown
<1>1. CASE AnswerInbound
  BY <1>1 DEF AnswerInbound, Mishap, CallerEnds
<1>2. CASE TrackCaller
  BY <1>2 DEF TrackCaller
<1>3. CASE CreateMedia
  BY <1>3 DEF Begins, CreateMedia, Mishap
<1>4. CASE TrackMedia
  BY <1>4 DEF TrackMedia
<1>5. CASE CreateBridge
  BY <1>5 DEF CreateBridge, Mishap
<1>6. CASE AddChannels
  BY <1>6 DEF AddChannels, Mishap
<1>7. CASE SaveResources
  BY <1>7 DEF SaveResources, Mishap
<1>8. CASE EndPipeline
  BY <1>8 DEF EndPipeline, Mishap, PipelineTo
<1>9. CASE HangUpCaller
  BY <1>9 DEF HangUpCaller, Mishap, CallerEnds, PipelineTo
<1>10. CASE FindContext
  BY <1>10 DEF FindContext, PipelineTo
<1>11. CASE CheckResources
  BY <1>11 DEF CheckResources
<1>12. CASE MarkTransfer
  BY <1>12 DEF MarkTransfer, PipelineTo, Mark
<1>13. CASE AddDestination
  BY <1>13 DEF AddDestination, Mishap, Joins
<1>14. CASE RemoveMedia
  BY <1>14 DEF RemoveMedia, Mishap, PipelineTo
<1>15. CASE ReleaseMedia
  BY <1>15 DEF ReleaseMedia, Mishap, MediaEnds, PipelineTo
<1>16. CASE ForgetContext
  BY <1>16 DEF ForgetContext, PipelineTo
<1>17. CASE CloseSocket
  BY <1>17 DEF CloseSocket, MediaEnds, PipelineTo
<1>18. CASE Originate
  BY <1>18 DEF Originate, Mishap
<1>19. CASE MapChannel
  BY <1>19 DEF MapChannel
<1>20. CASE UpdateContext
  BY <1>20 DEF UpdateContext
<1>21. CASE Subscribe
  BY <1>21 DEF Subscribe
<1>22. CASE Conclude
  BY <1>22 DEF Conclude
<1>23. CASE CallerHangsUp
  BY <1>23 DEF CallerHangsUp, CallerEnds
<1>24. CASE SocketBreaks
  BY <1>24 DEF SocketBreaks, Mishap, MediaEnds
<1>25. ASSUME NEW c \in Ends, LookUpKey(c) PROVE EndedIsDown'
  BY <1>25 DEF LookUpKey, Mishap, EndTo
<1>26. ASSUME NEW c \in Ends, ReadRun(c) PROVE EndedIsDown'
  BY <1>26 DEF ReadRun, Mishap, EndTo, KeepsCaller
<1>27. ASSUME NEW c \in Ends, KeepCaller(c) PROVE EndedIsDown'
  BY <1>27 DEF KeepCaller, EndTo
<1>28. ASSUME NEW c \in Ends, DeleteBridge(c) PROVE EndedIsDown'
  BY <1>28 DEF DeleteBridge, DeleteFails, Mishap, EndTo
<1>29. ASSUME NEW c \in Ends, DeleteOther(c) PROVE EndedIsDown'
  BY <1>29 DEF DeleteOther, DeleteFails, Mishap, EndTo
<1>30. ASSUME NEW c \in Ends, DeleteKeys(c) PROVE EndedIsDown'
  BY <1>30 DEF DeleteKeys, EndTo, Resources
<1>31. ASSUME NEW t \in Attempts, StartTransfer(t) PROVE EndedIsDown'
  BY <1>31 DEF StartTransfer, Mishap
<1>32. ASSUME NEW t \in Attempts, ReadAnswered(t) PROVE EndedIsDown'
  BY <1>32 DEF ReadAnswered
<1>33. ASSUME NEW t \in Attempts, PublishAnswered(t) PROVE EndedIsDown'
  BY <1>33 DEF PublishAnswered, Publish
<1>34. ASSUME NEW t \in Attempts, ReadDestroyed(t) PROVE EndedIsDown'
  BY <1>34 DEF ReadDestroyed
<1>35. ASSUME NEW t \in Attempts, PublishFailed(t) PROVE EndedIsDown'
  BY <1>35 DEF PublishFailed, Publish
<1>36. ASSUME NEW t \in Attempts, KeysExpire(t) PROVE EndedIsDown'
  BY <1>36 DEF KeysExpire
<1>37. ASSUME NEW t \in Attempts, DestinationAnswers(t) PROVE EndedIsDown'
  BY <1>37 DEF DestinationAnswers
<1>38. ASSUME NEW t \in Attempts, DestinationEnds(t) PROVE EndedIsDown'
  BY <1>38 DEF DestinationEnds, Mishap
<1>39. CASE UNCHANGED vars
  BY <1>39 DEF vars
<1>40. QED
  BY <1>1, <1>2, <1>3, <1>4, <1>5, <1>6, <1>7, <1>8, <1>9, <1>10, <1>11, <1>12, <1>13, <1>14,
     <1>15, <1>16, <1>17, <1>18, <1>19, <1>20, <1>21, <1>22, <1>23, <1>24, <1>25, <1>26,
     <1>27, <1>28, <1>29, <1>30, <1>31, <1>32, <1>33, <1>34, <1>35, <1>36, <1>37, <1>38,
     <1>39, NextCases

LEMMA BeginsStep ==
  ASSUME Inv, [Next]_vars
  PROVE  Begins'
<1> USE DEF Inv, Typed, TypeOK, HandlerTypes, EndedIsDown, Begins
<1>1. CASE AnswerInbound
  BY <1>1 DEF AnswerInbound, Mishap, CallerEnds
<1>2. CASE TrackCaller
  BY <1>2 DEF TrackCaller
<1>3. CASE CreateMedia
  BY <1>3 DEF CreateMedia, Mishap
<1>4. CASE TrackMedia
  BY <1>4 DEF TrackMedia
<1>5. CASE CreateBridge
  BY <1>5 DEF CreateBridge, Mishap
<1>6. CASE AddChannels
  BY <1>6 DEF AddChannels, Mishap
<1>7. CASE SaveResources
  BY <1>7 DEF SaveResources, Mishap
<1>8. CASE EndPipeline
  BY <1>8 DEF EndPipeline, Mishap, PipelineTo
<1>9. CASE HangUpCaller
  BY <1>9 DEF HangUpCaller, Mishap, CallerEnds, PipelineTo
<1>10. CASE FindContext
  BY <1>10 DEF FindContext, PipelineTo
<1>11. CASE CheckResources
  BY <1>11 DEF CheckResources
<1>12. CASE MarkTransfer
  BY <1>12 DEF MarkTransfer, PipelineTo, Mark
<1>13. CASE AddDestination
  BY <1>13 DEF AddDestination, Mishap, Joins
<1>14. CASE RemoveMedia
  BY <1>14 DEF RemoveMedia, Mishap, PipelineTo
<1>15. CASE ReleaseMedia
  BY <1>15 DEF ReleaseMedia, Mishap, MediaEnds, PipelineTo
<1>16. CASE ForgetContext
  BY <1>16 DEF ForgetContext, PipelineTo
<1>17. CASE CloseSocket
  BY <1>17 DEF CloseSocket, MediaEnds, PipelineTo
<1>18. CASE Originate
  BY <1>18 DEF Originate, Mishap
<1>19. CASE MapChannel
  BY <1>19 DEF MapChannel
<1>20. CASE UpdateContext
  BY <1>20 DEF UpdateContext
<1>21. CASE Subscribe
  BY <1>21 DEF Subscribe
<1>22. CASE Conclude
  BY <1>22 DEF Conclude
<1>23. CASE CallerHangsUp
  BY <1>23 DEF CallerHangsUp, CallerEnds
<1>24. CASE SocketBreaks
  BY <1>24 DEF SocketBreaks, Mishap, MediaEnds
<1>25. ASSUME NEW c \in Ends, LookUpKey(c) PROVE Begins'
  BY <1>25 DEF LookUpKey, Mishap, EndTo
<1>26. ASSUME NEW c \in Ends, ReadRun(c) PROVE Begins'
  BY <1>26 DEF ReadRun, Mishap, EndTo, KeepsCaller
<1>27. ASSUME NEW c \in Ends, KeepCaller(c) PROVE Begins'
  BY <1>27 DEF KeepCaller, EndTo
<1>28. ASSUME NEW c \in Ends, DeleteBridge(c) PROVE Begins'
  BY <1>28 DEF DeleteBridge, DeleteFails, Mishap, EndTo
<1>29. ASSUME NEW c \in Ends, DeleteOther(c) PROVE Begins'
  <2>1. UNCHANGED <<setup, saved, known, tool, found>> /\ mishaps \subseteq mishaps'
    BY <1>29 DEF DeleteOther, DeleteFails, Mishap, EndTo
  <2>2. \/ UNCHANGED <<media, pipeline>> /\ ending'["media"] # "none" /\ ending["media"] # "none"
        \/ UNCHANGED <<media, pipeline>> /\ ending'["media"] = ending["media"]
        \/ /\ media = "up" /\ media' = "down" /\ known["caller"].saved
           /\ pipeline' \in {pipeline, "closed"} /\ (pipeline' = pipeline \/ pipeline = "talking")
    BY <1>29 DEF DeleteOther, DeleteFails, Mishap, EndTo
  <2>3. QED
    BY <2>1, <2>2
<1>30. ASSUME NEW c \in Ends, DeleteKeys(c) PROVE Begins'
  BY <1>30 DEF DeleteKeys, EndTo, Resources
<1>31. ASSUME NEW t \in Attempts, StartTransfer(t) PROVE Begins'
  BY <1>31 DEF StartTransfer, Mishap
<1>32. ASSUME NEW t \in Attempts, ReadAnswered(t) PROVE Begins'
  BY <1>32 DEF ReadAnswered
<1>33. ASSUME NEW t \in Attempts, PublishAnswered(t) PROVE Begins'
  BY <1>33 DEF PublishAnswered, Publish
<1>34. ASSUME NEW t \in Attempts, ReadDestroyed(t) PROVE Begins'
  BY <1>34 DEF ReadDestroyed
<1>35. ASSUME NEW t \in Attempts, PublishFailed(t) PROVE Begins'
  BY <1>35 DEF PublishFailed, Publish
<1>36. ASSUME NEW t \in Attempts, KeysExpire(t) PROVE Begins'
  BY <1>36 DEF KeysExpire
<1>37. ASSUME NEW t \in Attempts, DestinationAnswers(t) PROVE Begins'
  BY <1>37 DEF DestinationAnswers
<1>38. ASSUME NEW t \in Attempts, DestinationEnds(t) PROVE Begins'
  BY <1>38 DEF DestinationEnds, Mishap
<1>39. CASE UNCHANGED vars
  BY <1>39 DEF vars
<1>40. QED
  BY <1>1, <1>2, <1>3, <1>4, <1>5, <1>6, <1>7, <1>8, <1>9, <1>10, <1>11, <1>12, <1>13, <1>14,
     <1>15, <1>16, <1>17, <1>18, <1>19, <1>20, <1>21, <1>22, <1>23, <1>24, <1>25, <1>26,
     <1>27, <1>28, <1>29, <1>30, <1>31, <1>32, <1>33, <1>34, <1>35, <1>36, <1>37, <1>38,
     <1>39, NextCases

LEMMA MarkedStep ==
  ASSUME Inv, [Next]_vars
  PROVE  Marked'
<1> USE DEF Inv, Typed, TypeOK, HandlerTypes, EndedIsDown, Begins, Marked, EndedByPipeline, Joined
<1>1. CASE AnswerInbound
  BY <1>1 DEF AnswerInbound, Mishap, CallerEnds
<1>2. CASE TrackCaller
  BY <1>2 DEF TrackCaller
<1>3. CASE CreateMedia
  BY <1>3 DEF CreateMedia, Mishap
<1>4. CASE TrackMedia
  BY <1>4 DEF TrackMedia
<1>5. CASE CreateBridge
  BY <1>5 DEF CreateBridge, Mishap
<1>6. CASE AddChannels
  BY <1>6, AttemptAssumption DEF AddChannels, Mishap
<1>7. CASE SaveResources
  BY <1>7 DEF SaveResources, Mishap
<1>8. CASE EndPipeline
  BY <1>8 DEF EndPipeline, Mishap, PipelineTo
<1>9. CASE HangUpCaller
  BY <1>9 DEF HangUpCaller, Mishap, CallerEnds, PipelineTo
<1>10. CASE FindContext
  BY <1>10 DEF FindContext, PipelineTo
<1>11. CASE CheckResources
  BY <1>11 DEF CheckResources
<1>12. CASE MarkTransfer
  BY <1>12 DEF MarkTransfer, PipelineTo, Mark
<1>13. CASE AddDestination
  BY <1>13 DEF AddDestination, Mishap, Joins
<1>14. CASE RemoveMedia
  BY <1>14 DEF RemoveMedia, Mishap, PipelineTo
<1>15. CASE ReleaseMedia
  BY <1>15 DEF ReleaseMedia, Mishap, MediaEnds, PipelineTo
<1>16. CASE ForgetContext
  BY <1>16 DEF ForgetContext, PipelineTo
<1>17. CASE CloseSocket
  BY <1>17 DEF CloseSocket, MediaEnds, PipelineTo
<1>18. CASE Originate
  BY <1>18 DEF Originate, Mishap
<1>19. CASE MapChannel
  BY <1>19 DEF MapChannel
<1>20. CASE UpdateContext
  BY <1>20 DEF UpdateContext
<1>21. CASE Subscribe
  BY <1>21 DEF Subscribe
<1>22. CASE Conclude
  BY <1>22 DEF Conclude
<1>23. CASE CallerHangsUp
  BY <1>23 DEF CallerHangsUp, CallerEnds
<1>24. CASE SocketBreaks
  BY <1>24 DEF SocketBreaks, Mishap, MediaEnds
<1>25. ASSUME NEW c \in Ends, LookUpKey(c) PROVE Marked'
  BY <1>25 DEF LookUpKey, Mishap, EndTo
<1>26. ASSUME NEW c \in Ends, ReadRun(c) PROVE Marked'
  BY <1>26 DEF ReadRun, Mishap, EndTo, KeepsCaller
<1>27. ASSUME NEW c \in Ends, KeepCaller(c) PROVE Marked'
  BY <1>27 DEF KeepCaller, EndTo
<1>28. ASSUME NEW c \in Ends, DeleteBridge(c) PROVE Marked'
  BY <1>28 DEF DeleteBridge, DeleteFails, Mishap, EndTo
<1>29. ASSUME NEW c \in Ends, DeleteOther(c) PROVE Marked'
  BY <1>29 DEF DeleteOther, DeleteFails, Mishap, EndTo
<1>30. ASSUME NEW c \in Ends, DeleteKeys(c) PROVE Marked'
  BY <1>30 DEF DeleteKeys, EndTo, Resources
<1>31. ASSUME NEW t \in Attempts, StartTransfer(t) PROVE Marked'
  BY <1>31 DEF StartTransfer, Mishap
<1>32. ASSUME NEW t \in Attempts, ReadAnswered(t) PROVE Marked'
  BY <1>32 DEF ReadAnswered
<1>33. ASSUME NEW t \in Attempts, PublishAnswered(t) PROVE Marked'
  BY <1>33 DEF PublishAnswered, Publish
<1>34. ASSUME NEW t \in Attempts, ReadDestroyed(t) PROVE Marked'
  BY <1>34 DEF ReadDestroyed
<1>35. ASSUME NEW t \in Attempts, PublishFailed(t) PROVE Marked'
  BY <1>35 DEF PublishFailed, Publish
<1>36. ASSUME NEW t \in Attempts, KeysExpire(t) PROVE Marked'
  BY <1>36 DEF KeysExpire
<1>37. ASSUME NEW t \in Attempts, DestinationAnswers(t) PROVE Marked'
  BY <1>37 DEF DestinationAnswers
<1>38. ASSUME NEW t \in Attempts, DestinationEnds(t) PROVE Marked'
  BY <1>38 DEF DestinationEnds, Mishap
<1>39. CASE UNCHANGED vars
  BY <1>39 DEF vars
<1>40. QED
  BY <1>1, <1>2, <1>3, <1>4, <1>5, <1>6, <1>7, <1>8, <1>9, <1>10, <1>11, <1>12, <1>13, <1>14,
     <1>15, <1>16, <1>17, <1>18, <1>19, <1>20, <1>21, <1>22, <1>23, <1>24, <1>25, <1>26,
     <1>27, <1>28, <1>29, <1>30, <1>31, <1>32, <1>33, <1>34, <1>35, <1>36, <1>37, <1>38,
     <1>39, NextCases

LEMMA EndedByPipelineStep ==
  ASSUME Inv, [Next]_vars
  PROVE  EndedByPipeline'
<1> USE DEF Inv, Typed, TypeOK, HandlerTypes, EndedIsDown, Begins, EndedByPipeline
<1>1. CASE AnswerInbound
  BY <1>1 DEF AnswerInbound, Mishap, CallerEnds
<1>2. CASE TrackCaller
  BY <1>2 DEF TrackCaller
<1>3. CASE CreateMedia
  BY <1>3 DEF CreateMedia, Mishap
<1>4. CASE TrackMedia
  BY <1>4 DEF TrackMedia
<1>5. CASE CreateBridge
  BY <1>5 DEF CreateBridge, Mishap
<1>6. CASE AddChannels
  BY <1>6 DEF AddChannels, Mishap
<1>7. CASE SaveResources
  BY <1>7 DEF SaveResources, Mishap
<1>8. CASE EndPipeline
  BY <1>8 DEF EndPipeline, Mishap, PipelineTo
<1>9. CASE HangUpCaller
  BY <1>9 DEF HangUpCaller, Mishap, CallerEnds, PipelineTo
<1>10. CASE FindContext
  BY <1>10 DEF FindContext, PipelineTo
<1>11. CASE CheckResources
  BY <1>11 DEF CheckResources
<1>12. CASE MarkTransfer
  BY <1>12 DEF MarkTransfer, PipelineTo, Mark
<1>13. CASE AddDestination
  BY <1>13 DEF AddDestination, Mishap, Joins
<1>14. CASE RemoveMedia
  BY <1>14 DEF RemoveMedia, Mishap, PipelineTo
<1>15. CASE ReleaseMedia
  BY <1>15 DEF ReleaseMedia, Mishap, MediaEnds, PipelineTo
<1>16. CASE ForgetContext
  BY <1>16 DEF ForgetContext, PipelineTo
<1>17. CASE CloseSocket
  BY <1>17 DEF CloseSocket, MediaEnds, PipelineTo
<1>18. CASE Originate
  BY <1>18 DEF Originate, Mishap
<1>19. CASE MapChannel
  BY <1>19 DEF MapChannel
<1>20. CASE UpdateContext
  BY <1>20 DEF UpdateContext
<1>21. CASE Subscribe
  BY <1>21 DEF Subscribe
<1>22. CASE Conclude
  BY <1>22 DEF Conclude
<1>23. CASE CallerHangsUp
  BY <1>23 DEF CallerHangsUp, CallerEnds
<1>24. CASE SocketBreaks
  BY <1>24 DEF SocketBreaks, Mishap, MediaEnds
<1>25. ASSUME NEW c \in Ends, LookUpKey(c) PROVE EndedByPipeline'
  BY <1>25 DEF LookUpKey, Mishap, EndTo
<1>26. ASSUME NEW c \in Ends, ReadRun(c) PROVE EndedByPipeline'
  BY <1>26 DEF ReadRun, Mishap, EndTo, KeepsCaller
<1>27. ASSUME NEW c \in Ends, KeepCaller(c) PROVE EndedByPipeline'
  BY <1>27 DEF KeepCaller, EndTo
<1>28. ASSUME NEW c \in Ends, DeleteBridge(c) PROVE EndedByPipeline'
  BY <1>28 DEF DeleteBridge, DeleteFails, Mishap, EndTo
<1>29. ASSUME NEW c \in Ends, DeleteOther(c) PROVE EndedByPipeline'
  BY <1>29 DEF DeleteOther, DeleteFails, Mishap, EndTo
<1>30. ASSUME NEW c \in Ends, DeleteKeys(c) PROVE EndedByPipeline'
  BY <1>30 DEF DeleteKeys, EndTo, Resources
<1>31. ASSUME NEW t \in Attempts, StartTransfer(t) PROVE EndedByPipeline'
  BY <1>31 DEF StartTransfer, Mishap
<1>32. ASSUME NEW t \in Attempts, ReadAnswered(t) PROVE EndedByPipeline'
  BY <1>32 DEF ReadAnswered
<1>33. ASSUME NEW t \in Attempts, PublishAnswered(t) PROVE EndedByPipeline'
  BY <1>33 DEF PublishAnswered, Publish
<1>34. ASSUME NEW t \in Attempts, ReadDestroyed(t) PROVE EndedByPipeline'
  BY <1>34 DEF ReadDestroyed
<1>35. ASSUME NEW t \in Attempts, PublishFailed(t) PROVE EndedByPipeline'
  BY <1>35 DEF PublishFailed, Publish
<1>36. ASSUME NEW t \in Attempts, KeysExpire(t) PROVE EndedByPipeline'
  BY <1>36 DEF KeysExpire
<1>37. ASSUME NEW t \in Attempts, DestinationAnswers(t) PROVE EndedByPipeline'
  BY <1>37 DEF DestinationAnswers
<1>38. ASSUME NEW t \in Attempts, DestinationEnds(t) PROVE EndedByPipeline'
  BY <1>38 DEF DestinationEnds, Mishap
<1>39. CASE UNCHANGED vars
  BY <1>39 DEF vars
<1>40. QED
  BY <1>1, <1>2, <1>3, <1>4, <1>5, <1>6, <1>7, <1>8, <1>9, <1>10, <1>11, <1>12, <1>13, <1>14,
     <1>15, <1>16, <1>17, <1>18, <1>19, <1>20, <1>21, <1>22, <1>23, <1>24, <1>25, <1>26,
     <1>27, <1>28, <1>29, <1>30, <1>31, <1>32, <1>33, <1>34, <1>35, <1>36, <1>37, <1>38,
     <1>39, NextCases

LEMMA TearsDownAloneStep ==
  ASSUME Inv, [Next]_vars
  PROVE  TearsDownAlone'
<1> USE DEF Inv, Typed, TypeOK, HandlerTypes, EndedIsDown, Begins, Marked, EndedByPipeline,
            TearsDownAlone, Joined
<1>1. CASE AnswerInbound
  BY <1>1 DEF AnswerInbound, Mishap, CallerEnds
<1>2. CASE TrackCaller
  BY <1>2 DEF TrackCaller
<1>3. CASE CreateMedia
  BY <1>3 DEF CreateMedia, Mishap
<1>4. CASE TrackMedia
  BY <1>4 DEF TrackMedia
<1>5. CASE CreateBridge
  BY <1>5 DEF CreateBridge, Mishap
<1>6. CASE AddChannels
  BY <1>6 DEF AddChannels, Mishap
<1>7. CASE SaveResources
  BY <1>7 DEF SaveResources, Mishap
<1>8. CASE EndPipeline
  BY <1>8 DEF EndPipeline, Mishap, PipelineTo
<1>9. CASE HangUpCaller
  BY <1>9 DEF HangUpCaller, Mishap, CallerEnds, PipelineTo
<1>10. CASE FindContext
  BY <1>10 DEF FindContext, PipelineTo
<1>11. CASE CheckResources
  BY <1>11 DEF CheckResources
<1>12. CASE MarkTransfer
  BY <1>12 DEF MarkTransfer, PipelineTo, Mark
<1>13. CASE AddDestination
  BY <1>13 DEF AddDestination, Mishap, Joins
<1>14. CASE RemoveMedia
  BY <1>14 DEF RemoveMedia, Mishap, PipelineTo
<1>15. CASE ReleaseMedia
  BY <1>15 DEF ReleaseMedia, Mishap, MediaEnds, PipelineTo
<1>16. CASE ForgetContext
  BY <1>16 DEF ForgetContext, PipelineTo
<1>17. CASE CloseSocket
  BY <1>17 DEF CloseSocket, MediaEnds, PipelineTo
<1>18. CASE Originate
  BY <1>18 DEF Originate, Mishap
<1>19. CASE MapChannel
  BY <1>19 DEF MapChannel
<1>20. CASE UpdateContext
  BY <1>20 DEF UpdateContext
<1>21. CASE Subscribe
  BY <1>21 DEF Subscribe
<1>22. CASE Conclude
  BY <1>22 DEF Conclude
<1>23. CASE CallerHangsUp
  BY <1>23 DEF CallerHangsUp, CallerEnds
<1>24. CASE SocketBreaks
  BY <1>24 DEF SocketBreaks, Mishap, MediaEnds
<1>25. ASSUME NEW c \in Ends, LookUpKey(c) PROVE TearsDownAlone'
  BY <1>25 DEF LookUpKey, Mishap, EndTo
<1>26. ASSUME NEW c \in Ends, ReadRun(c) PROVE TearsDownAlone'
  <2>1. UNCHANGED <<caller, members, saved, transfer>> /\ ("drop" \in mishaps => "drop" \in mishaps')
    BY <1>26 DEF ReadRun, Mishap, EndTo
  <2>2. CASE c = "caller"
    <3>1. ending'["media"] = ending["media"] /\ known'["media"] = known["media"]
      BY <1>26, <2>2 DEF ReadRun, Mishap, EndTo
    <3>2. QED
      BY <2>1, <3>1
  <2>3. CASE c = "media" /\ ending'["media"] = "bridge"
    <3>1. ending["media"] = "read" /\ ~KeepsCaller("media") /\ known'["media"].saved = saved
      BY <1>26, <2>3 DEF ReadRun, Mishap, EndTo
    <3>2. Joined => saved /\ transfer \in TransferStates \ {"none", "complete"}
      BY <3>1 DEF KeyTypes
    <3>3. ~Joined
      BY <3>1, <3>2 DEF KeepsCaller, TransferStates
    <3>4. QED
      BY <2>1, <3>3
  <2>4. QED
    BY <2>2, <2>3
<1>27. ASSUME NEW c \in Ends, KeepCaller(c) PROVE TearsDownAlone'
  BY <1>27 DEF KeepCaller, EndTo
<1>28. ASSUME NEW c \in Ends, DeleteBridge(c) PROVE TearsDownAlone'
  BY <1>28 DEF DeleteBridge, DeleteFails, Mishap, EndTo
<1>29. ASSUME NEW c \in Ends, DeleteOther(c) PROVE TearsDownAlone'
  BY <1>29 DEF DeleteOther, DeleteFails, Mishap, EndTo
<1>30. ASSUME NEW c \in Ends, DeleteKeys(c) PROVE TearsDownAlone'
  BY <1>30 DEF DeleteKeys, EndTo, Resources
<1>31. ASSUME NEW t \in Attempts, StartTransfer(t) PROVE TearsDownAlone'
  BY <1>31 DEF StartTransfer, Mishap
<1>32. ASSUME NEW t \in Attempts, ReadAnswered(t) PROVE TearsDownAlone'
  BY <1>32 DEF ReadAnswered
<1>33. ASSUME NEW t \in Attempts, PublishAnswered(t) PROVE TearsDownAlone'
  BY <1>33 DEF PublishAnswered, Publish
<1>34. ASSUME NEW t \in Attempts, ReadDestroyed(t) PROVE TearsDownAlone'
  BY <1>34 DEF ReadDestroyed
<1>35. ASSUME NEW t \in Attempts, PublishFailed(t) PROVE TearsDownAlone'
  BY <1>35 DEF PublishFailed, Publish
<1>36. ASSUME NEW t \in Attempts, KeysExpire(t) PROVE TearsDownAlone'
  BY <1>36 DEF KeysExpire
<1>37. ASSUME NEW t \in Attempts, DestinationAnswers(t) PROVE TearsDownAlone'
  BY <1>37 DEF DestinationAnswers
<1>38. ASSUME NEW t \in Attempts, DestinationEnds(t) PROVE TearsDownAlone'
  BY <1>38 DEF DestinationEnds, Mishap
<1>39. CASE UNCHANGED vars
  BY <1>39 DEF vars
<1>40. QED
  BY <1>1, <1>2, <1>3, <1>4, <1>5, <1>6, <1>7, <1>8, <1>9, <1>10, <1>11, <1>12, <1>13, <1>14,
     <1>15, <1>16, <1>17, <1>18, <1>19, <1>20, <1>21, <1>22, <1>23, <1>24, <1>25, <1>26,
     <1>27, <1>28, <1>29, <1>30, <1>31, <1>32, <1>33, <1>34, <1>35, <1>36, <1>37, <1>38,
     <1>39, NextCases

LEMMA InvStep ==
  ASSUME Inv, [Next]_vars
  PROVE  Inv'
<1>1. Typed'
  BY TypedStep DEF Inv
<1>2. QED
  BY <1>1, EndedIsDownStep, BeginsStep, MarkedStep, EndedByPipelineStep, TearsDownAloneStep
     DEF Inv

-----------------------------------------------------------------------------
\* The bridge goes only where a StasisEnd tears down the call.
LEMMA StepKeepsCaller ==
  ASSUME Inv, [Next]_vars,
         bridge = "there", bridge' = "gone", caller = "up", members \cap Attempts # {}
  PROVE  "drop" \in mishaps
<1> USE DEF Inv, Typed, TypeOK, HandlerTypes, EndedIsDown, TearsDownAlone, Joined
<1>1. CASE AnswerInbound
  BY <1>1 DEF AnswerInbound, Mishap, CallerEnds
<1>2. CASE TrackCaller
  BY <1>2 DEF TrackCaller
<1>3. CASE CreateMedia
  BY <1>3 DEF CreateMedia, Mishap
<1>4. CASE TrackMedia
  BY <1>4 DEF TrackMedia
<1>5. CASE CreateBridge
  BY <1>5 DEF CreateBridge, Mishap
<1>6. CASE AddChannels
  BY <1>6 DEF AddChannels, Mishap
<1>7. CASE SaveResources
  BY <1>7 DEF SaveResources, Mishap
<1>8. CASE EndPipeline
  BY <1>8 DEF EndPipeline, Mishap, PipelineTo
<1>9. CASE HangUpCaller
  BY <1>9 DEF HangUpCaller, Mishap, CallerEnds, PipelineTo
<1>10. CASE FindContext
  BY <1>10 DEF FindContext, PipelineTo
<1>11. CASE CheckResources
  BY <1>11 DEF CheckResources
<1>12. CASE MarkTransfer
  BY <1>12 DEF MarkTransfer, PipelineTo, Mark
<1>13. CASE AddDestination
  BY <1>13 DEF AddDestination, Mishap, Joins
<1>14. CASE RemoveMedia
  BY <1>14 DEF RemoveMedia, Mishap, PipelineTo
<1>15. CASE ReleaseMedia
  BY <1>15 DEF ReleaseMedia, Mishap, MediaEnds, PipelineTo
<1>16. CASE ForgetContext
  BY <1>16 DEF ForgetContext, PipelineTo
<1>17. CASE CloseSocket
  BY <1>17 DEF CloseSocket, MediaEnds, PipelineTo
<1>18. CASE Originate
  BY <1>18 DEF Originate, Mishap
<1>19. CASE MapChannel
  BY <1>19 DEF MapChannel
<1>20. CASE UpdateContext
  BY <1>20 DEF UpdateContext
<1>21. CASE Subscribe
  BY <1>21 DEF Subscribe
<1>22. CASE Conclude
  BY <1>22 DEF Conclude
<1>23. CASE CallerHangsUp
  BY <1>23 DEF CallerHangsUp, CallerEnds
<1>24. CASE SocketBreaks
  BY <1>24 DEF SocketBreaks, Mishap, MediaEnds
<1>25. ASSUME NEW c \in Ends, LookUpKey(c) PROVE "drop" \in mishaps
  BY <1>25 DEF LookUpKey, Mishap, EndTo
<1>26. ASSUME NEW c \in Ends, ReadRun(c) PROVE "drop" \in mishaps
  BY <1>26 DEF ReadRun, Mishap, EndTo, KeepsCaller
<1>27. ASSUME NEW c \in Ends, KeepCaller(c) PROVE "drop" \in mishaps
  BY <1>27 DEF KeepCaller, EndTo
<1>28. ASSUME NEW c \in Ends, DeleteBridge(c) PROVE "drop" \in mishaps
  BY <1>28 DEF DeleteBridge, DeleteFails, Mishap, EndTo
<1>29. ASSUME NEW c \in Ends, DeleteOther(c) PROVE "drop" \in mishaps
  BY <1>29 DEF DeleteOther, DeleteFails, Mishap, EndTo
<1>30. ASSUME NEW c \in Ends, DeleteKeys(c) PROVE "drop" \in mishaps
  BY <1>30 DEF DeleteKeys, EndTo, Resources
<1>31. ASSUME NEW t \in Attempts, StartTransfer(t) PROVE "drop" \in mishaps
  BY <1>31 DEF StartTransfer, Mishap
<1>32. ASSUME NEW t \in Attempts, ReadAnswered(t) PROVE "drop" \in mishaps
  BY <1>32 DEF ReadAnswered
<1>33. ASSUME NEW t \in Attempts, PublishAnswered(t) PROVE "drop" \in mishaps
  BY <1>33 DEF PublishAnswered, Publish
<1>34. ASSUME NEW t \in Attempts, ReadDestroyed(t) PROVE "drop" \in mishaps
  BY <1>34 DEF ReadDestroyed
<1>35. ASSUME NEW t \in Attempts, PublishFailed(t) PROVE "drop" \in mishaps
  BY <1>35 DEF PublishFailed, Publish
<1>36. ASSUME NEW t \in Attempts, KeysExpire(t) PROVE "drop" \in mishaps
  BY <1>36 DEF KeysExpire
<1>37. ASSUME NEW t \in Attempts, DestinationAnswers(t) PROVE "drop" \in mishaps
  BY <1>37 DEF DestinationAnswers
<1>38. ASSUME NEW t \in Attempts, DestinationEnds(t) PROVE "drop" \in mishaps
  BY <1>38 DEF DestinationEnds, Mishap
<1>39. CASE UNCHANGED vars
  BY <1>39 DEF vars
<1>40. QED
  BY <1>1, <1>2, <1>3, <1>4, <1>5, <1>6, <1>7, <1>8, <1>9, <1>10, <1>11, <1>12, <1>13, <1>14,
     <1>15, <1>16, <1>17, <1>18, <1>19, <1>20, <1>21, <1>22, <1>23, <1>24, <1>25, <1>26,
     <1>27, <1>28, <1>29, <1>30, <1>31, <1>32, <1>33, <1>34, <1>35, <1>36, <1>37, <1>38,
     <1>39, NextCases


\* A transferred call is not torn down under the two who talk, unless the media
\* socket breaks.
THEOREM TransferStands == Spec => TransferKeepsCaller
<1>1. Inv /\ [Next]_vars =>
        [bridge = "there" /\ bridge' = "gone" /\ caller = "up" /\ members \cap Attempts # {}
           => "drop" \in mishaps]_vars
  BY StepKeepsCaller
<1>2. QED
  BY <1>1, InvInit, InvStep, PTL DEF Spec, TransferKeepsCaller

-----------------------------------------------------------------------------
(* When everybody is done with a call.                                      *)

\* No set-up, no pipeline and no StasisEnd is at work on the call any more.
AtRest ==
  /\ setup = "done"
  /\ pipeline \in {"none", "closed"}
  /\ \A c \in Ends : ending[c] \in {"none", "done"}

\* The safety half of EndedCallIsCleared: of a call whose caller is gone nothing is
\* left then.
NothingLeftBehind ==
  caller = "down" /\ AtRest =>
    \/ bridge # "there" /\ media # "up" /\ keys = {}
    \/ mishaps \cap {"lost", "db", "early", "media", "add", "delete"} # {}

\* The safety half of CallerIsServed: a caller who is still there talks then to the
\* destination.
CallerNotLeftAlone ==
  caller = "up" /\ pipeline = "closed" /\ AtRest =>
    \/ "caller" \in members /\ members \cap Attempts # {}
    \/ mishaps \cap {"lost", "db", "early", "leaves", "add", "join", "delete"} # {}
    \/ StaleContext

\* Tasks do not see the call as it is, or do not get it torn down: what both
\* halves excuse.
Blind == mishaps \cap {"lost", "db", "early", "add", "delete"} # {}

\* The set-up creates one thing after the other, and nobody takes any of it away
\* before it is through.
SetUpInOrder ==
  /\ setup # "done" => transfer = "none" /\ ending["media"] = "none"
  /\ setup \in {"trackMedia", "bridge", "add", "save"} => media = "up"
  /\ setup \in {"answer", "track"} => keys = {}
  /\ setup \in {"media", "trackMedia"} => "media" \notin keys
  /\ bridge # "none" => setup \in {"add", "save", "done"}
  /\ bridge = "there" /\ setup = "done" => saved
  /\ \A c \in Ends : known[c].saved => saved

\* A channel that is up has its key, and a StasisEnd deletes the keys after the
\* bridge and the other channel.
KeysLast ==
  /\ caller = "up" => ending["caller"] = "none" /\ ending["media"] # "keys"
  /\ caller = "up" /\ setup \notin {"answer", "track"} => "caller" \in keys
  /\ media = "up" /\ setup # "trackMedia" => "media" \in keys
  /\ media = "up" => pipeline \notin {"none", "closed"}
  /\ ending["caller"] = "keys" /\ known["caller"].saved => media # "up"
  /\ ending["caller"] \in {"other", "keys"} /\ known["caller"].saved => bridge # "there"
  /\ ending["media"] = "bridge" /\ bridge = "there" => known["media"].saved
  /\ ending["media"] \in {"other", "keys"} => bridge # "there"

Orderly == SetUpInOrder /\ KeysLast

\* What went wrong stays.
LEMMA MishapsStay ==
  ASSUME [Next]_vars
  PROVE  mishaps \subseteq mishaps'
<1>1. \A kind : Mishap(kind) => mishaps \subseteq mishaps'
  BY DEF Mishap
<1>2. CASE SetUp
  BY <1>1, <1>2 DEF SetUp, AnswerInbound, TrackCaller, CreateMedia, TrackMedia, CreateBridge,
         AddChannels, SaveResources
<1>3. CASE Pipeline
  BY <1>1, <1>3 DEF Pipeline, EndPipeline, HangUpCaller, FindContext, CheckResources,
         MarkTransfer, AddDestination, RemoveMedia, ReleaseMedia, ForgetContext, CloseSocket
<1>4. CASE Tool
  BY <1>1, <1>4 DEF Tool, Originate, MapChannel, UpdateContext, Subscribe, Conclude
<1>5. CASE CallerHangsUp \/ SocketBreaks
  BY <1>1, <1>5 DEF CallerHangsUp, SocketBreaks
<1>6. ASSUME NEW c \in Ends, StasisEnd(c) PROVE mishaps \subseteq mishaps'
  BY <1>1, <1>6 DEF StasisEnd, LookUpKey, ReadRun, KeepCaller, DeleteBridge, DeleteOther,
         DeleteFails, DeleteKeys
<1>7. ASSUME NEW t \in Attempts, DestinationEvent(t) \/ KeysExpire(t)
      PROVE  mishaps \subseteq mishaps'
  BY <1>7 DEF DestinationEvent, ReadAnswered, PublishAnswered, ReadDestroyed, PublishFailed,
         KeysExpire
<1>8. ASSUME NEW t \in Attempts, StartTransfer(t) \/ DestinationAnswers(t) \/ DestinationEnds(t)
      PROVE  mishaps \subseteq mishaps'
  BY <1>1, <1>8 DEF StartTransfer, DestinationAnswers, DestinationEnds
<1>9. CASE UNCHANGED vars
  BY <1>9 DEF vars
<1>10. QED
  BY <1>2, <1>3, <1>4, <1>5, <1>6, <1>7, <1>8, <1>9 DEF Next

\* The order of the set-up and of the StasisEnds.
LEMMA OrderlyStep ==
  ASSUME Inv, Orderly, [Next]_vars, ~Blind'
  PROVE  Orderly'
<1>1. "early" \notin mishaps /\ \A k \in {"lost", "db", "early", "add", "delete"} : ~Mishap(k)
  BY MishapsStay DEF Blind, Mishap
<1> USE DEF Inv, Typed, TypeOK, HandlerTypes, EndedIsDown, Begins, Orderly, SetUpInOrder,
            KeysLast
<1>2. CASE AnswerInbound
  BY <1>1, <1>2 DEF AnswerInbound, CallerEnds
<1>3. CASE TrackCaller
  BY <1>1, <1>3 DEF TrackCaller
<1>4. CASE CreateMedia
  BY <1>1, <1>4 DEF CreateMedia
<1>5. CASE TrackMedia
  BY <1>1, <1>5 DEF TrackMedia
<1>6. CASE CreateBridge
  BY <1>1, <1>6 DEF CreateBridge
<1>7. CASE AddChannels
  BY <1>1, <1>7 DEF AddChannels
<1>8. CASE SaveResources
  BY <1>1, <1>8 DEF SaveResources
<1>9. CASE EndPipeline
  BY <1>1, <1>9 DEF EndPipeline, PipelineTo
<1>10. CASE HangUpCaller
  BY <1>1, <1>10 DEF HangUpCaller, CallerEnds, PipelineTo
<1>11. CASE FindContext
  BY <1>1, <1>11 DEF FindContext, PipelineTo
<1>12. CASE CheckResources
  BY <1>1, <1>12 DEF CheckResources
<1>13. CASE MarkTransfer
  BY <1>1, <1>13 DEF MarkTransfer, PipelineTo, Mark
<1>14. CASE AddDestination
  BY <1>1, <1>14 DEF AddDestination, Joins
<1>15. CASE RemoveMedia
  BY <1>1, <1>15 DEF RemoveMedia, PipelineTo
<1>16. CASE ReleaseMedia
  BY <1>1, <1>16 DEF ReleaseMedia, MediaEnds, PipelineTo
<1>17. CASE ForgetContext
  BY <1>1, <1>17 DEF ForgetContext, PipelineTo
<1>18. CASE CloseSocket
  BY <1>1, <1>18 DEF CloseSocket, MediaEnds, PipelineTo
<1>19. CASE Originate
  BY <1>1, <1>19 DEF Originate
<1>20. CASE MapChannel
  BY <1>1, <1>20 DEF MapChannel
<1>21. CASE UpdateContext
  BY <1>1, <1>21 DEF UpdateContext
<1>22. CASE Subscribe
  BY <1>1, <1>22 DEF Subscribe
<1>23. CASE Conclude
  BY <1>1, <1>23 DEF Conclude
<1>24. CASE CallerHangsUp
  BY <1>1, <1>24 DEF CallerHangsUp, CallerEnds
<1>25. CASE SocketBreaks
  BY <1>1, <1>25 DEF SocketBreaks, MediaEnds
<1>26. ASSUME NEW c \in Ends, LookUpKey(c) PROVE Orderly'
  BY <1>1, <1>26 DEF LookUpKey, EndTo
<1>27. ASSUME NEW c \in Ends, ReadRun(c) PROVE Orderly'
  BY <1>1, <1>27 DEF ReadRun, EndTo, KeepsCaller
<1>28. ASSUME NEW c \in Ends, KeepCaller(c) PROVE Orderly'
  BY <1>1, <1>28 DEF KeepCaller, EndTo
<1>29. ASSUME NEW c \in Ends, DeleteBridge(c) PROVE Orderly'
  BY <1>1, <1>29 DEF DeleteBridge, DeleteFails, EndTo
<1>30. ASSUME NEW c \in Ends, DeleteOther(c) PROVE Orderly'
  BY <1>1, <1>30 DEF DeleteOther, DeleteFails, EndTo
<1>31. ASSUME NEW c \in Ends, DeleteKeys(c) PROVE Orderly'
  BY <1>1, <1>31 DEF DeleteKeys, EndTo, Resources
<1>32. ASSUME NEW t \in Attempts, StartTransfer(t) PROVE Orderly'
  BY <1>1, <1>32 DEF StartTransfer
<1>33. ASSUME NEW t \in Attempts, ReadAnswered(t) PROVE Orderly'
  BY <1>1, <1>33 DEF ReadAnswered
<1>34. ASSUME NEW t \in Attempts, PublishAnswered(t) PROVE Orderly'
  BY <1>1, <1>34 DEF PublishAnswered
<1>35. ASSUME NEW t \in Attempts, ReadDestroyed(t) PROVE Orderly'
  BY <1>1, <1>35 DEF ReadDestroyed
<1>36. ASSUME NEW t \in Attempts, PublishFailed(t) PROVE Orderly'
  BY <1>1, <1>36 DEF PublishFailed
<1>37. ASSUME NEW t \in Attempts, KeysExpire(t) PROVE Orderly'
  BY <1>1, <1>37 DEF KeysExpire
<1>38. ASSUME NEW t \in Attempts, DestinationAnswers(t) PROVE Orderly'
  BY <1>1, <1>38 DEF DestinationAnswers
<1>39. ASSUME NEW t \in Attempts, DestinationEnds(t) PROVE Orderly'
  BY <1>1, <1>39 DEF DestinationEnds
<1>40. CASE UNCHANGED vars
  BY <1>40 DEF vars
<1> HIDE DEF Typed, TypeOK, HandlerTypes, EndedIsDown, Begins, Orderly, SetUpInOrder,
             KeysLast
<1>41. QED
  BY <1>2, <1>3, <1>4, <1>5, <1>6, <1>7, <1>8, <1>9, <1>10, <1>11, <1>12, <1>13, <1>14, <1>15,
     <1>16, <1>17, <1>18, <1>19, <1>20, <1>21, <1>22, <1>23, <1>24, <1>25, <1>26, <1>27, <1>28,
     <1>29, <1>30, <1>31, <1>32, <1>33, <1>34, <1>35, <1>36, <1>37, <1>38, <1>39, <1>40,
     NextCases

\* There is or was a transfer: then the set-up was through before the caller went,
\* and the StasisEnd of the caller knows all there is.
TransferBegun ==
  \/ tool # "idle"
  \/ pipeline \in {"transfer", "check", "mark", "add", "remove", "release", "forget"}
  \/ transfer # "none"

\* The StasisEnd of a channel is yet to delete the bridge.
WillDelete(c) ==
  \/ ending[c] \in {"event", "read"} /\ c \in keys
  \/ ending[c] = "bridge" /\ known[c].saved

\* Somebody will delete a bridge that is there: the StasisEnd of the caller or,
\* where the caller may have gone too early, that of the media channel, which
\* leaves it alone only for a transfer.
BridgeHasOwner ==
  /\ TransferBegun => setup = "done"
  /\ bridge = "there" /\ setup = "done" =>
       \/ caller = "up" \/ WillDelete("caller")
       \/ ~TransferBegun /\ (media = "up" \/ WillDelete("media"))

\* The same of the keys.
KeysHaveOwners ==
  /\ "media" \in keys => media = "up" \/ ending["media"] \notin {"none", "done"}
  /\ "caller" \in keys /\ setup = "done" =>
       \/ caller = "up" \/ ending["caller"] \notin {"none", "done"}
       \/ /\ ~TransferBegun
          /\ \/ media = "up"
             \/ ending["media"] = "event" /\ "media" \in keys
             \/ ending["media"] \in {"read", "bridge", "other", "keys"}

Owned == BridgeHasOwner /\ KeysHaveOwners

\* From hand to hand.
LEMMA OwnedStep ==
  ASSUME Inv, Orderly, Owned, [Next]_vars, ~Blind', "media" \notin mishaps'
  PROVE  Owned'
<1>1. "early" \notin mishaps /\ \A k \in {"lost", "db", "early", "media", "add", "delete"} : ~Mishap(k)
  BY MishapsStay DEF Blind, Mishap
<1> USE DEF Inv, Typed, TypeOK, HandlerTypes, EndedIsDown, Begins, Orderly, SetUpInOrder,
            KeysLast, Owned, BridgeHasOwner, KeysHaveOwners, TransferBegun, WillDelete
<1>2. CASE AnswerInbound
  BY <1>1, <1>2 DEF AnswerInbound, CallerEnds
<1>3. CASE TrackCaller
  BY <1>1, <1>3 DEF TrackCaller
<1>4. CASE CreateMedia
  BY <1>1, <1>4 DEF CreateMedia
<1>5. CASE TrackMedia
  BY <1>1, <1>5 DEF TrackMedia
<1>6. CASE CreateBridge
  BY <1>1, <1>6 DEF CreateBridge
<1>7. CASE AddChannels
  BY <1>1, <1>7 DEF AddChannels
<1>8. CASE SaveResources
  BY <1>1, <1>8 DEF SaveResources
<1>9. CASE EndPipeline
  BY <1>1, <1>9 DEF EndPipeline, PipelineTo
<1>10. CASE HangUpCaller
  BY <1>1, <1>10 DEF HangUpCaller, CallerEnds, PipelineTo
<1>11. CASE FindContext
  BY <1>1, <1>11 DEF FindContext, PipelineTo
<1>12. CASE CheckResources
  BY <1>1, <1>12 DEF CheckResources
<1>13. CASE MarkTransfer
  BY <1>1, <1>13 DEF MarkTransfer, PipelineTo, Mark
<1>14. CASE AddDestination
  BY <1>1, <1>14 DEF AddDestination, Joins
<1>15. CASE RemoveMedia
  BY <1>1, <1>15 DEF RemoveMedia, PipelineTo
<1>16. CASE ReleaseMedia
  BY <1>1, <1>16 DEF ReleaseMedia, MediaEnds, PipelineTo
<1>17. CASE ForgetContext
  BY <1>1, <1>17 DEF ForgetContext, PipelineTo
<1>18. CASE CloseSocket
  BY <1>1, <1>18 DEF CloseSocket, MediaEnds, PipelineTo
<1>19. CASE Originate
  BY <1>1, <1>19 DEF Originate
<1>20. CASE MapChannel
  BY <1>1, <1>20 DEF MapChannel
<1>21. CASE UpdateContext
  BY <1>1, <1>21 DEF UpdateContext
<1>22. CASE Subscribe
  BY <1>1, <1>22 DEF Subscribe
<1>23. CASE Conclude
  BY <1>1, <1>23 DEF Conclude
<1>24. CASE CallerHangsUp
  BY <1>1, <1>24 DEF CallerHangsUp, CallerEnds
<1>25. CASE SocketBreaks
  BY <1>1, <1>25 DEF SocketBreaks, MediaEnds
<1>26. ASSUME NEW c \in Ends, LookUpKey(c) PROVE Owned'
  BY <1>1, <1>26 DEF LookUpKey, EndTo
<1>27. ASSUME NEW c \in Ends, ReadRun(c) PROVE Owned'
  BY <1>1, <1>27 DEF ReadRun, EndTo, KeepsCaller
<1>28. ASSUME NEW c \in Ends, KeepCaller(c) PROVE Owned'
  BY <1>1, <1>28 DEF KeepCaller, EndTo
<1>29. ASSUME NEW c \in Ends, DeleteBridge(c) PROVE Owned'
  BY <1>1, <1>29 DEF DeleteBridge, DeleteFails, EndTo
<1>30. ASSUME NEW c \in Ends, DeleteOther(c) PROVE Owned'
  BY <1>1, <1>30 DEF DeleteOther, DeleteFails, EndTo
<1>31. ASSUME NEW c \in Ends, DeleteKeys(c) PROVE Owned'
  BY <1>1, <1>31 DEF DeleteKeys, EndTo, Resources
<1>32. ASSUME NEW t \in Attempts, StartTransfer(t) PROVE Owned'
  BY <1>1, <1>32 DEF StartTransfer
<1>33. ASSUME NEW t \in Attempts, ReadAnswered(t) PROVE Owned'
  BY <1>1, <1>33 DEF ReadAnswered
<1>34. ASSUME NEW t \in Attempts, PublishAnswered(t) PROVE Owned'
  BY <1>1, <1>34 DEF PublishAnswered
<1>35. ASSUME NEW t \in Attempts, ReadDestroyed(t) PROVE Owned'
  BY <1>1, <1>35 DEF ReadDestroyed
<1>36. ASSUME NEW t \in Attempts, PublishFailed(t) PROVE Owned'
  BY <1>1, <1>36 DEF PublishFailed
<1>37. ASSUME NEW t \in Attempts, KeysExpire(t) PROVE Owned'
  BY <1>1, <1>37 DEF KeysExpire
<1>38. ASSUME NEW t \in Attempts, DestinationAnswers(t) PROVE Owned'
  BY <1>1, <1>38 DEF DestinationAnswers
<1>39. ASSUME NEW t \in Attempts, DestinationEnds(t) PROVE Owned'
  BY <1>1, <1>39 DEF DestinationEnds
<1>40. CASE UNCHANGED vars
  BY <1>40 DEF vars
<1> HIDE DEF Typed, TypeOK, HandlerTypes, EndedIsDown, Begins, Orderly, SetUpInOrder,
             KeysLast, Owned, BridgeHasOwner, KeysHaveOwners, TransferBegun, WillDelete
<1>41. QED
  BY <1>2, <1>3, <1>4, <1>5, <1>6, <1>7, <1>8, <1>9, <1>10, <1>11, <1>12, <1>13, <1>14, <1>15,
     <1>16, <1>17, <1>18, <1>19, <1>20, <1>21, <1>22, <1>23, <1>24, <1>25, <1>26, <1>27, <1>28,
     <1>29, <1>30, <1>31, <1>32, <1>33, <1>34, <1>35, <1>36, <1>37, <1>38, <1>39, <1>40,
     NextCases

\* Nothing is left of a call when everybody is done with it (NothingLeftBehind),
\* although the StasisEnd of the caller may be handled before the set-up is through
\* and each StasisEnd tears down only what it has read: fairness is all that
\* EndedCallIsCleared needs besides.  What it excuses is what the code leaves behind:
\* after a lost StasisEnd, a failed read or write of the run, a media channel that is
\* not created, a bridge whose id was never saved, and a DELETE that failed.
THEOREM CallsCleared == Spec => []NothingLeftBehind
<1> DEFINE Clear == Blind \/ "media" \in mishaps \/ Owned
           Order == Blind \/ Orderly
<1>1. Init => Order /\ Clear
  BY DEF Init, Orderly, SetUpInOrder, KeysLast, Owned, BridgeHasOwner, KeysHaveOwners,
         TransferBegun
<1>2. Inv /\ Order /\ [Next]_vars => Order'
  BY OrderlyStep, MishapsStay DEF Blind
<1>3. Inv /\ Order /\ Clear /\ [Next]_vars => Clear'
  BY OwnedStep, MishapsStay DEF Blind
<1>4. Inv /\ Order /\ Clear => NothingLeftBehind
  <2> SUFFICES ASSUME Orderly, Owned, caller = "down", AtRest, Inv
               PROVE  bridge # "there" /\ media # "up" /\ keys = {}
    BY DEF NothingLeftBehind, Blind
  <2>1. media # "up"
    BY DEF AtRest, Orderly, KeysLast
  <2>2. bridge # "there"
    BY <2>1 DEF AtRest, Owned, BridgeHasOwner, WillDelete
  <2>3. "media" \notin keys /\ "caller" \notin keys
    BY <2>1 DEF AtRest, Owned, KeysHaveOwners
  <2>4. keys \subseteq Ends
    BY DEF Inv, Typed, TypeOK, KeyTypes
  <2>5. QED
    BY <2>1, <2>2, <2>3, <2>4
<1>5. QED
  BY <1>1, <1>2, <1>3, <1>4, InvInit, InvStep, PTL DEF Spec

-----------------------------------------------------------------------------
(* The caller when everybody is done.                                       *)

\* A context that is out of date when it is found remains so.
LEMMA StaleStays ==
  ASSUME Inv, StaleContext, [Next]_vars
  PROVE  StaleContext'
<1> USE DEF Inv, Begins, StaleContext
<1>1. CASE SetUp
  BY <1>1 DEF SetUp, AnswerInbound, TrackCaller, CreateMedia, TrackMedia, CreateBridge, AddChannels,
         SaveResources
<1>2. CASE Pipeline
  BY <1>2 DEF Pipeline, EndPipeline, HangUpCaller, FindContext, CheckResources, MarkTransfer,
         AddDestination, RemoveMedia, ReleaseMedia, ForgetContext, CloseSocket, PipelineTo
<1>3. CASE Tool
  BY <1>3 DEF Tool, Originate, MapChannel, UpdateContext, Subscribe, Conclude
<1>4. CASE CallerHangsUp \/ SocketBreaks
  BY <1>4 DEF CallerHangsUp, SocketBreaks
<1>5. ASSUME NEW c \in Ends, StasisEnd(c) PROVE StaleContext'
  BY <1>5 DEF StasisEnd, LookUpKey, ReadRun, KeepCaller, DeleteBridge, DeleteOther, DeleteKeys
<1>6. ASSUME NEW t \in Attempts, DestinationEvent(t) \/ KeysExpire(t) PROVE StaleContext'
  BY <1>6 DEF DestinationEvent, ReadAnswered, PublishAnswered, ReadDestroyed, PublishFailed, KeysExpire
<1>7. ASSUME NEW t \in Attempts, StartTransfer(t) \/ DestinationAnswers(t) \/ DestinationEnds(t)
      PROVE  StaleContext'
  BY <1>7 DEF StartTransfer, DestinationAnswers, DestinationEnds
<1>8. CASE UNCHANGED vars
  BY <1>8 DEF vars
<1>9. QED
  BY <1>1, <1>2, <1>3, <1>4, <1>5, <1>6, <1>7, <1>8 DEF Next

\* An answer is that of a destination that is there.
AnswersAreTrue ==
  /\ \A t \in Attempts : answer[t] \in {"event", "publish"} \/ t \in members => dest[t] = "up"
  /\ tool = "originate" => dest[current] = "none"
  /\ tool \in {"originate", "map", "update", "subscribe"} => result = "none"
  /\ tool = "wait" /\ result = "answered" => dest[current] = "up"
  /\ pipeline \in {"transfer", "check", "mark", "add"} =>
       tool = "idle" /\ current \in Attempts /\ dest[current] = "up"

\* The destination is with the caller or about to be.
Meet == Joined \/ (pipeline = "add" /\ bridge = "there")

\* The StasisEnd of the media channel is yet to hang up the caller.
WillHangUp ==
  \/ ending["media"] = "event" /\ "media" \in keys
  \/ ending["media"] \in {"read", "bridge", "other"}

\* A caller without a pipeline is hung up or meets the destination; and only a swap
\* on a bridge that stays keeps the caller from being hung up.
CallerHasOwner ==
  /\ pipeline # "none" => media # "none"
  /\ saved \/ setup \in {"add", "save"} => bridge # "none"
  /\ caller = "up" /\ (saved \/ setup = "save") /\ bridge = "there" => "caller" \in members
  /\ caller = "up" /\ bridge = "gone" => ending["media"] = "other"
  /\ caller = "up" /\ transfer # "none" => Meet \/ ending["media"] = "other"
  /\ caller = "up" /\ media = "down" => Meet \/ WillHangUp

Served == AnswersAreTrue /\ CallerHasOwner

\* From answer to bridge.
LEMMA ServedStep ==
  ASSUME Inv, Orderly, Served, [Next]_vars, ~Blind', "leaves" \notin mishaps',
         "join" \notin mishaps', ~StaleContext'
  PROVE  Served'
<1>1. "early" \notin mishaps /\ \A k \in {"lost", "db", "early", "leaves", "add", "join", "delete"} : ~Mishap(k)
  BY MishapsStay DEF Blind, Mishap
<1> USE AttemptAssumption
<1> USE DEF Inv, Typed, TypeOK, HandlerTypes, PipelineTypes, ChannelTypes, Working, EndedIsDown,
            Begins, Marked, Joined, Orderly, SetUpInOrder, KeysLast, Served, AnswersAreTrue,
            CallerHasOwner, Meet, WillHangUp, StaleContext
<1>2. CASE AnswerInbound
  BY <1>1, <1>2 DEF AnswerInbound, CallerEnds
<1>3. CASE TrackCaller
  BY <1>1, <1>3 DEF TrackCaller
<1>4. CASE CreateMedia
  BY <1>1, <1>4 DEF CreateMedia
<1>5. CASE TrackMedia
  BY <1>1, <1>5 DEF TrackMedia
<1>6. CASE CreateBridge
  BY <1>1, <1>6 DEF CreateBridge
<1>7. CASE AddChannels
  BY <1>1, <1>7 DEF AddChannels
<1>8. CASE SaveResources
  BY <1>1, <1>8 DEF SaveResources
<1>9. CASE EndPipeline
  BY <1>1, <1>9 DEF EndPipeline, PipelineTo
<1>10. CASE HangUpCaller
  BY <1>1, <1>10 DEF HangUpCaller, CallerEnds, PipelineTo
<1>11. CASE FindContext
  BY <1>1, <1>11 DEF FindContext, PipelineTo
<1>12. CASE CheckResources
  BY <1>1, <1>12 DEF CheckResources
<1>13. CASE MarkTransfer
  BY <1>1, <1>13 DEF MarkTransfer, PipelineTo, Mark
<1>14. CASE AddDestination
  BY <1>1, <1>14 DEF AddDestination, Joins
<1>15. CASE RemoveMedia
  BY <1>1, <1>15 DEF RemoveMedia, PipelineTo
<1>16. CASE ReleaseMedia
  BY <1>1, <1>16 DEF ReleaseMedia, MediaEnds, PipelineTo
<1>17. CASE ForgetContext
  BY <1>1, <1>17 DEF ForgetContext, PipelineTo
<1>18. CASE CloseSocket
  BY <1>1, <1>18 DEF CloseSocket, MediaEnds, PipelineTo
<1>19. CASE Originate
  BY <1>1, <1>19 DEF Originate
<1>20. CASE MapChannel
  BY <1>1, <1>20 DEF MapChannel
<1>21. CASE UpdateContext
  BY <1>1, <1>21 DEF UpdateContext
<1>22. CASE Subscribe
  BY <1>1, <1>22 DEF Subscribe
<1>23. CASE Conclude
  BY <1>1, <1>23 DEF Conclude
<1>24. CASE CallerHangsUp
  BY <1>1, <1>24 DEF CallerHangsUp, CallerEnds
<1>25. CASE SocketBreaks
  BY <1>1, <1>25 DEF SocketBreaks, MediaEnds
<1>26. ASSUME NEW c \in Ends, LookUpKey(c) PROVE Served'
  BY <1>1, <1>26 DEF LookUpKey, EndTo
<1>27. ASSUME NEW c \in Ends, ReadRun(c) PROVE Served'
  BY <1>1, <1>27 DEF ReadRun, EndTo, KeepsCaller
<1>28. ASSUME NEW c \in Ends, KeepCaller(c) PROVE Served'
  BY <1>1, <1>28 DEF KeepCaller, EndTo
<1>29. ASSUME NEW c \in Ends, DeleteBridge(c) PROVE Served'
  BY <1>1, <1>29 DEF DeleteBridge, DeleteFails, EndTo
<1>30. ASSUME NEW c \in Ends, DeleteOther(c) PROVE Served'
  BY <1>1, <1>30 DEF DeleteOther, DeleteFails, EndTo
<1>31. ASSUME NEW c \in Ends, DeleteKeys(c) PROVE Served'
  BY <1>1, <1>31 DEF DeleteKeys, EndTo, Resources
<1>32. ASSUME NEW t \in Attempts, StartTransfer(t) PROVE Served'
  BY <1>1, <1>32 DEF StartTransfer, Begun
<1>33. ASSUME NEW t \in Attempts, ReadAnswered(t) PROVE Served'
  BY <1>1, <1>33 DEF ReadAnswered
<1>34. ASSUME NEW t \in Attempts, PublishAnswered(t) PROVE Served'
  BY <1>1, <1>34 DEF PublishAnswered, Publish
<1>35. ASSUME NEW t \in Attempts, ReadDestroyed(t) PROVE Served'
  BY <1>1, <1>35 DEF ReadDestroyed
<1>36. ASSUME NEW t \in Attempts, PublishFailed(t) PROVE Served'
  BY <1>1, <1>36 DEF PublishFailed, Publish
<1>37. ASSUME NEW t \in Attempts, KeysExpire(t) PROVE Served'
  BY <1>1, <1>37 DEF KeysExpire
<1>38. ASSUME NEW t \in Attempts, DestinationAnswers(t) PROVE Served'
  BY <1>1, <1>38 DEF DestinationAnswers
<1>39. ASSUME NEW t \in Attempts, DestinationEnds(t) PROVE Served'
  BY <1>1, <1>39 DEF DestinationEnds
<1>40. CASE UNCHANGED vars
  BY <1>40 DEF vars
<1> HIDE DEF Typed, TypeOK, HandlerTypes, EndedIsDown, Begins, Orderly, SetUpInOrder,
             KeysLast, Served, AnswersAreTrue, CallerHasOwner, Meet, WillHangUp, StaleContext
<1>41. QED
  BY <1>2, <1>3, <1>4, <1>5, <1>6, <1>7, <1>8, <1>9, <1>10, <1>11, <1>12, <1>13, <1>14, <1>15,
     <1>16, <1>17, <1>18, <1>19, <1>20, <1>21, <1>22, <1>23, <1>24, <1>25, <1>26, <1>27, <1>28,
     <1>29, <1>30, <1>31, <1>32, <1>33, <1>34, <1>35, <1>36, <1>37, <1>38, <1>39, <1>40,
     NextCases

\* A caller whose pipeline has ended and who was not hung up talks to the
\* destination when everybody is done (CallerNotLeftAlone): whichever way the swap
\* and the StasisEnd of the media channel pass each other, for any number of
\* attempts.  What it excuses are the callers the code leaves alone: a destination
\* that is not added to the bridge (it has left, the request has failed, or it is of
\* an earlier attempt), and a set-up or a StasisEnd that is not done.
THEOREM CallersServed == Spec => []CallerNotLeftAlone
<1> DEFINE Serve == Blind \/ "leaves" \in mishaps \/ "join" \in mishaps \/ StaleContext \/ Served
           Order == Blind \/ Orderly
<1>1. Init => Order /\ Serve
  BY AttemptAssumption
     DEF Init, Orderly, SetUpInOrder, KeysLast, Served, AnswersAreTrue, CallerHasOwner
<1>2. Inv /\ Order /\ [Next]_vars => Order'
  BY OrderlyStep, MishapsStay DEF Blind
<1>3. Inv /\ Order /\ Serve /\ [Next]_vars => Serve'
  BY ServedStep, StaleStays, MishapsStay DEF Blind
<1>4. Inv /\ Order /\ Serve => CallerNotLeftAlone
  <2> SUFFICES ASSUME Inv, Orderly, Served, caller = "up", pipeline = "closed", AtRest
               PROVE  "caller" \in members /\ Joined
    BY DEF CallerNotLeftAlone, Blind, Joined
  <2>1. media = "down"
    BY DEF Inv, Typed, TypeOK, ChannelTypes, Served, CallerHasOwner, Orderly, KeysLast
  <2>2. ~WillHangUp /\ ending["media"] # "other"
    BY DEF AtRest, WillHangUp
  <2>3. Joined
    BY <2>1, <2>2 DEF Served, CallerHasOwner, Meet
  <2>4. saved /\ bridge = "there"
    BY <2>2, <2>3 DEF Inv, Typed, TypeOK, ChannelTypes, Marked, Served, CallerHasOwner
  <2>5. QED
    BY <2>3, <2>4 DEF Served, CallerHasOwner
<1>5. QED
  BY <1>1, <1>2, <1>3, <1>4, InvInit, InvStep, PTL DEF Spec
=============================================================================
