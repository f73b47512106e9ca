---------------------------- MODULE CallTransfer ----------------------------
(***************************************************************************)
(* One call on Asterisk, from StasisStart to the last StasisEnd, and its   *)
(* transfers to a human.  Four processes work on it: the ARI manager,      *)
(* where every event gets a task of its own; the pipeline with the         *)
(* transfer tool and, at its end, the bridge swap; Asterisk with the       *)
(* channels and the bridge; and the two parties.  They share the           *)
(* gathered_context of the workflow run and a few keys in Redis, and the   *)
(* answer of the destination reaches the tool over Redis pub/sub.          *)
(*                                                                         *)
(* A transfer attempt and the channel of its destination have one name.    *)
(***************************************************************************)
EXTENDS Integers, FiniteSets

CONSTANTS
  Attempts,   \* calls of the transfer tool
  NoAttempt,
  Faults,     \* what may go wrong in a run, a subset of AllFaults
  MaxMishaps  \* bound on how much of it does, see Load

\* refuse: an inbound call is turned away, or the destination cannot be called
\* media:  the external media channel is not created
\* bridge: the bridge is not created
\* early:  the pipeline ends, starts a transfer or loses its socket before the
\*         call is set up, or starts a transfer after the caller has gone
\* drop:   the media socket breaks later
\* lost:   a StasisEnd while the websocket to Asterisk is down
\* db:     reading or writing the workflow run raises
\* leaves: the destination hangs up first
\* add:    the channels are not added to the bridge that was created for them
\* hangup: the hang-up at the end of the pipeline fails
\* join:   the destination is not added to the bridge, though both are there
\* swap:   the media channel is not removed or hung up by the swap
\* delete: a StasisEnd does not get the bridge or the other channel deleted
\*
\* A request to Asterisk fails in one of two ways: its answer, logged and passed
\* over, or an exception, after which the rest of the task is not done.
AllFaults == {"refuse", "media", "bridge", "early", "drop", "lost", "db", "leaves",
              "add", "hangup", "join", "swap", "delete"}

ASSUME AttemptAssumption == NoAttempt \notin Attempts /\ {"caller", "media"} \cap Attempts = {}
ASSUME FaultAssumption == Faults \subseteq AllFaults /\ MaxMishaps \in Nat

VARIABLES
  caller,    \* the caller's channel
  media,     \* the external media channel, whose other end is the pipeline
  dest,      \* the channels of the destinations
  bridge,    \* the bridge of the call
  members,   \* the channels in it
  saved,     \* gathered_context has the ids of the bridge and the media channel
  transfer,  \* gathered_context["transfer_state"]
  keys,      \* channels with an ari:channel key
  setup,     \* where _handle_stasis_start stands
  ending,    \* where the StasisEnd of a channel stands
  known,     \* [saved, transfer] as the StasisEnd task read them
  pipeline,  \* the pipeline and, at its end, the swap
  found,     \* the attempt whose context the swap has found
  tool,      \* where the transfer tool stands
  current,   \* its attempt
  result,    \* the event that has reached it
  contexts,  \* transfer:context keys: none, blank (no destination channel yet), full
  mapped,    \* attempts with an ari:transfer_channel key
  answer,    \* where _handle_destination_answered stands
  failure,   \* where _handle_transfer_failed stands
  mishaps    \* what has gone wrong

channels == <<caller, media, dest, bridge, members>>
runVars == <<saved, transfer, keys>>
endVars == <<ending, known>>
pipeVars == <<pipeline, found>>
toolVars == <<tool, current, result>>
redisVars == <<contexts, mapped>>
eventVars == <<answer, failure>>
vars == <<channels, runVars, setup, endVars, pipeVars, toolVars, redisVars, eventVars, mishaps>>

Ends == {"caller", "media"}
TransferStates == {"none", "in-progress", "complete"}

ChannelTypes ==
  /\ caller \in {"up", "down"} /\ media \in {"none", "up", "down"}
  /\ dest \in [Attempts -> {"none", "ringing", "up", "down"}]
  /\ bridge \in {"none", "there", "gone"}
  /\ members \subseteq Ends \cup Attempts

KeyTypes ==
  /\ saved \in BOOLEAN /\ transfer \in TransferStates
  /\ keys \subseteq Ends
  /\ contexts \in [Attempts -> {"none", "blank", "full"}]
  /\ mapped \subseteq Attempts

HandlerTypes ==
  /\ setup \in {"answer", "track", "media", "trackMedia", "bridge", "add", "save", "done"}
  /\ ending \in [Ends -> {"none", "event", "read", "keep", "bridge", "other", "keys", "done"}]
  /\ known \in [Ends -> [saved : BOOLEAN, transfer : TransferStates]]
  /\ answer \in [Attempts -> {"none", "event", "publish", "done"}]
  /\ failure \in [Attempts -> {"none", "event", "publish", "done"}]

PipelineTypes ==
  /\ pipeline \in {"none", "talking", "hangup", "transfer", "check", "mark", "add", "remove",
                   "release", "forget", "close", "closed"}
  /\ tool \in {"idle", "originate", "map", "update", "subscribe", "wait"}
  /\ found \in Attempts \cup {NoAttempt} /\ current \in Attempts \cup {NoAttempt}
  /\ result \in {"none", "answered", "failed"}

TypeOK ==
  ChannelTypes /\ KeyTypes /\ HandlerTypes /\ PipelineTypes /\ mishaps \subseteq Faults

\* StasisStart has come: of an inbound call, which is checked and answered
\* first, or of one the provider has originated.
Init ==
  /\ caller = "up" /\ media = "none"
  /\ dest = [t \in Attempts |-> "none"]
  /\ bridge = "none" /\ members = {}
  /\ saved = FALSE /\ transfer = "none" /\ keys = {}
  /\ setup \in {"answer", "track"}
  /\ ending = [c \in Ends |-> "none"]
  /\ known = [c \in Ends |-> [saved |-> FALSE, transfer |-> "none"]]
  /\ pipeline = "none" /\ found = NoAttempt
  /\ tool = "idle" /\ current = NoAttempt /\ result = "none"
  /\ contexts = [t \in Attempts |-> "none"] /\ mapped = {}
  /\ answer = [t \in Attempts |-> "none"] /\ failure = [t \in Attempts |-> "none"]
  /\ mishaps = {}

\* The bound: every kind of mishap happens once, and an attempt after the first
\* counts for two of them.
Begun == {t \in Attempts : dest[t] # "none" \/ contexts[t] # "none"}
Load == Cardinality(mishaps) + (IF Begun = {} THEN 0 ELSE 2 * (Cardinality(Begun) - 1))

Mishap(kind) ==
  /\ kind \in Faults \ mishaps
  /\ Load < MaxMishaps
  /\ mishaps' = mishaps \cup {kind}

-----------------------------------------------------------------------------
(* Asterisk: a channel that ends leaves the bridge and fires StasisEnd.     *)

CallerEnds ==
  /\ caller' = "down"
  /\ members' = members \ {"caller"}
  /\ ending' = IF caller = "up" THEN [ending EXCEPT !["caller"] = "event"] ELSE ending

\* The pipeline hears of the end of its socket only while it does not end itself.
MediaEnds ==
  /\ media' = "down"
  /\ members' = members \ {"media"}
  /\ ending' = IF media = "up" THEN [ending EXCEPT !["media"] = "event"] ELSE ending

CallerHangsUp ==
  /\ caller = "up"
  /\ CallerEnds
  /\ UNCHANGED <<media, dest, bridge, runVars, setup, known, pipeVars, toolVars, redisVars,
                 eventVars, mishaps>>

\* on_client_disconnected: a CancelFrame, and no hangup over a closed socket.
SocketBreaks ==
  /\ media = "up"
  /\ Mishap(IF setup = "done" THEN "drop" ELSE "early")
  /\ MediaEnds
  /\ pipeline' = IF pipeline = "talking" THEN "closed" ELSE pipeline
  /\ UNCHANGED <<caller, dest, bridge, runVars, setup, known, found, toolVars, redisVars, eventVars>>

DestinationAnswers(t) ==
  /\ dest[t] = "ringing"
  /\ dest' = [dest EXCEPT ![t] = "up"]
  /\ answer' = [answer EXCEPT ![t] = "event"]
  /\ UNCHANGED <<caller, media, bridge, members, runVars, setup, endVars, pipeVars, toolVars,
                 redisVars, failure, mishaps>>

\* Busy, declined, not answered in time; or it hangs up, talking or not.
DestinationEnds(t) ==
  /\ \/ dest[t] = "ringing" /\ UNCHANGED mishaps
     \/ dest[t] = "up" /\ Mishap("leaves")
  /\ dest' = [dest EXCEPT ![t] = "down"]
  /\ members' = members \ {t}
  /\ failure' = [failure EXCEPT ![t] = "event"]
  /\ UNCHANGED <<caller, media, bridge, runVars, setup, endVars, pipeVars, toolVars, redisVars, answer>>

-----------------------------------------------------------------------------
(* _handle_inbound_stasis_start and _handle_stasis_start.                   *)

outsideSetup == <<transfer, endVars, found, toolVars, redisVars, eventVars>>

AnswerInbound ==
  /\ setup = "answer"
  /\ \/ /\ setup' = "track"
        /\ UNCHANGED <<caller, members, endVars, mishaps>>
     \/ /\ Mishap("refuse")
        /\ setup' = "done"
        /\ CallerEnds
        /\ UNCHANGED known
  /\ UNCHANGED <<media, dest, bridge, runVars, pipeVars, toolVars, redisVars, eventVars>>

TrackCaller ==
  /\ setup = "track"
  /\ setup' = "media"
  /\ keys' = keys \cup {"caller"}
  /\ UNCHANGED <<channels, saved, pipeline, mishaps, outsideSetup>>

\* Asterisk connects the new channel to the backend, which starts a pipeline.
CreateMedia ==
  /\ setup = "media"
  /\ \/ /\ setup' = "trackMedia"
        /\ media' = "up" /\ pipeline' = "talking"
        /\ UNCHANGED mishaps
     \/ /\ Mishap("media")
        /\ setup' = "done"
        /\ UNCHANGED <<media, pipeline>>
  /\ UNCHANGED <<caller, dest, bridge, members, saved, keys, outsideSetup>>

TrackMedia ==
  /\ setup = "trackMedia"
  /\ setup' = "bridge"
  /\ keys' = keys \cup {"media"}
  /\ UNCHANGED <<channels, saved, pipeline, mishaps, outsideSetup>>

CreateBridge ==
  /\ setup = "bridge"
  /\ \/ setup' = "add" /\ bridge' = "there" /\ UNCHANGED mishaps
     \/ setup' = "done" /\ Mishap("bridge") /\ UNCHANGED bridge
  /\ UNCHANGED <<caller, media, dest, members, saved, keys, pipeline, outsideSetup>>

\* Asterisk refuses when one of the two is gone; the answer is not looked at.  After
\* an exception nobody learns the id of the bridge.
AddChannels ==
  /\ setup = "add"
  /\ \/ /\ setup' = "save"
        /\ members' = IF caller = "up" /\ media = "up" THEN Ends ELSE members
        /\ UNCHANGED mishaps
     \/ setup' \in {"save", "done"} /\ Mishap("add") /\ UNCHANGED members
  /\ UNCHANGED <<caller, media, dest, bridge, saved, keys, pipeline, outsideSetup>>

SaveResources ==
  /\ setup = "save"
  /\ setup' = "done"
  /\ \/ saved' = TRUE /\ UNCHANGED mishaps
     \/ Mishap("db") /\ UNCHANGED saved
  /\ UNCHANGED <<channels, keys, pipeline, outsideSetup>>

SetUp ==
  \/ AnswerInbound
  \/ TrackCaller
  \/ CreateMedia
  \/ TrackMedia
  \/ CreateBridge
  \/ AddChannels
  \/ SaveResources

-----------------------------------------------------------------------------
(* StasisEnd of the caller or the media channel, each in a task of its own. *)
(* As in CallSlots, a definition named Slip... is the one that follows it   *)
(* with a plausible mistake.                                                *)

outsideEnd == <<dest, setup, found, toolVars, redisVars, eventVars>>

EndTo(c, from, to) ==
  /\ ending[c] = from
  /\ ending' = [ending EXCEPT ![c] = to]

\* A channel without a key is none of ours; the event may not come at all.
LookUpKey(c) ==
  /\ \/ c \in keys /\ EndTo(c, "event", "read") /\ UNCHANGED mishaps
     \/ c \notin keys /\ EndTo(c, "event", "done") /\ UNCHANGED mishaps
     \/ EndTo(c, "event", "done") /\ Mishap("lost")
  /\ UNCHANGED <<channels, runVars, known, pipeline, outsideEnd>>

\* The media channel of a call that is being transferred ends alone.
SlipKeepsCaller(c) == c = "media" /\ saved /\ transfer = "complete"
KeepsCaller(c) == c = "media" /\ saved /\ transfer = "in-progress"

ReadRun(c) ==
  /\ \/ /\ EndTo(c, "read", IF KeepsCaller(c) THEN "keep" ELSE "bridge")
        /\ known' = [known EXCEPT ![c] = [saved |-> saved, transfer |-> transfer]]
        /\ UNCHANGED mishaps
     \/ EndTo(c, "read", "done") /\ Mishap("db") /\ UNCHANGED known
  /\ UNCHANGED <<channels, runVars, pipeline, outsideEnd>>

KeepCaller(c) ==
  /\ EndTo(c, "keep", "done")
  /\ transfer' = "complete"
  /\ keys' = keys \ {c}
  /\ UNCHANGED <<channels, saved, known, pipeline, mishaps, outsideEnd>>

\* The next step, or the end of the task: a request has failed.
DeleteFails(c, from, to) == Mishap("delete") /\ (EndTo(c, from, to) \/ EndTo(c, from, "done"))

\* Everything else is torn down: the bridge, the other channel, the keys; of
\* the media channel and the bridge only what the run had when it was read.
DeleteBridge(c) ==
  /\ \/ /\ EndTo(c, "bridge", "other")
        /\ IF known[c].saved /\ bridge = "there"
             THEN bridge' = "gone" /\ members' = {}
             ELSE UNCHANGED <<bridge, members>>
        /\ UNCHANGED mishaps
     \/ /\ known[c].saved /\ DeleteFails(c, "bridge", "other")
        /\ UNCHANGED <<bridge, members>>
  /\ UNCHANGED <<caller, media, runVars, known, pipeline, outsideEnd>>

DeleteOther(c) ==
  /\ ending[c] = "other"
  /\ \/ /\ c = "caller" /\ known[c].saved /\ media = "up"
        /\ media' = "down" /\ members' = members \ {"media"}
        /\ ending' = [ending EXCEPT !["caller"] = "keys", !["media"] = "event"]
        /\ pipeline' = IF pipeline = "talking" THEN "closed" ELSE pipeline
        /\ UNCHANGED <<caller, mishaps>>
     \/ /\ c = "media" /\ caller = "up"
        /\ caller' = "down" /\ members' = members \ {"caller"}
        /\ ending' = [ending EXCEPT !["media"] = "keys", !["caller"] = "event"]
        /\ UNCHANGED <<media, pipeline, mishaps>>
     \/ /\ (c = "caller" /\ ~(known[c].saved /\ media = "up")) \/ (c = "media" /\ caller = "down")
        /\ ending' = [ending EXCEPT ![c] = "keys"]
        /\ UNCHANGED <<caller, media, members, pipeline, mishaps>>
     \/ /\ c = "media" \/ known[c].saved
        /\ DeleteFails(c, "other", "keys")
        /\ UNCHANGED <<caller, media, members, pipeline>>
  /\ UNCHANGED <<bridge, runVars, known, outsideEnd>>

Resources(c) == {c, "caller"} \cup (IF known[c].saved THEN {"media"} ELSE {})

DeleteKeys(c) ==
  /\ EndTo(c, "keys", "done")
  /\ keys' = keys \ Resources(c)
  /\ UNCHANGED <<channels, saved, transfer, known, pipeline, mishaps, outsideEnd>>

StasisEnd(c) ==
  \/ LookUpKey(c)
  \/ ReadRun(c)
  \/ KeepCaller(c)
  \/ DeleteBridge(c)
  \/ DeleteOther(c)
  \/ DeleteKeys(c)

-----------------------------------------------------------------------------
(* The transfer tool.                                                       *)

outsideTool == <<caller, media, bridge, members, runVars, setup, endVars, found>>

\* An attempt has a new name (uuid4), it does not matter which.
Fresh == CHOOSE t \in Attempts : t \notin Begun

\* The context is stored first; it names no destination channel yet.
StartTransfer(t) ==
  /\ pipeline = "talking" /\ tool = "idle"
  /\ IF setup = "done" /\ caller = "up" THEN UNCHANGED mishaps ELSE Mishap("early")
  /\ t \notin Begun /\ t = Fresh
  /\ Begun = {} \/ Load + 2 =< MaxMishaps
  /\ tool' = "originate" /\ current' = t /\ result' = "none"
  /\ contexts' = [contexts EXCEPT ![t] = "blank"]
  /\ UNCHANGED <<dest, pipeline, mapped, eventVars, outsideTool>>

\* POST /channels; when it fails the context is removed and the model told so.
Originate ==
  /\ tool = "originate"
  /\ \/ /\ tool' = "map"
        /\ dest' = [dest EXCEPT ![current] = "ringing"]
        /\ UNCHANGED <<contexts, mishaps>>
     \/ /\ Mishap("refuse")
        /\ tool' = "idle"
        /\ dest' = [dest EXCEPT ![current] = "down"]
        /\ contexts' = [contexts EXCEPT ![current] = "none"]
  /\ UNCHANGED <<pipeline, current, result, mapped, eventVars, outsideTool>>

MapChannel ==
  /\ tool = "map"
  /\ tool' = "update"
  /\ mapped' = mapped \cup {current}
  /\ UNCHANGED <<dest, pipeline, current, result, contexts, eventVars, mishaps, outsideTool>>

UpdateContext ==
  /\ tool = "update"
  /\ tool' = "subscribe"
  /\ contexts' = [contexts EXCEPT ![current] = "full"]
  /\ UNCHANGED <<dest, pipeline, current, result, mapped, eventVars, mishaps, outsideTool>>

\* wait_for_transfer_completion: what was published before is not heard.
Subscribe ==
  /\ tool = "subscribe"
  /\ tool' = "wait"
  /\ UNCHANGED <<dest, pipeline, current, result, redisVars, eventVars, mishaps, outsideTool>>

\* Answered: the pipeline ends for the transfer, unless the call is over.
\* Failed, or nothing heard in time: the model is told, and the call goes on.
Conclude ==
  /\ tool = "wait"
  /\ tool' = "idle"
  /\ pipeline' = IF result = "answered" /\ pipeline = "talking" THEN "transfer" ELSE pipeline
  /\ UNCHANGED <<dest, current, result, redisVars, eventVars, mishaps, outsideTool>>

Tool ==
  \/ Originate
  \/ MapChannel
  \/ UpdateContext
  \/ Subscribe
  \/ Conclude

-----------------------------------------------------------------------------
(* Events of a destination, in the ARI manager.                             *)

outsideEvents == <<channels, runVars, setup, endVars, pipeVars, tool, current, contexts, mishaps>>

Publish(t, kind) ==
  result' = IF tool = "wait" /\ current = t /\ result = "none" THEN kind ELSE result

ReadAnswered(t) ==
  /\ answer[t] = "event"
  /\ mapped' = mapped \cup {t}
  /\ answer' = [answer EXCEPT ![t] = IF contexts[t] = "none" THEN "done" ELSE "publish"]
  /\ UNCHANGED <<result, failure, outsideEvents>>

PublishAnswered(t) ==
  /\ answer[t] = "publish"
  /\ answer' = [answer EXCEPT ![t] = "done"]
  /\ Publish(t, "answered")
  /\ UNCHANGED <<mapped, failure, outsideEvents>>

\* ChannelDestroyed: only a mapped channel is known to be a destination.
ReadDestroyed(t) ==
  /\ failure[t] = "event"
  /\ failure' = [failure EXCEPT ![t] = IF t \in mapped THEN "publish" ELSE "done"]
  /\ UNCHANGED <<result, mapped, answer, outsideEvents>>

PublishFailed(t) ==
  /\ failure[t] = "publish"
  /\ failure' = [failure EXCEPT ![t] = "done"]
  /\ Publish(t, "failed")
  /\ UNCHANGED <<mapped, answer, outsideEvents>>

DestinationEvent(t) ==
  \/ ReadAnswered(t)
  \/ PublishAnswered(t)
  \/ ReadDestroyed(t)
  \/ PublishFailed(t)

\* The five minutes of the context and of the mapping: longer than any tool call,
\* and after the pipeline nobody waits for what they are read for.
KeysExpire(t) ==
  /\ tool = "idle" /\ pipeline = "talking"
  /\ contexts[t] # "none" \/ t \in mapped
  /\ contexts' = [contexts EXCEPT ![t] = "none"]
  /\ mapped' = mapped \ {t}
  /\ UNCHANGED <<channels, runVars, setup, endVars, pipeVars, toolVars, eventVars, mishaps>>

-----------------------------------------------------------------------------
(* The end of the pipeline.                                                 *)

outsidePipeline == <<setup, known, toolVars, eventVars>>

PipelineTo(from, to) ==
  /\ pipeline = from
  /\ pipeline' = to

\* Any reason but a transfer: the end of the conversation, idleness, the
\* longest duration.
EndPipeline ==
  /\ PipelineTo("talking", "hangup")
  /\ IF setup = "done" THEN UNCHANGED mishaps ELSE Mishap("early")
  /\ UNCHANGED <<channels, runVars, ending, found, redisVars, outsidePipeline>>

\* ARIHangupStrategy; nobody looks at its result.
HangUpCaller ==
  /\ PipelineTo("hangup", "close")
  /\ \/ media = "up" /\ CallerEnds /\ UNCHANGED mishaps
     \/ media # "up" /\ UNCHANGED <<caller, members, ending, mishaps>>
     \/ media = "up" /\ Mishap("hangup") /\ UNCHANGED <<caller, members, ending>>
  /\ UNCHANGED <<media, dest, bridge, runVars, found, redisVars, outsidePipeline>>

\* The first context with this caller, whatever attempt it is of.
FindContext ==
  /\ \/ /\ media # "up" \/ \A t \in Attempts : contexts[t] = "none"
        /\ PipelineTo("transfer", "close")
        /\ UNCHANGED found
     \/ /\ media = "up"
        /\ \E t \in Attempts : contexts[t] # "none" /\ found' = t
        /\ PipelineTo("transfer", "check")
  /\ UNCHANGED <<channels, runVars, ending, redisVars, mishaps, outsidePipeline>>

\* The run, through the key of the caller, and the channels in it.
CheckResources ==
  /\ pipeline = "check"
  /\ pipeline' = IF "caller" \in keys /\ saved /\ contexts[found] = "full" THEN "mark" ELSE "close"
  /\ UNCHANGED <<channels, runVars, ending, found, redisVars, mishaps, outsidePipeline>>

SlipMark == "in_progress"
Mark == "in-progress"

MarkTransfer ==
  /\ PipelineTo("mark", "add")
  /\ transfer' = Mark
  /\ UNCHANGED <<channels, saved, keys, ending, found, redisVars, mishaps, outsidePipeline>>

SlipJoins == members
Joins == members \cup {found}

\* Refused when the destination or the bridge is gone, and not done when the
\* request fails.  The mark stays.
AddDestination ==
  /\ pipeline = "add"
  /\ \/ /\ bridge = "there" /\ dest[found] = "up"
        /\ pipeline' = "remove" /\ members' = Joins /\ UNCHANGED mishaps
     \/ /\ ~(bridge = "there" /\ dest[found] = "up")
        /\ pipeline' = "close" /\ UNCHANGED <<members, mishaps>>
     \/ pipeline' = "close" /\ Mishap("join") /\ UNCHANGED members
  /\ UNCHANGED <<caller, media, dest, bridge, runVars, ending, found, redisVars, outsidePipeline>>

RemoveMedia ==
  /\ pipeline = "remove"
  /\ \/ pipeline' = "release" /\ members' = members \ {"media"} /\ UNCHANGED mishaps
     \/ pipeline' \in {"release", "close"} /\ Mishap("swap") /\ UNCHANGED members
  /\ UNCHANGED <<caller, media, dest, bridge, runVars, ending, found, redisVars, outsidePipeline>>

ReleaseMedia ==
  /\ pipeline = "release"
  /\ \/ pipeline' = "forget" /\ MediaEnds /\ UNCHANGED mishaps
     \/ pipeline' \in {"forget", "close"} /\ Mishap("swap") /\ UNCHANGED <<media, members, ending>>
  /\ UNCHANGED <<caller, dest, bridge, runVars, found, redisVars, outsidePipeline>>

ForgetContext ==
  /\ PipelineTo("forget", "close")
  /\ contexts' = [contexts EXCEPT ![found] = "none"]
  /\ UNCHANGED <<channels, runVars, ending, found, mapped, mishaps, outsidePipeline>>

\* The transport closes its socket, and Asterisk the channel.
CloseSocket ==
  /\ PipelineTo("close", "closed")
  /\ MediaEnds
  /\ UNCHANGED <<caller, dest, bridge, runVars, found, redisVars, mishaps, outsidePipeline>>

Pipeline ==
  \/ EndPipeline
  \/ HangUpCaller
  \/ FindContext
  \/ CheckResources
  \/ MarkTransfer
  \/ AddDestination
  \/ RemoveMedia
  \/ ReleaseMedia
  \/ ForgetContext
  \/ CloseSocket

-----------------------------------------------------------------------------
Next ==
  \/ SetUp \/ Pipeline \/ Tool
  \/ CallerHangsUp \/ SocketBreaks
  \/ \E c \in Ends : StasisEnd(c)
  \/ \E t \in Attempts : \/ StartTransfer(t) \/ DestinationEvent(t) \/ KeysExpire(t)
                         \/ DestinationAnswers(t) \/ DestinationEnds(t)

Spec == Init /\ [][Next]_vars

\* Tasks and handlers run on, and every pipeline ends (idleness, the longest
\* duration).  Nobody has to hang up, to answer or to transfer.
Fairness ==
  /\ WF_vars(SetUp) /\ WF_vars(Pipeline) /\ WF_vars(Tool)
  /\ \A c \in Ends : WF_vars(StasisEnd(c))
  /\ \A t \in Attempts : WF_vars(DestinationEvent(t))

FairSpec == Spec /\ Fairness

-----------------------------------------------------------------------------
(* Properties. *)

\* A transferred call is not torn down under the two who talk: the media
\* channel that ends after a swap takes the bridge with it only if it broke by
\* itself.
TransferKeepsCaller ==
  [][bridge = "there" /\ bridge' = "gone" /\ caller = "up" /\ members \cap Attempts # {}
       => "drop" \in mishaps]_vars


\* The swap has found the context of an attempt before the one that was answered: a
\* context is removed when its transfer is through, not when it has failed.
StaleContext == found \notin {NoAttempt, current}

\* A caller whose pipeline has ended is hung up or talks to the destination, also
\* where the hang-up or the removal of the media channel has failed.  The code leaves
\* callers alone: when the destination cannot be added to the bridge, be it gone, be
\* it that the request fails, or be it of an earlier attempt, for then the run is
\* already marked as being transferred; and when a StasisEnd cannot do its work.
CallerIsServed ==
  caller = "up" /\ pipeline = "closed"
    ~> \/ caller = "down" \/ ("caller" \in members /\ members \cap Attempts # {})
       \/ mishaps \cap {"lost", "db", "early", "leaves", "add", "join", "delete"} # {}
       \/ StaleContext
=============================================================================
