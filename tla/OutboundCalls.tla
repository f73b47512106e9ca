---------------------------- MODULE OutboundCalls ----------------------------
(***************************************************************************)
(* What the campaign dispatcher promises about the telephone network,      *)
(* without a word about slots, pools, mappings or time: an organization    *)
(* never has more than Limit calls in progress, each call in progress has  *)
(* a caller number of its own, and a call that has ended stays ended.      *)
(* CallSlots is shown to implement this module.                            *)
(***************************************************************************)
EXTENDS Integers, FiniteSets

CONSTANTS
  Calls,      \* the calls that may ever be placed
  Callers,    \* the caller numbers of the organization
  NoNumber,   \* the caller of a call that was never placed
  Limit       \* the concurrent call limit of the organization

VARIABLES
  live,       \* the calls in progress
  ended,      \* the calls that are over
  caller      \* the number each call shows

vars == <<live, ended, caller>>

Init ==
  /\ live = {}
  /\ ended = {}
  /\ caller = [c \in Calls |-> NoNumber]

\* A call is placed within the limit, from a number no call in progress shows.
Place(c, n) ==
  /\ c \notin live \cup ended
  /\ Cardinality(live) < Limit
  /\ \A d \in live : caller[d] # n
  /\ live' = live \cup {c}
  /\ caller' = [caller EXCEPT ![c] = n]
  /\ UNCHANGED ended

Hang(c) ==
  /\ c \in live
  /\ live' = live \ {c}
  /\ ended' = ended \cup {c}
  /\ UNCHANGED caller

Next ==
  \E c \in Calls : Hang(c) \/ \E n \in Callers : Place(c, n)

Spec == Init /\ [][Next]_vars
=============================================================================
