--------------------------- MODULE CallbackPromise ---------------------------
(***************************************************************************)
(* What a caller who asked to be called back may rely on: a second call    *)
(* only after the first is over and did not connect, and no more calls     *)
(* after the first than its end was reported.  With one report this is one *)
(* call at a time, and no third.                                           *)
(***************************************************************************)
EXTENDS Naturals

CONSTANTS
  Requests,   \* wishes to be called back
  Retries     \* how many calls may follow the first

VARIABLES
  calls,      \* calls placed for a request so far
  open,       \* how many of them are in progress
  connected   \* requests with a call that was answered

vars == <<calls, open, connected>>

Init ==
  /\ calls = [q \in Requests |-> 0]
  /\ open = [q \in Requests |-> 0]
  /\ connected = {}

PlaceCall(q) ==
  /\ calls[q] =< Retries
  /\ calls[q] = 1 => open[q] = 0 /\ q \notin connected
  /\ calls' = [calls EXCEPT ![q] = @ + 1]
  /\ open' = [open EXCEPT ![q] = @ + 1]
  /\ UNCHANGED connected

HangUp(q) ==
  /\ open[q] > 0
  /\ open' = [open EXCEPT ![q] = @ - 1]
  /\ connected' \in {connected, connected \cup {q}}
  /\ UNCHANGED calls

Next == \E q \in Requests : PlaceCall(q) \/ HangUp(q)

Spec == Init /\ [][Next]_vars
=============================================================================
