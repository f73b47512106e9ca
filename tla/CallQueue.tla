------------------------------ MODULE CallQueue ------------------------------
(***************************************************************************)
(* What the queue of a campaign promises about its contacts, without a     *)
(* word about workers, batches, counters or the state of the campaign: a   *)
(* contact waits, is taken, is called at most once and is settled; once    *)
(* called or settled it never waits again.  CampaignBatch is shown to      *)
(* implement this module.                                                  *)
(***************************************************************************)
CONSTANT Contacts

VARIABLES
  waiting,   \* contacts that may be taken
  taken,     \* contacts somebody is working on, or was when it stopped
  settled,   \* contacts that need no more work
  called     \* contacts whose telephone rang

vars == <<waiting, taken, settled, called>>

Init ==
  /\ waiting = {}
  /\ taken = {}
  /\ settled = {}
  /\ called = {}

Known == waiting \cup taken \cup settled

\* New contacts arrive, from the source or as retries.
Add(S) ==
  /\ S \cap Known = {}
  /\ waiting' = waiting \cup S
  /\ UNCHANGED <<taken, settled, called>>

Take(S) ==
  /\ S \subseteq waiting
  /\ waiting' = waiting \ S
  /\ taken' = taken \cup S
  /\ UNCHANGED <<settled, called>>

Call(c) ==
  /\ c \in taken \ called
  /\ called' = called \cup {c}
  /\ UNCHANGED <<waiting, taken, settled>>

Settle(c) ==
  /\ c \in taken
  /\ taken' = taken \ {c}
  /\ settled' = settled \cup {c}
  /\ UNCHANGED <<waiting, called>>

\* Only a contact that was not called goes back.
Return(c) ==
  /\ c \in taken \ called
  /\ taken' = taken \ {c}
  /\ waiting' = waiting \cup {c}
  /\ UNCHANGED <<settled, called>>

Next ==
  \/ \E S \in SUBSET Contacts : Add(S) \/ Take(S)
  \/ \E c \in Contacts : Call(c) \/ Settle(c) \/ Return(c)

Spec == Init /\ [][Next]_vars
=============================================================================
