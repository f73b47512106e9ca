------------------------- MODULE MCFollowUpCallbacks -------------------------
(***************************************************************************)
(* FollowUpCallbacks on small instances.                                   *)
(***************************************************************************)
EXTENDS FollowUpCallbacks, TLC

CONSTANTS j1, j2, h1, h2  \* cron jobs and status requests

\* Jobs and handlers are interchangeable, where no liveness is checked.
Symmetry == Permutations(Jobs) \cup Permutations(Handlers)
=============================================================================
