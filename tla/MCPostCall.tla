----------------------------- MODULE MCPostCall -----------------------------
(* A call with a recording, whose live transcript shows one side or nothing, *)
(* and a call that leaves nothing to upload, of one organization.            *)
EXTENDS PostCall

CONSTANTS r1, r2

MCFiles ==
  [r \in Runs |-> IF r = r1
     THEN {[audio |-> "full", transcript |-> t] : t \in {"nothing", "onesided"}}
     ELSE {[a \in Artifacts |-> "nothing"]}]
=============================================================================
