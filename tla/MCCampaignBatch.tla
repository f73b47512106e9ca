--------------------------- MODULE MCCampaignBatch ---------------------------
(* Instances of CampaignBatch for TLC. *)
EXTENDS CampaignBatch, TLC

CONSTANTS r1, r2, t1, w1, w2, s1, s2, q1, q2, q3

\* t1 retries r1.
MCParent == [r \in {t1} |-> r1]
MCNoParent == [r \in {} |-> r]

MCWorkers == Permutations(Workers)
MCAll == MCWorkers \cup Permutations(Requests)
=============================================================================
