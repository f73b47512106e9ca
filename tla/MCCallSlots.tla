----------------------------- MODULE MCCallSlots -----------------------------
(* Instances of CallSlots for TLC. *)
EXTENDS CallSlots, TLC

CONSTANTS a1, a2, a3, n1, n2, h1, h2

\* No campaign limits itself below the organization.
MCUnlimited == [a \in Attempts |-> NoLimit]
\* a1 belongs to a campaign with max_concurrency 1.
MCOneLimited == [a \in Attempts |-> IF a = a1 THEN 1 ELSE NoLimit]

MCSymmetry == Permutations(Numbers) \cup Permutations(Handlers)
MCFullSymmetry == MCSymmetry \cup Permutations(Attempts)
=============================================================================
