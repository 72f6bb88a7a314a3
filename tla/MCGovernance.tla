---------------------------- MODULE MCGovernance ----------------------------
(* Instances of the governance workflow for TLC. *)
EXTENDS GovernanceProperties, TLC

\* Nobody asks for an embargo.
NoEmbargo == {}

\* 01:00 UTC.
UtcEmbargo == {[wall |-> 1, offset |-> 0]}

\* Sound for the runs that check no liveness: sessions and submission ids are
\* interchangeable in every action and every invariant.
Interchangeable == Permutations(Sessions) \cup Permutations(Submissions)
=============================================================================
