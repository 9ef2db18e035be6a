--------------------------- MODULE MCHammondStore ---------------------------
(* Instances of HammondStore: lineages of three versions under a single     *)
(* approver, and two versions under a quorum of two actors and two roles.   *)
EXTENDS HammondStore, TLC

CONSTANTS v1, v2, v3, ann, ben, owner, safety, first, second

MCVersion == [c \in Contracts |-> CASE c = v1 -> 1 [] c = v2 -> 2 [] c = v3 -> 3]

\* Everyone may act as owner, ann also for safety.
MCGrants == {<<ann, owner>>, <<ann, safety>>, <<ben, owner>>}
MCOneGrant == {<<ann, owner>>}

MCThreshold == [r \in Roles |-> 1]
=============================================================================
