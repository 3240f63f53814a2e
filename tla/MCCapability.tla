---------------------------- MODULE MCCapability ----------------------------
(* Instances of the capability model for TLC. *)
EXTENDS Capability, TLC

CONSTANTS i1, i2, i3, a1, a2, a3, b1

\* One process with three slots: a lineage of three generations, or two
\* identities derived from one.
MCTree == {a1, a2, a3}
MCOneSpace == [x \in MCTree |-> "A"]
SameTree == {f @@ g : f \in Permutations(Ids), g \in Permutations(MCTree)}

\* Two processes.
MCPlaces == {a1, a2, b1}
MCSpace == [x \in MCPlaces |-> IF x = b1 THEN "B" ELSE "A"]
SamePlaces == {f @@ g : f \in Permutations(Ids), g \in Permutations({a1, a2})}
=============================================================================
