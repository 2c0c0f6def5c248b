--------------------------- MODULE MCOwnerTracker ---------------------------
(* OwnerTracker for TLC: payloads of given sizes and the symmetric sets.   *)
EXTENDS OwnerTracker, TLC

Symmetry == Permutations(Conn)

\* One payload of each of the sizes; only the size matters here.
PayloadsOf(sizes) == {[p \in 1..k |-> "number"] : k \in sizes}
OneItem == PayloadsOf({1})
OneTwoOrFour == PayloadsOf({1, 2, 4})

NoKeys == {}

=============================================================================
