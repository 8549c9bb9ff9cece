-------------------------------- MODULE Lists -------------------------------
(***************************************************************************)
(* The lists of Event and Presence: std::vector of ids, in the order of    *)
(* subscription.                                                           *)
(***************************************************************************)
EXTENDS SequencesExt

Elements(q) == {q[i] : i \in 1 .. Len(q)}

StrictlyIncreasing(q) == \A i, j \in 1 .. Len(q) : i < j => q[i] < q[j]
=============================================================================
