--------------------------- MODULE MCTombolaAudit ---------------------------
(* The audited raffle for TLC: the names of prizes are interchangeable. *)
EXTENDS TombolaAudit

NameSymmetry == Permutations(Name)
=============================================================================
