-------------------------- MODULE MCEvidenceLedger --------------------------
(* Instances of EvidenceLedger for TLC. *)
EXTENDS EvidenceLedger, TLC

CONSTANTS p1, p2, x1, x2

PayloadSymmetry == Permutations(Payloads)
=============================================================================
