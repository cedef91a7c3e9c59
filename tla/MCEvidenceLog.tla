---------------------------- MODULE MCEvidenceLog ----------------------------
(* EvidenceLog for TLC: interchangeable processes. *)
EXTENDS EvidenceLog, TLC

Symmetric == Permutations(Processes)
=============================================================================
