-------------------------- MODULE MCEvidenceChain --------------------------
(* A small instance of EvidenceChain: a narrator and a custom role, two     *)
(* voices, two versions of each.  Voices and versions are only compared for *)
(* equality, so the states are symmetric in both.                           *)
EXTENDS EvidenceChain, TLC

CONSTANTS v1, v2, leaf1, leaf2

MCVoice == {v1, v2}
MCLeaf  == {leaf1, leaf2}
MCSymmetry == Permutations(MCVoice) \cup Permutations(MCLeaf)
============================================================================
