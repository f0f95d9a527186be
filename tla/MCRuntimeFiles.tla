---------------------------- MODULE MCRuntimeFiles ----------------------------
(***************************************************************************)
(* Small instances of RuntimeFiles for TLC.                                *)
(***************************************************************************)
EXTENDS RuntimeFiles, TLC

CONSTANTS a1, a2

ApprovalSymmetry == Permutations(ApprovalIds)
=============================================================================
