---------------------------- MODULE MCCandidates ----------------------------
(* CandidateBatches for a case of four structural units. *)
EXTENDS CandidateBatches

CONSTANTS u1, u2, u3, u4

MCUnits == <<u1, u2, u3, u4>>
=============================================================================
