---------------------------- MODULE MCProcessing ----------------------------
(* ProcessingRuns with two operators, who process two cases that have a    *)
(* document in common: one case has a document of every kind but one, two  *)
(* of them processable, and the other one the kind that is missing.        *)
EXTENDS ProcessingRuns

CONSTANTS p1, p2, a, b, c, u, r, h

MCKindOf == [i \in Item |-> CASE i = u -> "unsupported" [] i = r -> "rights"
                              [] i = h -> "hidden" [] OTHER -> "plain"]
MCContentOf == [i \in Item |-> IF i = c THEN a ELSE i]
MCManifest == [s \in Session |-> IF s = p1 THEN <<h, a, u, b>> ELSE <<r, c>>]
=============================================================================
