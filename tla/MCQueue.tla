------------------------------ MODULE MCQueue ------------------------------
(* Small instances of InvestigationQueue for TLC.                           *)
EXTENDS QueueRefinement, TLC

CONSTANTS w1, w2, k1, k2

MCWorker   == {w1, w2}
MCKey      == {k1, k2}
MCSymmetry == Permutations(MCWorker)

\* One session keeps polling; the other may stop for good at any point.
MCFairSpec == Spec /\ Fairness({w2})
=============================================================================
