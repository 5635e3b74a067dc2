----------------------------- MODULE MCBoundary -----------------------------
(* CaseBoundary for an exhibit that only the later cutoff admits and an    *)
(* early document that is an official finding.                             *)
EXTENDS CaseBoundary

CONSTANTS exhibit, report

MCDocs == <<exhibit, report>>
MCPublished == [d \in Doc |-> IF d = exhibit THEN 2 ELSE 1]
MCFinal == [d \in Doc |-> d = report]
MCAiAllowed == [d \in Doc |-> TRUE]
=============================================================================
