----------------------------- MODULE Hypotheses -----------------------------
(***************************************************************************)
(* casezero_investigation/generation.py, critic.py and the draft types of   *)
(* hypotheses.py: which sets of competing hypotheses and which critiques of *)
(* a hypothesis are accepted from the model.                                *)
(*                                                                         *)
(* A confidence is a number of ten-thousandths.  A hypothesis draft has the *)
(* tokens of its title and description, its confidence, its questions and   *)
(* the claims it is grounded in.  A test draft has a type, a strength, the  *)
(* parameters of its type, and the evidence and claims it names; its        *)
(* execution kind is AI exactly for a semantic comparison.                  *)
(***************************************************************************)
EXTENDS Integers, Sequences, FiniteSets

CONSTANTS
  MinHypotheses, MaxHypotheses, \* 3 and 5 in the code
  MaxTests,                     \* tests per critique, 5 in the code
  None                          \* an optional reference that is absent

\* The tests of hypothesis h are numbered 10 * h + 1 onwards in the model.
ASSUME HypothesesAssumption ==
  /\ MinHypotheses \in Nat \ {0} /\ MaxHypotheses \in Nat
  /\ MinHypotheses <= MaxHypotheses
  /\ MaxTests \in 1..9
  /\ None \notin {"CONTRADICTED", "SURVIVED", "EXPECTED_EVIDENCE_MISSING", "INCONCLUSIVE"}

TestType  == {"EVIDENCE_PRESENCE", "TEMPORAL_CONSISTENCY", "CLAIM_CONTRADICTION",
              "SEMANTIC_COMPARISON"}
Strength  == {"LOW", "MEDIUM", "HIGH"}
Outcome   == {"CONTRADICTED", "SURVIVED", "EXPECTED_EVIDENCE_MISSING", "INCONCLUSIVE"}

UsesModel(t) == t.type = "SEMANTIC_COMPARISON"

\* normalized_hypothesis_overlap(a, b) > 0.75
NearDuplicate(a, b) ==
  LET union == a.tokens \cup b.tokens IN
  union = {} \/ 4 * Cardinality(a.tokens \cap b.tokens) > 3 * Cardinality(union)

InitialConfidence == 500..8500

Grounded(d, claims) ==
  /\ d.confidence \in InitialConfidence
  /\ d.supporting \cup d.contradicting # {}
  /\ d.supporting \cup d.contradicting \subseteq claims

\* HypothesisGenerationResult and materialize_hypotheses: the drafts at positions S
Competing(drafts, S, claims) ==
  /\ Cardinality(S) \in MinHypotheses..MaxHypotheses
  /\ \A i, j \in S : i # j => ~NearDuplicate(drafts[i], drafts[j])
  /\ \A i \in S : Grounded(drafts[i], claims)

DistinctEvents(t, events) ==
  t.type = "TEMPORAL_CONSISTENCY" => t.params.before # t.params.after
KnownEvents(t, events) ==
  t.type = "TEMPORAL_CONSISTENCY" =>
    /\ t.params.before # t.params.after
    /\ {t.params.before, t.params.after} \subseteq events

KnownReferences(t, evidence, claims, events) ==
  /\ t.evidence \subseteq evidence
  /\ t.claims \subseteq claims
  /\ KnownEvents(t, events)

\* CritiqueDraft, materialize_critique and the check of CritiqueCreatedPayload
\* that no test is proposed twice
Citable(c, evidence, claims, events) ==
  /\ Len(c.tests) \in 1..MaxTests
  /\ c.contradiction \in ({"evidence"} \X evidence) \cup claims \cup {None}
  /\ \A i \in DOMAIN c.tests : KnownReferences(c.tests[i], evidence, claims, events)
  /\ \A i, j \in DOMAIN c.tests : i # j => c.tests[i] # c.tests[j]
=============================================================================
