------------------------------ MODULE Verdicts ------------------------------
(***************************************************************************)
(* casezero_investigation/falsification.py and confidence.py: the outcome   *)
(* of a deterministic test, the confidence a hypothesis is left with, and   *)
(* the statuses of the competitors.                                         *)
(*                                                                         *)
(* evidence maps the pinned items to their type and subtype; records maps   *)
(* ids to the canonical claims and timeline events.                         *)
(***************************************************************************)
EXTENDS Hypotheses, FiniteSetsExt, SequencesExt

CONSTANT Anything   \* a filter that is absent

NoTime == 0    \* occurred_at is null

Verdict(outcome, cited) == [outcome |-> outcome, cited |-> cited]

\* The evidence a test is about: what it names, or everything.
Scope(t, evidence) == IF t.evidence = {} THEN DOMAIN evidence ELSE t.evidence

Cites(r, polarity, scope) == {l[1] : l \in {k \in r.links : k[2] = polarity}} \cap scope

EvidencePresence(t, evidence) ==
  LET p       == t.params
      matches == {e \in Scope(t, evidence) : /\ p.type \in {Anything, evidence[e].type}
                                             /\ p.subtype \in {Anything, evidence[e].subtype}}
  IN IF t.evidence = {} /\ p.type = Anything /\ p.subtype = Anything THEN Verdict("INCONCLUSIVE", {})
     ELSE IF matches # {} THEN Verdict("SURVIVED", matches)
     ELSE Verdict("EXPECTED_EVIDENCE_MISSING", {})

EitherCited(before, after, scope) ==
  /\ \A r \in {before, after} : r.says.at # NoTime /\ r.says.precision = "EXACT"
  /\ \E r \in {before, after} : Cites(r, "CITED", scope) # {}
\* Two exact times, each with evidence in scope, or nothing can be said.
Comparable(before, after, scope) ==
  \A r \in {before, after} : /\ r.says.at # NoTime
                             /\ r.says.precision = "EXACT"
                             /\ Cites(r, "CITED", scope) # {}

TemporalConsistency(t, evidence, records) ==
  LET scope  == Scope(t, evidence)
      before == records[t.params.before]
      after  == records[t.params.after]
      cited  == Cites(before, "CITED", scope) \cup Cites(after, "CITED", scope)
  IN IF ~Comparable(before, after, scope) THEN Verdict("INCONCLUSIVE", cited)
     ELSE IF before.says.at < after.says.at THEN Verdict("SURVIVED", cited)
     ELSE Verdict("CONTRADICTED", cited)

ClaimContradiction(t, evidence, records) ==
  LET For(c)     == Cites(records[c], "SUPPORTING", Scope(t, evidence))
      Against(c) == Cites(records[c], "CONTRADICTING", Scope(t, evidence))
      cited      == UNION {For(c) \cup Against(c) : c \in t.claims}
  IN IF \E c \in t.claims : Against(c) \ For(c) # {} THEN Verdict("CONTRADICTED", cited)
     ELSE IF t.claims # {} /\ \A c \in t.claims : For(c) # {} /\ For(c) \cap Against(c) = {}
          THEN Verdict("SURVIVED", cited)
     ELSE Verdict("INCONCLUSIVE", cited)

\* execute_test raises nothing on a pending deterministic test
Executable(t, evidence, claims, events) ==
  /\ t.status = "PENDING" /\ ~UsesModel(t)
  /\ t.evidence \subseteq DOMAIN evidence
  /\ t.claims \subseteq claims
  /\ t.type = "TEMPORAL_CONSISTENCY" => {t.params.before, t.params.after} \subseteq events

ExecuteTest(t, evidence, records) ==
  CASE t.type = "EVIDENCE_PRESENCE"    -> EvidencePresence(t, evidence)
    [] t.type = "TEMPORAL_CONSISTENCY" -> TemporalConsistency(t, evidence, records)
    [] t.type = "CLAIM_CONTRADICTION"  -> ClaimContradiction(t, evidence, records)

\* The verdicts _materialize accepts from the model for a semantic comparison.
SemanticVerdicts(t, evidence) ==
  {v \in [outcome : Outcome, cited : SUBSET Scope(t, evidence)] :
     v.outcome \in {"SURVIVED", "CONTRADICTED"} => v.cited # {}}

-----------------------------------------------------------------------------
WeightSwapped ==
  [CONTRADICTED              |-> [LOW |-> -300, MEDIUM |-> -1800, HIGH |-> -3500],
   EXPECTED_EVIDENCE_MISSING |-> [LOW |-> -800, MEDIUM |-> -800,  HIGH |-> -1500],
   SURVIVED                  |-> [LOW |-> 200,  MEDIUM |-> 400,   HIGH |-> 600],
   INCONCLUSIVE              |-> [LOW |-> 0,    MEDIUM |-> 0,     HIGH |-> 0]]
\* _WEIGHTS
Weight ==
  [CONTRADICTED              |-> [LOW |-> -800, MEDIUM |-> -1800, HIGH |-> -3500],
   EXPECTED_EVIDENCE_MISSING |-> [LOW |-> -300, MEDIUM |-> -800,  HIGH |-> -1500],
   SURVIVED                  |-> [LOW |-> 200,  MEDIUM |-> 400,   HIGH |-> 600],
   INCONCLUSIVE              |-> [LOW |-> 0,    MEDIUM |-> 0,     HIGH |-> 0]]

RevisedConfidence == 500..9500

Clamp(x) == Max({500, Min({9500, x})})

Sum(deltas) ==
  LET total[n \in 0..Len(deltas)] == IF n = 0 THEN 0 ELSE total[n - 1] + deltas[n]
  IN  total[Len(deltas)]

\* deltas in the order of the ids of the tests
ClampedSum(before, deltas) == Clamp(before + Sum(deltas))

\* the ids in S from the lowest
Ascending(S) == [n \in 1..Cardinality(S) |-> CHOOSE i \in S : Cardinality({j \in S : j < i}) = n - 1]

\* revise_confidence: tests maps the ids of all tests of the hypothesis to them
ReviseConfidence(before, tests) ==
  LET counted == Ascending({i \in DOMAIN tests : tests[i].status = "SUCCEEDED"})
      deltas  == [n \in DOMAIN counted |->
                    Weight[tests[counted[n]].outcome][tests[counted[n]].strength]]
  IN [before |-> before, delta |-> Sum(deltas), after |-> ClampedSum(before, deltas),
      deltas |-> {<<counted[n], deltas[n]>> : n \in DOMAIN counted}]

Highest(conf) == {h \in DOMAIN conf : \A g \in DOMAIN conf : conf[g] <= conf[h]}

LeadsOrTies(conf, h) == conf[h] >= 5000 /\ h \in Highest(conf)
Leads(conf, h)      == conf[h] >= 5000 /\ Highest(conf) = {h}

\* assign_hypothesis_statuses: conf maps the hypotheses to their confidence
AssignStatuses(conf) ==
  [h \in DOMAIN conf |-> IF conf[h] <= 1500 THEN "REJECTED"
                         ELSE IF conf[h] < 3500 THEN "WEAKENED"
                         ELSE IF Leads(conf, h) THEN "LEADING" ELSE "ACTIVE"]
=============================================================================
