--------------------------- MODULE CanonicalRecords ---------------------------
(***************************************************************************)
(* The canonical records of an investigation in its two forms: the tables   *)
(* that persistence.py writes and repository.py reads back, and the state   *)
(* that replay.py rebuilds from the payloads of the event log.              *)
(*                                                                         *)
(* A record is a promoted claim, entity or timeline event; its id is        *)
(* <<kind, its first source candidate>>.  A hypothesis has at most one      *)
(* critique and one revision and one retrieval of each intent, which bear   *)
(* its id.  Times, attributions and wording are left out, and so is the     *)
(* life cycle of the investigation, which module EventReplay replays.       *)
(***************************************************************************)
EXTENDS Verdicts

EmptyTables ==
  [records |-> <<>>, candidateLinks |-> {}, evidenceLinks |-> {},
   hypotheses |-> <<>>, claimLinks |-> {}, questions |-> {},
   critiques |-> <<>>, tests |-> <<>>, revisions |-> <<>>, deltas |-> {},
   queries |-> <<>>, results |-> {}]

\* a row or a record under its id
Put(f, id, v) == [x \in DOMAIN f \cup {id} |-> IF x = id THEN v ELSE f[x]]

\* a new hypothesis, and its claim links with their polarity
Opening(m) == [initial |-> m.confidence, confidence |-> m.confidence, status |-> "ACTIVE"]
ClaimLinks(m) == ({m.id} \X m.supporting \X {"SUPPORTING"})
                 \cup ({m.id} \X m.contradicting \X {"CONTRADICTING"})

Resolved(test, m) == [test EXCEPT !.status = m.status, !.outcome = m.outcome, !.cited = m.cited]

\* _write of a revision
WriteRevisionAlone(T, m) ==
  [T EXCEPT !.revisions = Put(@, m.id, [before |-> m.before, delta |-> m.delta, after |-> m.after]),
            !.deltas    = @ \cup {<<m.id, d[1], d[2]>> : d \in m.deltas}]
WriteRevision(T, m) ==
  [WriteRevisionAlone(T, m) EXCEPT !.hypotheses[m.id].confidence = m.after]

Write(T, m) ==
  CASE m.kind = "RECORD_CREATED" ->
         [T EXCEPT !.records        = Put(@, m.id, [says |-> m.says, names |-> m.names]),
                   !.candidateLinks = @ \cup ({m.id} \X m.sources),
                   !.evidenceLinks  = @ \cup {<<m.id, l[1], l[2]>> : l \in m.links}]
    [] m.kind = "HYPOTHESIS_CREATED" ->
         [T EXCEPT !.hypotheses = Put(@, m.id, Opening(m)),
                   !.claimLinks = @ \cup ClaimLinks(m),
                   !.questions  = @ \cup ({m.id} \X m.questions)]
    [] m.kind = "CRITIQUE_CREATED"  -> [T EXCEPT !.critiques = Put(@, m.id, m.contradiction)]
    [] m.kind = "TEST_CREATED"      -> [T EXCEPT !.tests = Put(@, m.id, m.test)]
    [] m.kind = "TEST_RESOLVED"     ->
         [T EXCEPT !.tests[m.id] = IF @.status = "PENDING" THEN Resolved(@, m) ELSE @]
    [] m.kind = "CONFIDENCE_REVISED" -> WriteRevision(T, m)
    [] m.kind = "STATUS_CHANGED"    -> [T EXCEPT !.hypotheses[m.id].status = m.after]
    [] m.kind = "RETRIEVAL_COMPLETED" ->
         [T EXCEPT !.queries   = Put(@, m.id, m.query),
                   !.results   = @ \cup {<<m.id, m.results[n], n>> : n \in DOMAIN m.results},
                   !.questions = @ \cup ({m.id[2]} \X m.questions)]
    [] m.kind = "COMPLETED" -> T

\* _test_draft: what was proposed, without the result
Draft(t) == [type |-> t.type, strength |-> t.strength, params |-> t.params,
             evidence |-> t.evidence, claims |-> t.claims]

Links(T, id) == {<<l[2], l[3]>> : l \in {k \in T.evidenceLinks : k[1] = id}}

\* projection: a critique's proposals are read off the tests that name it
Stored(T) ==
  [records |-> [id \in DOMAIN T.records |->
                  [says |-> T.records[id].says, names |-> T.records[id].names,
                   sources |-> {l[2] : l \in {k \in T.candidateLinks : k[1] = id}},
                   links |-> Links(T, id)]],
   hypotheses |-> T.hypotheses, claimLinks |-> T.claimLinks, questions |-> T.questions,
   critiques |-> [h \in DOMAIN T.critiques |->
                    [contradiction |-> T.critiques[h],
                     tests |-> {Draft(T.tests[i]) : i \in {j \in DOMAIN T.tests : T.tests[j].hypothesis = h}}]],
   tests |-> T.tests,
   revisions |-> [h \in DOMAIN T.revisions |->
                    [before |-> T.revisions[h].before, delta |-> T.revisions[h].delta,
                     after |-> T.revisions[h].after,
                     deltas |-> {<<d[2], d[3]>> : d \in {c \in T.deltas : c[1] = h}}]],
   retrievals |-> [id \in DOMAIN T.queries |->
                     [query |-> T.queries[id],
                      results |-> {<<r[2], r[3]>> : r \in {k \in T.results : k[1] = id}}]]]

-----------------------------------------------------------------------------
Ids(p, kind) == {id \in DOMAIN p.records : id[1] = kind}
Confidences(p) == [h \in DOMAIN p.hypotheses |-> p.hypotheses[h].confidence]
TestsOf(p, h) == [i \in {j \in DOMAIN p.tests : p.tests[j].hypothesis = h} |-> p.tests[i]]

\* _require_test_references
Resolvable(p, t) ==
  /\ t.claims \subseteq Ids(p, "claim")
  /\ t.type = "TEMPORAL_CONSISTENCY" => {t.params.before, t.params.after} \subseteq Ids(p, "timeline")

\* ConfidenceRevision.validate_calculation and _require_revision
RevisionFits(p, m) ==
  LET succeeded == {i \in DOMAIN TestsOf(p, m.id) : p.tests[i].status = "SUCCEEDED"} IN
  /\ m.id \in DOMAIN p.hypotheses \ DOMAIN p.revisions
  /\ m.before = p.hypotheses[m.id].confidence
  /\ m.deltas = {<<i, Weight[p.tests[i].outcome][p.tests[i].strength]>> : i \in succeeded}
  /\ m.delta = MapThenSumSet(LAMBDA d : d[2], m.deltas)
  /\ m.after = Clamp(m.before + m.delta) /\ m.after \in RevisedConfidence

\* The payload is valid and _apply raises no ReplayError.
Accepts(p, m) ==
  CASE m.kind = "RECORD_CREATED" -> m.id \notin DOMAIN p.records /\ m.sources # {} /\ m.links # {}
    [] m.kind = "HYPOTHESIS_CREATED" ->
         /\ m.id \notin DOMAIN p.hypotheses /\ m.confidence \in InitialConfidence
         /\ m.supporting \cup m.contradicting # {}
         /\ m.supporting \cup m.contradicting \subseteq Ids(p, "claim")
    [] m.kind = "CRITIQUE_CREATED" ->
         /\ m.id \in DOMAIN p.hypotheses \ DOMAIN p.critiques
         /\ \A t \in m.tests : Resolvable(p, t)
    [] m.kind = "TEST_CREATED" ->
         LET h == m.test.hypothesis IN
         /\ m.id \notin DOMAIN p.tests
         /\ m.test.strength \in Strength
         /\ m.test.status = "PENDING" /\ m.test.outcome = None /\ m.test.cited = {}
         /\ h \in DOMAIN p.hypotheses \cap DOMAIN p.critiques
         /\ Resolvable(p, m.test)
         /\ Draft(m.test) \in p.critiques[h].tests
         /\ \A i \in DOMAIN TestsOf(p, h) : Draft(p.tests[i]) # Draft(m.test)
    [] m.kind = "TEST_RESOLVED" ->
         /\ m.id \in DOMAIN p.tests /\ p.tests[m.id].status = "PENDING" /\ m.draft = Draft(p.tests[m.id])
         /\ m.status \in {"SUCCEEDED", "FAILED"} /\ m.outcome \in Outcome \cup {None}
         /\ m.status = "FAILED" <=> m.outcome = None
    [] m.kind = "CONFIDENCE_REVISED" -> RevisionFits(p, m)
    [] m.kind = "STATUS_CHANGED" ->
         /\ m.id \in DOMAIN p.hypotheses
         /\ p.hypotheses[m.id].status = m.before /\ m.before # m.after
         /\ AssignStatuses(Confidences(p))[m.id] = m.after
    [] m.kind = "RETRIEVAL_COMPLETED" ->
         /\ m.id \notin DOMAIN p.retrievals /\ m.id[2] \in DOMAIN p.hypotheses
         /\ m.query.entities \subseteq Ids(p, "entity")
         /\ Len(m.results) <= m.query.limit /\ IsInjective(m.results)
    [] m.kind = "COMPLETED" -> m.state = p

Applied(p, m) ==
  CASE m.kind = "RECORD_CREATED" ->
         [p EXCEPT !.records = Put(@, m.id, [says |-> m.says, names |-> m.names,
                                             sources |-> m.sources, links |-> m.links])]
    [] m.kind = "HYPOTHESIS_CREATED" ->
         [p EXCEPT !.hypotheses = Put(@, m.id, Opening(m)),
                   !.claimLinks = @ \cup ClaimLinks(m),
                   !.questions  = @ \cup ({m.id} \X m.questions)]
    [] m.kind = "CRITIQUE_CREATED" ->
         [p EXCEPT !.critiques = Put(@, m.id, [contradiction |-> m.contradiction, tests |-> m.tests])]
    [] m.kind = "TEST_CREATED"  -> [p EXCEPT !.tests = Put(@, m.id, m.test)]
    [] m.kind = "TEST_RESOLVED" -> [p EXCEPT !.tests[m.id] = Resolved(@, m)]
    [] m.kind = "CONFIDENCE_REVISED" ->
         [p EXCEPT !.revisions = Put(@, m.id, [before |-> m.before, delta |-> m.delta,
                                               after |-> m.after, deltas |-> m.deltas]),
                   !.hypotheses[m.id].confidence = m.after]
    [] m.kind = "STATUS_CHANGED" -> [p EXCEPT !.hypotheses[m.id].status = m.after]
    [] m.kind = "RETRIEVAL_COMPLETED" ->
         [p EXCEPT !.retrievals =
                     Put(@, m.id, [query |-> m.query,
                                   results |-> {<<m.results[n], n>> : n \in DOMAIN m.results}]),
                   !.questions = @ \cup ({m.id[2]} \X m.questions)]
    [] m.kind = "COMPLETED" -> p

\* An event that is not accepted ends the replay.
Replayed(r, m) ==
  IF r.ok /\ Accepts(r.state, m) THEN [ok |-> TRUE, state |-> Applied(r.state, m)]
                                ELSE [ok |-> FALSE, state |-> r.state]
Replay(p, ms) ==
  LET after[n \in 0..Len(ms)] ==
        IF n = 0 THEN [ok |-> TRUE, state |-> p] ELSE Replayed(after[n - 1], ms[n])
  IN  after[Len(ms)]
=============================================================================
