------------------------------ MODULE Assessment ------------------------------
(***************************************************************************)
(* One investigation from its candidates to its ranked hypotheses: what the *)
(* stages of worker.py compute, what persist_stage_result checks before and *)
(* after it writes, and what the tables and the event log then hold.        *)
(*                                                                         *)
(* Jobs of a stage run in any order and at the same time: a worker computes *)
(* an answer from the state it reads (Answer) and persists it later, when   *)
(* siblings have committed (Persist).  Leases, requests and attempts are    *)
(* those of module InvestigationQueue and reduced here to a worker that is  *)
(* lost (Lost) and requests that are used up (Exhausted).                   *)
(*                                                                         *)
(* The evidence an investigation may use is pinned when it is created, but  *)
(* each read of it asks again whether the pinned item is still the latest   *)
(* interpretation of its unit: `casezero process` with another template     *)
(* withdraws items from an investigation under way (Reinterpret).           *)
(*                                                                         *)
(* A world is what the investigation finds and what the model may answer:   *)
(* pinned evidence, the units (each as its pinned items) that may be        *)
(* interpreted again while it runs, candidates, ideas for hypotheses,       *)
(* critiques, and the ranks of the evidence for each text of a search.      *)
(***************************************************************************)
EXTENDS Promotion, Retrieval, CanonicalRecords

CONSTANTS
  World,     \* the worlds that are explored
  PageSize   \* results of a search, 50 in the code

\* What is numbered is a sequence: the candidates of a kind, ideas, the tests of a critique.
\* The pinned evidence is finite and bears numbers, and a text ranks all of it.  Candidates
\* link evidence with one of the polarities, and the tests of a critique have the fields of
\* a draft and no others.
Numbered(s) == Len(s) \in Nat /\ DOMAIN s = 1..Len(s)
Polarity    == {"CITED", "SUPPORTING", "CONTRADICTING"}
ASSUME PageAssumption == PageSize \in Nat \ {0}
ASSUME WorldAssumption ==
  \A w \in World :
    /\ \A kind \in {"timeline", "entity", "claim"} :
         /\ Numbered(w.candidates[kind])
         /\ \A c \in DOMAIN w.candidates[kind] : w.candidates[kind][c].links \subseteq Nat \X Polarity
    /\ Numbered(w.ideas)
    /\ IsFiniteSet(DOMAIN w.evidence) /\ DOMAIN w.evidence \subseteq Nat
    /\ w.units \subseteq SUBSET DOMAIN w.evidence
    /\ \A text \in DOMAIN w.ranks : \A e \in DOMAIN w.evidence : w.ranks[text][e] \in Nat
    /\ \A c \in w.critiques :
         /\ Numbered(c.tests)
         /\ \A i \in DOMAIN c.tests : LET t == c.tests[i] IN
              t = Draft(t) /\ t.type \in TestType /\ t.strength \in Strength

CaseKey == -1   \* work key 'case'

VARIABLES
  world,     \* the world of this investigation
  eligible,  \* pinned evidence that is part of the current interpretation of its unit
  stage, status,
  done,      \* work keys of the stage whose jobs succeeded
  answers,   \* work keys with a result that is not persisted yet, and the mutations of the result
  tables,    \* the canonical tables
  replayed   \* the state that replays from the events appended so far

vars == <<world, eligible, stage, status, done, answers, tables, replayed>>

StageOrder == <<"PROMOTE_TIMELINE", "RESOLVE_ENTITIES", "PROMOTE_CLAIMS", "GENERATE_HYPOTHESES",
  "SEARCH_SUPPORT", "SEARCH_CONTRADICTIONS", "DESIGN_FALSIFICATION_TESTS",
  "EXECUTE_FALSIFICATION_TESTS", "REVISE_CONFIDENCE", "VERIFY_REPLAY", "COMPLETE">>

KindOf == [PROMOTE_TIMELINE |-> "timeline", RESOLVE_ENTITIES |-> "entity", PROMOTE_CLAIMS |-> "claim"]
Promotes == stage \in DOMAIN KindOf
Searches == stage \in {"SEARCH_SUPPORT", "SEARCH_CONTRADICTIONS"}
Intent   == IF stage = "SEARCH_SUPPORT" THEN "SUPPORT" ELSE "CONTRADICT"

Candidates == world.candidates[KindOf[stage]]
Batches(n) == 0 .. (n + BatchSize - 1) \div BatchSize - 1

\* phase3_enqueue_stage
WorkKeys ==
  LET keys == CASE Promotes -> Batches(Len(Candidates))
                [] Searches \/ stage = "DESIGN_FALSIFICATION_TESTS" -> DOMAIN tables.hypotheses
                [] stage = "EXECUTE_FALSIFICATION_TESTS" -> DOMAIN tables.tests
                [] OTHER -> {}
  IN IF keys = {} THEN {CaseKey} ELSE keys

State  == Stored(tables)   \* get_state
Pinned == DOMAIN world.evidence                          \* investigation_evidence, never changed
Evidence == [e \in eligible |-> world.evidence[e]]      \* evidence()
Test(k) == State.tests[k]

Init ==
  /\ world \in World /\ eligible = Pinned
  /\ stage = "PROMOTE_TIMELINE" /\ status = "RUNNING"
  /\ done = {} /\ answers = <<>>
  /\ tables = EmptyTables /\ replayed = Stored(EmptyTables)

-----------------------------------------------------------------------------
(* What a job computes: the sequences of mutations it may end with. *)

\* Drafts of a model that groups the candidates as it likes and may mix up the
\* assertions and the polarity of their evidence.
Other(polarity) == CASE polarity = "SUPPORTING" -> "CONTRADICTING"
                     [] polarity = "CONTRADICTING" -> "SUPPORTING"
                     [] OTHER -> polarity
Drafts(B) ==
  UNION {LET exact == LinksOf(Candidates, S) IN
         [kind : {KindOf[stage]}, sources : {S}, says : {Candidates[c].says : c \in B},
          names : {NamesOf(Candidates, S)},
          links : {exact, {<<l[1], Other(l[2])>> : l \in exact}}] : S \in (SUBSET B) \ {{}}}

Promotions(k) ==
  LET B == IF k = CaseKey THEN {} ELSE Batch(Candidates, k)
      Create(d) == [kind |-> "RECORD_CREATED", id |-> <<d.kind, Min(d.sources)>>,
                    says |-> d.says, names |-> d.names, sources |-> d.sources, links |-> d.links]
  IN IF B = {} THEN {<<>>}
     ELSE {SetToSeq({Create(d) : d \in D}) : D \in PromotionAnswers(Drafts(B), Candidates, B, eligible)}

Hypotheses ==
  LET Create(i) == LET d == world.ideas[i] IN
                   [kind |-> "HYPOTHESIS_CREATED", id |-> i, confidence |-> d.confidence,
                    supporting |-> d.supporting, contradicting |-> d.contradicting,
                    questions |-> d.questions]
  IN {SetToSeq({Create(i) : i \in S}) :
        S \in {S \in SUBSET DOMAIN world.ideas : Competing(world.ideas, S, Ids(State, "claim"))}}

\* tools.search: text only, without filters
Query(text) == [intent |-> Intent, text |-> text, types |-> {}, entities |-> {}, timed |-> FALSE,
                from |-> NoTime, until |-> NoTime, limit |-> PageSize]
Retrievals(h) ==
  LET found(text) == Search(Query(text), Evidence, world.ranks[text], State.records) IN
  {<<[kind |-> "RETRIEVAL_COMPLETED", id |-> <<Intent, h>>, query |-> Query(text),
      results |-> found(text),
      questions |-> IF Intent = "CONTRADICT" /\ found(text) = <<>> THEN {"nothing found"} ELSE {}]>> :
     text \in DOMAIN world.ranks}

\* The evidence shown to the critic: found against the hypothesis, cited by its
\* claims or by any event.
Relevant(h) ==
  LET claims == {l[2] : l \in {k \in State.claimLinks : k[1] = h}} IN
  {r[1] : r \in State.retrievals[<<"CONTRADICT", h>>].results}
    \cup UNION {EvidenceOf(State.records[id].links) : id \in claims \cup Ids(State, "timeline")}

Proposed(h, d) ==
  [type |-> d.type, strength |-> d.strength, params |-> d.params, evidence |-> d.evidence,
   claims |-> d.claims, hypothesis |-> h, status |-> "PENDING", outcome |-> None, cited |-> {}]
Critiques(h) ==
  LET accepted == {c \in world.critiques : Citable(c, Relevant(h), Ids(State, "claim"), Ids(State, "timeline"))}
      Create(c, i) == [kind |-> "TEST_CREATED", id |-> 10 * h + i,
                       test |-> Proposed(h, c.tests[i])]
  IN IF <<"CONTRADICT", h>> \notin DOMAIN State.retrievals THEN {}
     ELSE {<<[kind |-> "CRITIQUE_CREATED", id |-> h, contradiction |-> c.contradiction,
              tests |-> ToSet(c.tests)]>>
             \o [i \in DOMAIN c.tests |-> Create(c, i)] : c \in accepted}

Resolution(k, st, v) == <<[kind |-> "TEST_RESOLVED", id |-> k, draft |-> Draft(Test(k)),
                           status |-> st, outcome |-> v.outcome, cited |-> v.cited]>>
\* A semantic comparison whose requests are used up is resolved as failed.
Executions(k) ==
  IF UsesModel(Test(k))
  THEN {Resolution(k, "SUCCEEDED", v) : v \in SemanticVerdicts(Test(k), Evidence)}
         \cup {Resolution(k, "FAILED", Verdict(None, {}))}
  ELSE IF Executable(Test(k), Evidence, Ids(State, "claim"), Ids(State, "timeline"))
  THEN {Resolution(k, "SUCCEEDED", ExecuteTest(Test(k), Evidence, State.records))}
  ELSE {}

Revision ==
  LET revised(h) == ReviseConfidence(State.hypotheses[h].confidence, TestsOf(State, h))
      assigned   == AssignStatuses([h \in DOMAIN State.hypotheses |-> revised(h).after])
      Revise(h)  == LET r == revised(h) IN
                    [kind |-> "CONFIDENCE_REVISED", id |-> h, before |-> r.before,
                     delta |-> r.delta, after |-> r.after, deltas |-> r.deltas]
      Change(h)  == [kind |-> "STATUS_CHANGED", id |-> h,
                     before |-> State.hypotheses[h].status, after |-> assigned[h]]
      changed    == {h \in DOMAIN State.hypotheses : assigned[h] # State.hypotheses[h].status}
  IN SetToSeq({Revise(h) : h \in DOMAIN State.hypotheses}) \o SetToSeq({Change(h) : h \in changed})

\* All evidence the state refers to: get_state refuses a state that refers to an item which
\* has been withdrawn, candidate_batch a candidate, and most stages need some evidence.
References ==
  UNION {EvidenceOf(State.records[id].links) : id \in DOMAIN State.records}
    \cup UNION {{r[1] : r \in State.retrievals[q].results} : q \in DOMAIN State.retrievals}
    \cup UNION {Test(i).evidence \cup Test(i).cited : i \in DOMAIN State.tests}
Available(k) ==
  /\ References \subseteq eligible
  /\ Promotes /\ k # CaseKey => EvidenceOf(LinksOf(Candidates, Batch(Candidates, k))) \subseteq eligible
  /\ eligible # {} \/ stage \in {"REVISE_CONFIDENCE", "VERIFY_REPLAY", "COMPLETE"} \/ (Promotes /\ k = CaseKey)

Results(k) ==
  CASE Promotes -> Promotions(k)
    [] stage = "GENERATE_HYPOTHESES" -> Hypotheses
    [] Searches -> Retrievals(k)
    [] stage = "DESIGN_FALSIFICATION_TESTS" -> Critiques(k)
    [] stage = "EXECUTE_FALSIFICATION_TESTS" -> Executions(k)
    [] stage = "REVISE_CONFIDENCE" -> {Revision}
    [] stage = "VERIFY_REPLAY" -> {<<>>}
    [] stage = "COMPLETE" -> {<<[kind |-> "COMPLETED", state |-> State]>>}

-----------------------------------------------------------------------------
(* persist_stage_result *)

\* the evidence a critique or a test names and a resolution cites
TestEvidence(m) ==
  CASE m.kind = "CRITIQUE_CREATED" -> UNION {t.evidence : t \in m.tests}
    [] m.kind = "TEST_CREATED" -> m.test.evidence
    [] m.kind = "TEST_RESOLVED" -> m.draft.evidence \cup m.cited
    [] OTHER -> {}

\* _ALLOWED and the checks of each mutation against the job and the evidence of the moment
Attributed(k, m) ==
  /\ TestEvidence(m) \subseteq eligible
  /\ CASE Promotes -> m.kind = "RECORD_CREATED" /\ m.id[1] = KindOf[stage]
       [] stage = "GENERATE_HYPOTHESES" -> m.kind = "HYPOTHESIS_CREATED"
       [] Searches -> m.kind = "RETRIEVAL_COMPLETED" /\ m.id = <<Intent, k>> /\ m.query.intent = Intent
       [] stage = "DESIGN_FALSIFICATION_TESTS" ->
            \/ m.kind = "CRITIQUE_CREATED" /\ m.id = k
            \/ m.kind = "TEST_CREATED" /\ m.test.hypothesis = k
       [] stage = "EXECUTE_FALSIFICATION_TESTS" -> m.kind = "TEST_RESOLVED" /\ m.id = k
       [] stage = "REVISE_CONFIDENCE" -> m.kind \in {"CONFIDENCE_REVISED", "STATUS_CHANGED"}
       [] stage = "COMPLETE" -> m.kind = "COMPLETED"
       [] OTHER -> FALSE

CoversBatch(k, ms) ==
  LET B == IF k = CaseKey THEN {} ELSE Batch(Candidates, k) IN
  /\ UNION {ms[i].sources : i \in DOMAIN ms} = B
  /\ \A i, j \in DOMAIN ms : i # j => ms[i].sources \cap ms[j].sources = {}

Counted(k, ms) ==
  CASE Promotes -> CoversBatch(k, ms)
    [] stage = "GENERATE_HYPOTHESES" -> Len(ms) \in MinHypotheses..MaxHypotheses
    [] Searches \/ stage = "DESIGN_FALSIFICATION_TESTS" -> k # CaseKey => ms # <<>>
    [] stage = "EXECUTE_FALSIFICATION_TESTS" -> k # CaseKey => Len(ms) = 1
    [] stage = "COMPLETE" -> Len(ms) = 1
    [] OTHER -> TRUE

Written(ms) ==
  LET after[n \in 0..Len(ms)] == IF n = 0 THEN tables ELSE Write(after[n - 1], ms[n])
  IN  after[Len(ms)]

\* after the writes: the tables are what the log replays to, every hypothesis is
\* revised and its status is the one its confidence gives it
Consistent(ms) ==
  LET after == Replay(replayed, ms) IN
  /\ after.ok /\ Stored(Written(ms)) = after.state
  /\ stage = "REVISE_CONFIDENCE" =>
       /\ DOMAIN after.state.revisions = DOMAIN after.state.hypotheses
       /\ \A h \in DOMAIN after.state.hypotheses :
            after.state.hypotheses[h].status = AssignStatuses(Confidences(after.state))[h]

Passes(k, ms) ==
  /\ State = replayed
  /\ \A i \in DOMAIN ms : Attributed(k, ms[i])
  /\ Counted(k, ms)
  /\ Consistent(ms)

Finish(k) ==
  IF done \cup {k} # WorkKeys THEN done' = done \cup {k} /\ UNCHANGED <<stage, status>>
  ELSE IF stage = "COMPLETE"
       THEN done' = done \cup {k} /\ status' = "SUCCEEDED" /\ UNCHANGED stage
       ELSE /\ done' = {} /\ UNCHANGED status
            /\ stage' = StageOrder[CHOOSE i \in 2..11 : StageOrder[i - 1] = stage]

-----------------------------------------------------------------------------
Open(k) == status = "RUNNING" /\ k \in WorkKeys \ done

Answer(k) ==
  /\ Open(k) /\ k \notin DOMAIN answers /\ Available(k)
  /\ \E ms \in Results(k) : answers' = Put(answers, k, ms)
  /\ UNCHANGED <<world, eligible, stage, status, done, tables, replayed>>

\* no usable answer in three requests, or a prompt that is too long
Exhausted(k) ==
  /\ Open(k) /\ k \notin DOMAIN answers
  /\ stage \notin {"REVISE_CONFIDENCE", "VERIFY_REPLAY", "COMPLETE"}
  /\ Promotes => k # CaseKey
  /\ stage = "EXECUTE_FALSIFICATION_TESTS" => UsesModel(Test(k))
  /\ status' = "FAILED" /\ answers' = <<>>
  /\ UNCHANGED <<world, eligible, stage, done, tables, replayed>>

\* the worker raises before it has asked the model
Unavailable(k) ==
  /\ Open(k) /\ k \notin DOMAIN answers /\ ~Available(k)
  /\ status' = "FAILED" /\ answers' = <<>>
  /\ UNCHANGED <<world, eligible, stage, done, tables, replayed>>

Lost(k) ==
  /\ k \in DOMAIN answers
  /\ answers' = Restrict(answers, DOMAIN answers \ {k})
  /\ UNCHANGED <<world, eligible, stage, status, done, tables, replayed>>

Persist(k) ==
  /\ Open(k) /\ k \in DOMAIN answers
  /\ IF Passes(k, answers[k])
     THEN /\ tables' = Written(answers[k])
          /\ replayed' = Replay(replayed, answers[k]).state
          /\ answers' = Restrict(answers, DOMAIN answers \ {k})
          /\ Finish(k)
     ELSE /\ status' = "FAILED" /\ answers' = <<>>
          /\ UNCHANGED <<stage, done, tables, replayed>>
  /\ UNCHANGED <<world, eligible>>

\* complete_semantic_unit under another template: the completion of a unit points to the
\* new run, and the items of the old one are no longer evidence.
Reinterpret ==
  /\ status = "RUNNING"
  /\ \E unit \in world.units : eligible' = eligible \ unit
  /\ UNCHANGED <<world, stage, status, done, answers, tables, replayed>>

Next ==
  \/ \E k \in WorkKeys : Answer(k) \/ Exhausted(k) \/ Unavailable(k) \/ Lost(k) \/ Persist(k)
  \/ Reinterpret

Spec == Init /\ [][Next]_vars

-----------------------------------------------------------------------------
(* Whatever groups the model makes of them, every candidate of a finished batch *)
(* is the source of exactly one record of its kind, and a record has exactly    *)
(* the evidence of its candidates, for and against (promotion.py).              *)
SourcedBy(kind, c) == {id \in Ids(State, kind) : c \in State.records[id].sources}
LineageKept ==
  LET Position(s) == CHOOSE i \in DOMAIN StageOrder : StageOrder[i] = s IN
  \A s \in DOMAIN KindOf :
    LET cands == world.candidates[KindOf[s]] IN
    /\ \A c \in DOMAIN cands :
         Cardinality(SourcedBy(KindOf[s], c)) =
           IF Position(s) < Position(stage)
              \/ (s = stage /\ (c - 1) \div BatchSize \in done) THEN 1 ELSE 0
    /\ \A id \in Ids(State, KindOf[s]) :
         State.records[id].links = LinksOf(cands, State.records[id].sources)

(* Entities merge exactly when their names hang together: there is no way to    *)
(* split the candidates into two groups without a name in common                *)
(* (promotion.py _entity_names).                                                *)
MergesAreIdentities ==
  stage = "RESOLVE_ENTITIES" =>
    \A S \in (SUBSET DOMAIN Candidates) \ {{}} :
      Connected(Candidates, S) <=>
        \A T \in (SUBSET S) \ {{}, S} :
          NamesOf(Candidates, T) \cap NamesOf(Candidates, S \ T) # {}

(* Whatever siblings commit in the meantime, an answer that was accepted when it *)
(* was computed passes every check of persist_stage_result, and the tables then  *)
(* hold what the event log replays to: unless a test it proposes or resolves     *)
(* names evidence that has been withdrawn since, which is the one thing that     *)
(* may turn an accepted answer into a failed investigation.                      *)
AnswersPersist ==
  \A k \in DOMAIN answers :
    (\A i \in DOMAIN answers[k] : TestEvidence(answers[k][i]) \subseteq eligible)
      => Passes(k, answers[k])

(* A test that says something for or against a hypothesis cites pinned evidence  *)
(* in its scope, a comparison of two events cites each of them, and a claim      *)
(* contradicted by a test has evidence against it that does not also support it  *)
(* (falsification.py, worker.py _materialize).                                   *)
VerdictsGrounded ==
  \A k \in DOMAIN tables.tests :
    LET t == Test(k)
        Cited(id, polarity) == {e \in t.cited : <<e, polarity>> \in State.records[id].links}
    IN t.outcome \in {"SURVIVED", "CONTRADICTED"} =>
         /\ t.cited # {} /\ t.cited \subseteq Scope(t, world.evidence)
         /\ t.type = "TEMPORAL_CONSISTENCY" =>
              \A id \in {t.params.before, t.params.after} : Cited(id, "CITED") # {}
         /\ t.type = "CLAIM_CONTRADICTION" /\ t.outcome = "CONTRADICTED" =>
              \E id \in t.claims : ~(Cited(id, "CONTRADICTING") \subseteq Cited(id, "SUPPORTING"))

(* Of two hypotheses that start with the same confidence and face the same tests, *)
(* the one that does no worse in any of them does not end lower (confidence.py).  *)
Favour(t) == CASE t.outcome = "CONTRADICTED" -> 0
               [] t.outcome = "EXPECTED_EVIDENCE_MISSING" -> 1
               [] t.outcome = "SURVIVED" -> 3
               [] OTHER -> 2
NoWorse(g, h) ==
  /\ State.hypotheses[g].initial = State.hypotheses[h].initial
  /\ {k - 10 * g : k \in DOMAIN TestsOf(State, g)} = {k - 10 * h : k \in DOMAIN TestsOf(State, h)}
  /\ \A k \in DOMAIN TestsOf(State, g) :
       LET other == Test(k + 10 * (h - g)) IN
       Draft(Test(k)) = Draft(other) /\ Favour(Test(k)) <= Favour(other)
BetterTestsNeverLower ==
  \A g, h \in DOMAIN tables.revisions :
    NoWorse(g, h) => tables.revisions[g].after <= tables.revisions[h].after

(* There is at most one leading hypothesis; it is ahead of all others, was        *)
(* searched for contradictions and has no test left (confidence.py, worker.py).   *)
LeaderJustified ==
  \A h \in DOMAIN tables.hypotheses : tables.hypotheses[h].status = "LEADING" =>
    /\ tables.hypotheses[h].confidence >= 5000
    /\ \A g \in DOMAIN tables.hypotheses \ {h} :
         tables.hypotheses[g].confidence < tables.hypotheses[h].confidence
    /\ <<"CONTRADICT", h>> \in DOMAIN tables.queries
    /\ DOMAIN TestsOf(State, h) # {}
    /\ \A k \in DOMAIN TestsOf(State, h) : Test(k).status # "PENDING"

(* A search, with any filters over the promoted entities and events, returns only *)
(* evidence that passes them all, and leaves out one that does only when the page *)
(* is full of evidence that ranks at least as high (retrieval/repository.py).     *)
Queries ==
  [types : {{}, {"PHOTO"}}, entities : {{}} \cup {{id} : id \in Ids(State, "entity")},
   timed : BOOLEAN, from : {1}, until : {1}, limit : 1..2]
SearchIsComplete ==
  stage = "GENERATE_HYPOTHESES" =>
    \A q \in Queries, text \in DOMAIN world.ranks :
      LET fts   == world.ranks[text]
          found == Search(q, Evidence, fts, State.records)
          fits  == {e \in DOMAIN Evidence :
                      /\ fts[e] > 0
                      /\ q.types # {} => Evidence[e].type \in q.types
                      /\ q.entities # {} => \E id \in q.entities : e \in EvidenceOf(State.records[id].links)
                      /\ q.timed => \E id \in Ids(State, "timeline") :
                                      /\ State.records[id].says.at \in q.from..q.until
                                      /\ e \in EvidenceOf(State.records[id].links)}
          Worth(e) == Total(q, fts, State.records, e)
      IN /\ ToSet(found) \subseteq fits
         /\ \A e \in fits \ ToSet(found) :
              Len(found) = q.limit /\ \A i \in DOMAIN found : Worth(found[i]) >= Worth(e)
=============================================================================
