---------------------------- MODULE MCAssessment ----------------------------
(* Assessment on a few worlds, each made for a group of stages. *)
EXTENDS Assessment

Cited(S) == S \X {"CITED"}
For(S)     == S \X {"SUPPORTING"}
Against(S) == S \X {"CONTRADICTING"}
Says(text) == [text |-> text, at |-> NoTime, precision |-> "UNKNOWN"]
When(text, at, precision) == [text |-> text, at |-> at, precision |-> precision]
Candidate(says, names, links) == [says |-> says, names |-> names, links |-> links]

Idea(tokens, confidence, S, C) ==
  [tokens |-> tokens, confidence |-> confidence, supporting |-> S, contradicting |-> C, questions |-> {}]
Asking(idea) == [idea EXCEPT !.questions = {"why"}]
TestDraft(type, strength, params, E, C) ==
  [type |-> type, strength |-> strength, params |-> params, evidence |-> E, claims |-> C]
NoParams == [version |-> "v1"]
Semantic(strength, e) == TestDraft("SEMANTIC_COMPARISON", strength, NoParams, {e}, {})
Present(type, subtype, E) ==
  TestDraft("EVIDENCE_PRESENCE", "MEDIUM", [type |-> type, subtype |-> subtype], E, {})
Order(a, b, E) ==
  TestDraft("TEMPORAL_CONSISTENCY", "HIGH", [before |-> <<"timeline", a>>, after |-> <<"timeline", b>>], E, {})
Claims(C, E) == TestDraft("CLAIM_CONTRADICTION", "HIGH", NoParams, E, {<<"claim", c>> : c \in C})
Critique(contradiction, tests) == [contradiction |-> contradiction, tests |-> tests]

Photo == [type |-> "PHOTO", subtype |-> "wreck"]
Record == [type |-> "RECORD", subtype |-> "log"]
OneClaim == <<Candidate(Says("a"), {}, For({1}))>>
TwoIdeas == <<Idea({"x"}, 600, {<<"claim", 1>>}, {}), Idea({"y"}, 600, {}, {<<"claim", 1>>})>>

\* two batches of entities, a chain of names; claims that agree and disagree
Grouping ==
  [evidence |-> <<Photo, Record, Photo>>, units |-> {{3}},
   candidates |->
     [timeline |-> <<Candidate(When("t", 1, "EXACT"), {}, Cited({2}))>>,
      entity |-> <<Candidate(Says("person"), {"n1", "n2"}, Cited({1})),
                   Candidate(Says("person"), {"n2", "n3"}, Cited({2})),
                   Candidate(Says("person"), {"n3"}, Cited({3})),
                   Candidate(Says("person"), {"n1"}, Cited({1}))>>,
      claim |-> <<Candidate(Says("a"), {}, For({1}) \cup Against({2})),
                  Candidate(Says("a"), {}, Against({3}))>>],
   ideas |-> TwoIdeas, critiques |-> {Critique(None, <<Present("PHOTO", Anything, {})>>)},
   ranks |-> [all |-> <<20, 30, 20>>]]

\* events that can and cannot be compared, tests that name what is not there
Ordering ==
  [evidence |-> <<Record, Record, Photo>>, units |-> {{1, 3}},
   candidates |->
     [timeline |-> <<Candidate(When("t1", 1, "EXACT"), {}, Cited({1})),
                     Candidate(When("t2", 2, "EXACT"), {}, Cited({2})),
                     Candidate(When("t3", 2, "APPROXIMATE"), {}, Cited({2}))>>,
      entity |-> <<>>, claim |-> OneClaim],
   ideas |-> TwoIdeas,
   critiques |-> {Critique(None, <<Order(1, 2, {}), Order(2, 1, {1})>>),
                  Critique(<<"evidence", 1>>, <<Order(2, 1, {}), Present("RECORD", "radar", {1})>>),
                  Critique(<<"claim", 1>>, <<Order(1, 3, {}), Present(Anything, Anything, {})>>),
                  Critique(None, <<Order(1, 9, {})>>),
                  Critique(None, <<Order(1, 2, {}), Order(1, 2, {})>>),
                  Critique(<<"evidence", 3>>, <<Present("RECORD", "radar", {3})>>)},
   ranks |-> [some |-> <<10, 0, 0>>, none |-> <<0, 0, 0>>]]

\* comparisons by the model of hypotheses that start low and equal
Judging ==
  [evidence |-> <<Record>>, units |-> {{1}},
   candidates |-> [timeline |-> <<>>, entity |-> <<>>, claim |-> OneClaim],
   ideas |-> TwoIdeas,
   critiques |-> {Critique(None, <<Semantic("HIGH", 1), Semantic("LOW", 1)>>)},
   ranks |-> [all |-> <<10>>]]

\* three of four ideas, two too close; claims for, against and both; ties at the threshold
Ranking ==
  [evidence |-> <<Record, Photo>>, units |-> {{1}, {2}},
   candidates |->
     [timeline |-> <<>>, entity |-> <<>>,
      claim |-> <<Candidate(Says("a"), {}, For({1})),
                  Candidate(Says("b"), {}, Against({2})),
                  Candidate(Says("c"), {}, For({1}) \cup Against({1}))>>],
   ideas |-> <<Asking(Idea({"x"}, 4400, {<<"claim", 1>>}, {})),
               Idea({"y"}, 4400, {<<"claim", 1>>}, {<<"claim", 2>>}),
               Idea({"x", "y"}, 8500, {}, {<<"claim", 3>>}),
               Idea({"x"}, 2000, {<<"claim", 2>>}, {})>>,
   critiques |-> {Critique(None, <<Claims({1}, {})>>), Critique(None, <<Claims({1, 2}, {})>>),
                  Critique(None, <<Claims({3}, {}), Present("PHOTO", Anything, {})>>)},
   ranks |-> [all |-> <<10, 10>>]]

\* nothing to explain
Sparse == [Judging EXCEPT !.candidates.claim = <<>>]

MCWorlds == {Grouping, Ordering, Judging, Ranking, Sparse}
=============================================================================
