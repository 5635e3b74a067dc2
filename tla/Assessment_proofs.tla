-------------------------- MODULE Assessment_proofs --------------------------
(***************************************************************************)
(* Proofs about the assessment, for every world: whatever candidates there *)
(* are, and whatever the model makes of them.                              *)
(***************************************************************************)
EXTENDS Assessment, FiniteSetTheorems, SequenceTheorems, Loops

-----------------------------------------------------------------------------
(***************************************************************************)
(* Entities merge exactly when their names hang together.                  *)
(***************************************************************************)
LEMMA MinIsLeast ==
  ASSUME NEW S \in SUBSET Nat, S # {}
  PROVE  Min(S) \in S /\ \A x \in S : Min(S) <= x
  BY LeastElement DEF Min

\* The candidates that may be taken in next, and the walk with the first of them.
Near(cands, w) == {c \in w.rest : cands[c].names \cap w.known # {}}
Onward(cands, w) ==
  IF Near(cands, w) = {} THEN w
  ELSE [known |-> w.known \cup cands[Min(Near(cands, w))].names,
        rest  |-> w.rest \ {Min(Near(cands, w))}]
Outset(cands, S) == [known |-> cands[Min(S)].names, rest |-> S \ {Min(S)}]

IsWalk(f, cands, S) ==
  f = [n \in 0..Cardinality(S) |-> IF n = 0 THEN Outset(cands, S) ELSE Onward(cands, f[n - 1])]

\* Known are the names of the candidates that are not left over, the first among them.
Walked(cands, S) ==
  {w \in [known : SUBSET NamesOf(cands, S), rest : SUBSET (S \ {Min(S)})] :
     w.known = NamesOf(cands, S \ w.rest)}

\* The walk sets out from the first candidate.
LEMMA OutsetWalked ==
  ASSUME NEW cands, NEW S \in SUBSET Nat, S # {}
  PROVE  Outset(cands, S) \in Walked(cands, S)
  <1>1. Min(S) \in S
    BY MinIsLeast
  <1>2. S \ (S \ {Min(S)}) = {Min(S)}
    BY <1>1
  <1>3. NamesOf(cands, {Min(S)}) = cands[Min(S)].names
    BY DEF NamesOf
  <1>4. NamesOf(cands, {Min(S)}) \subseteq NamesOf(cands, S)
    BY <1>1 DEF NamesOf
  <1> QED BY <1>2, <1>3, <1>4 DEF Outset, Walked

\* A step of the walk that takes in a candidate.
LEMMA TakesIn ==
  ASSUME NEW cands, NEW S \in SUBSET Nat, NEW w \in Walked(cands, S), Near(cands, w) # {}
  PROVE  \E c \in Near(cands, w) :
           /\ c \in w.rest
           /\ Onward(cands, w) = [known |-> w.known \cup cands[c].names, rest |-> w.rest \ {c}]
           /\ Onward(cands, w) \in Walked(cands, S)
  <1> DEFINE c == Min(Near(cands, w))
             v == [known |-> w.known \cup cands[c].names, rest |-> w.rest \ {c}]
  <1>1. w.rest \subseteq S \ {Min(S)} /\ w.known = NamesOf(cands, S \ w.rest)
    BY DEF Walked
  <1>2. c \in Near(cands, w) /\ c \in w.rest
    <2>1. Near(cands, w) \in SUBSET Nat
      BY <1>1 DEF Near
    <2> QED BY <2>1, MinIsLeast DEF Near
  <1>3. Onward(cands, w) = v
    BY DEF Onward
  <1> HIDE DEF c
  <1>4. v.known = NamesOf(cands, S \ v.rest)
    <2>1. S \ v.rest = (S \ w.rest) \cup {c}
      BY <1>1, <1>2
    <2>2. NamesOf(cands, (S \ w.rest) \cup {c}) = NamesOf(cands, S \ w.rest) \cup cands[c].names
      BY DEF NamesOf
    <2> QED BY <1>1, <2>1, <2>2
  <1>5. NamesOf(cands, S \ v.rest) \subseteq NamesOf(cands, S)
    BY DEF NamesOf
  <1>6. v \in Walked(cands, S)
    BY <1>1, <1>4, <1>5 DEF Walked
  <1> QED BY <1>2, <1>3, <1>6

\* The rounds of the walk.
LEMMA WalkSteps ==
  ASSUME NEW cands, NEW S \in SUBSET Nat, IsFiniteSet(S), S # {}
  PROVE  \E f : /\ Connected(cands, S) <=> f[Cardinality(S)].rest = {}
                /\ f[0] = Outset(cands, S)
                /\ \A n \in 1..Cardinality(S) : f[n] = Onward(cands, f[n - 1])
                /\ \A n \in 0..Cardinality(S) : f[n] \in Walked(cands, S)
  <1> DEFINE D == Walked(cands, S)
             N == Cardinality(S)
             F == [p \in Nat \X D |-> Onward(cands, p[2])]
  <1>1. N \in Nat
    BY FS_CardinalityType
  <1>2. Outset(cands, S) \in D
    BY OutsetWalked
  <1>3. \A w \in D : Onward(cands, w) \in D
    <2> SUFFICES ASSUME NEW w \in D PROVE Onward(cands, w) \in D
      OBVIOUS
    <2>1. CASE Near(cands, w) = {}
      BY <2>1 DEF Onward
    <2>2. CASE Near(cands, w) # {}
      BY <2>2, TakesIn
    <2> QED BY <2>1, <2>2
  <1> HIDE DEF D, N
  <1>4. F \in [Nat \X D -> D]
    BY <1>3
  <1>5. PICK f : IsLoop(f, D, Outset(cands, S), F, N)
    <2> HIDE DEF F
    <2> QED BY <1>1, <1>2, <1>4, Recursion
  <1>6. f \in [0..N -> D] /\ f[0] = Outset(cands, S) /\ \A n \in 1..N : f[n] = F[<<n, f[n - 1]>>]
    BY <1>5 DEF IsLoop
  <1>7. \A n \in 1..N : f[n] = Onward(cands, f[n - 1])
    <2> SUFFICES ASSUME NEW n \in 1..N PROVE f[n] = Onward(cands, f[n - 1])
      OBVIOUS
    <2>1. <<n, f[n - 1]>> \in Nat \X D
      BY <1>1, <1>6
    <2> QED BY <1>6, <2>1
  <1>8. IsWalk(f, cands, S)
    <2>1. \A n \in 0..N : f[n] = IF n = 0 THEN Outset(cands, S) ELSE Onward(cands, f[n - 1])
      BY <1>1, <1>6, <1>7
    <2> QED BY <1>6, <2>1 DEF IsWalk, N
  <1>9. \E g : IsWalk(g, cands, S) /\ (Connected(cands, S) <=> g[Cardinality(S)].rest = {})
    BY <1>8, ZenonT(60) DEF IsWalk, Connected, Outset, Onward, Near
  <1>10. PICK g : IsWalk(g, cands, S) /\ (Connected(cands, S) <=> g[N].rest = {})
    BY <1>9 DEF N
  <1>11. g[0] = Outset(cands, S) /\ \A n \in 1..N : g[n] = Onward(cands, g[n - 1])
    BY <1>1, <1>10 DEF IsWalk, N
  <1>12. Stays(g, D, N)
    BY <1>2, <1>3, <1>11 DEF Stays
  <1>13. \A n \in 0..N : g[n] \in D
    BY <1>1, <1>12, LoopStays
  <1> QED BY <1>10, <1>11, <1>13 DEF D, N

\* After as many rounds as there are candidates nothing more can be taken in.
LEMMA WalkEnds ==
  ASSUME NEW cands, NEW S \in SUBSET Nat, IsFiniteSet(S), S # {}, NEW f,
         f[0] = Outset(cands, S), \A n \in 1..Cardinality(S) : f[n] = Onward(cands, f[n - 1]),
         \A n \in 0..Cardinality(S) : f[n] \in Walked(cands, S)
  PROVE  Near(cands, f[Cardinality(S)]) = {}
  <1> DEFINE N == Cardinality(S)
             Left(m) == IsFiniteSet(f[m].rest) /\ Cardinality(f[m].rest) + m + 1 <= N
             T == {m \in Nat : m <= N => Near(cands, f[m]) = {} \/ Left(m)}
  <1>1. N \in Nat
    BY FS_CardinalityType
  <1>2. 0 \in T
    <2>1. f[0].rest = S \ {Min(S)} /\ Min(S) \in S
      BY MinIsLeast DEF Outset
    <2>2. IsFiniteSet(S \ {Min(S)}) /\ Cardinality(S \ {Min(S)}) = N - 1
      BY <2>1, FS_RemoveElement
    <2> QED BY <1>1, <2>1, <2>2
  <1>3. ASSUME NEW m \in T PROVE m + 1 \in T
    <2> SUFFICES ASSUME m + 1 <= N PROVE Near(cands, f[m + 1]) = {} \/ Left(m + 1)
      OBVIOUS
    <2>1. m \in 0..N /\ m + 1 \in 1..N /\ (m + 1) - 1 = m
      BY <1>1
    <2>2. f[m + 1] = Onward(cands, f[m])
      BY <2>1
    <2>3. CASE Near(cands, f[m]) = {}
      BY <2>2, <2>3 DEF Onward
    <2>4. CASE Near(cands, f[m]) # {}
      <3>1. f[m] \in Walked(cands, S) /\ Left(m)
        BY <2>1, <2>4
      <3>2. PICK c \in f[m].rest : f[m + 1].rest = f[m].rest \ {c}
        BY <2>2, <2>4, <3>1, TakesIn
      <3>3. /\ IsFiniteSet(f[m].rest \ {c})
            /\ Cardinality(f[m].rest \ {c}) = Cardinality(f[m].rest) - 1
        BY <3>1, FS_RemoveElement
      <3>4. Cardinality(f[m].rest) \in Nat
        BY <3>1, FS_CardinalityType
      <3> QED BY <1>1, <2>1, <3>1, <3>2, <3>3, <3>4
    <2> QED BY <2>3, <2>4
  <1>4. T = Nat
    <2> HIDE DEF T
    <2> QED BY <1>2, <1>3, SetInduction DEF T
  <1>5. Near(cands, f[N]) = {} \/ Left(N)
    BY <1>1, <1>4
  <1>6. ~Left(N)
    <2> SUFFICES ASSUME Left(N) PROVE FALSE
      OBVIOUS
    <2>1. Cardinality(f[N].rest) \in Nat
      BY FS_CardinalityType
    <2> QED BY <1>1, <2>1
  <1> QED BY <1>5, <1>6

\* No candidates can be set apart whose names are none of the others'.
HangsTogether(cands, S) ==
  \A T \in (SUBSET S) \ {{}, S} : NamesOf(cands, T) \cap NamesOf(cands, S \ T) # {}

\* Candidates set apart by their names are not connected: the walk stays on the side of the first.
LEMMA ApartUnconnected ==
  ASSUME NEW cands, NEW S \in SUBSET Nat, IsFiniteSet(S), S # {},
         NEW V \in SUBSET S, V # {}, Min(S) \notin V,
         NamesOf(cands, S \ V) \cap NamesOf(cands, V) = {}
  PROVE  ~Connected(cands, S)
  <1> DEFINE N == Cardinality(S)
             D == {w \in Walked(cands, S) : V \subseteq w.rest}
  <1>1. PICK f : /\ Connected(cands, S) <=> f[N].rest = {}
                 /\ f[0] = Outset(cands, S)
                 /\ \A n \in 1..N : f[n] = Onward(cands, f[n - 1])
    BY WalkSteps
  <1>2. N \in Nat
    BY FS_CardinalityType
  <1>3. Outset(cands, S) \in D
    BY OutsetWalked DEF Outset
  <1>4. ASSUME NEW w \in D PROVE Onward(cands, w) \in D
    <2>1. CASE Near(cands, w) = {}
      BY <2>1 DEF Onward
    <2>2. CASE Near(cands, w) # {}
      <3>1. PICK c \in Near(cands, w) :
              /\ Onward(cands, w) = [known |-> w.known \cup cands[c].names, rest |-> w.rest \ {c}]
              /\ Onward(cands, w) \in Walked(cands, S)
        BY <2>2, TakesIn
      <3>2. c \notin V
        <4> SUFFICES ASSUME c \in V PROVE FALSE
          OBVIOUS
        <4>1. cands[c].names \cap w.known # {} /\ w.known = NamesOf(cands, S \ w.rest)
          BY <3>1 DEF Near, Walked
        <4>2. NamesOf(cands, S \ w.rest) \subseteq NamesOf(cands, S \ V)
          BY DEF NamesOf
        <4>3. cands[c].names \subseteq NamesOf(cands, V)
          BY DEF NamesOf
        <4> QED BY <4>1, <4>2, <4>3
      <3> QED BY <3>1, <3>2
    <2> QED BY <2>1, <2>2
  <1> HIDE DEF D
  <1>5. Stays(f, D, N)
    BY <1>1, <1>3, <1>4 DEF Stays
  <1>6. f[N] \in D
    BY <1>2, <1>5, LoopStays
  <1> QED BY <1>1, <1>6 DEF D

\* _entity_names accepts a group just when it hangs together.
LEMMA ConnectedExactly ==
  ASSUME NEW cands, NEW S \in SUBSET Nat, IsFiniteSet(S), S # {}
  PROVE  Connected(cands, S) <=> HangsTogether(cands, S)
  <1>1. ASSUME Connected(cands, S), ~HangsTogether(cands, S) PROVE FALSE
    <2>1. PICK T \in (SUBSET S) \ {{}, S} : NamesOf(cands, T) \cap NamesOf(cands, S \ T) = {}
      BY <1>1 DEF HangsTogether
    <2>2. Min(S) \in S
      BY MinIsLeast
    <2> DEFINE V == S \ T
    <2>0. V \in SUBSET S /\ V # {} /\ S \ V = T /\ NamesOf(cands, S \ T) \cap NamesOf(cands, T) = {}
      BY <2>1
    <2>3. CASE Min(S) \in T
      <3>1. Min(S) \notin V /\ NamesOf(cands, S \ V) \cap NamesOf(cands, V) = {}
        BY <2>0, <2>1, <2>3
      <3> HIDE DEF V
      <3> QED BY <1>1, <2>0, <3>1, ApartUnconnected
    <2>4. CASE Min(S) \notin T
      <3>1. T \in SUBSET S /\ T # {}
        BY <2>1
      <3> QED BY <1>1, <2>0, <2>4, <3>1, ApartUnconnected
    <2> QED BY <2>3, <2>4
  <1>2. ASSUME HangsTogether(cands, S) PROVE Connected(cands, S)
    <2>1. PICK f : /\ Connected(cands, S) <=> f[Cardinality(S)].rest = {}
                   /\ f[0] = Outset(cands, S)
                   /\ \A n \in 1..Cardinality(S) : f[n] = Onward(cands, f[n - 1])
                   /\ \A n \in 0..Cardinality(S) : f[n] \in Walked(cands, S)
      BY WalkSteps
    <2> DEFINE w == f[Cardinality(S)]
    <2>2. Near(cands, w) = {}
      BY <2>1, WalkEnds
    <2>3. w \in Walked(cands, S)
      BY <2>1, FS_CardinalityType
    <2>4. w.rest \subseteq S \ {Min(S)} /\ w.known = NamesOf(cands, S \ w.rest) /\ Min(S) \in S
      BY <2>3, MinIsLeast DEF Walked
    <2>5. NamesOf(cands, S \ w.rest) \cap NamesOf(cands, w.rest) = {}
      BY <2>2, <2>4 DEF Near, NamesOf
    <2>6. S \ (S \ w.rest) = w.rest
      BY <2>4
    <2>7. w.rest = {}
      <3> SUFFICES ASSUME w.rest # {} PROVE FALSE
        OBVIOUS
      <3> DEFINE T == S \ w.rest
      <3>1. T \in (SUBSET S) \ {{}, S}
        BY <2>4
      <3>2. NamesOf(cands, T) \cap NamesOf(cands, S \ T) = {}
        BY <2>5, <2>6
      <3> HIDE DEF T
      <3> QED BY <1>2, <3>1, <3>2 DEF HangsTogether
    <2> QED BY <2>1, <2>7
  <1> QED BY <1>1, <1>2

\* Entities merge exactly when their names hang together: the walk of `_entity_names` from one name
\* to the next refuses a group just when it can be split without a name in common, in every world.
THEOREM MergesExact == Spec => []MergesAreIdentities
  <1>1. Init => world \in World
    BY DEF Init
  <1>2. world \in World /\ [Next]_vars => (world \in World)'
    BY DEF Next, Answer, Exhausted, Unavailable, Lost, Persist, Reinterpret, vars
  <1>3. world \in World => MergesAreIdentities
    <2> SUFFICES ASSUME world \in World, stage = "RESOLVE_ENTITIES",
                        NEW S \in (SUBSET DOMAIN Candidates) \ {{}}
                 PROVE  Connected(Candidates, S) <=> HangsTogether(Candidates, S)
      BY DEF MergesAreIdentities, HangsTogether
    <2>1. Candidates = world.candidates["entity"]
      BY DEF Candidates, KindOf
    <2>2. Len(Candidates) \in Nat /\ DOMAIN Candidates = 1..Len(Candidates)
      BY <2>1, WorldAssumption DEF Numbered
    <2>3. S \in SUBSET Nat
      BY <2>2
    <2>4. IsFiniteSet(S)
      <3>1. S \in SUBSET (1..Len(Candidates))
        BY <2>2
      <3>2. IsFiniteSet(1..Len(Candidates))
        BY <2>2, FS_Interval
      <3> QED BY <3>1, <3>2, FS_Subset
    <2> QED BY <2>3, <2>4, ConnectedExactly
  <1> QED BY <1>1, <1>2, <1>3, PTL DEF Spec

-----------------------------------------------------------------------------
(***************************************************************************)
(* The invariant of an assessment.  Replay rejects what does not fit the    *)
(* state, so that what a stage has achieved for a hypothesis, a test or a   *)
(* candidate is known from the checks of persist_stage_result and from what *)
(* the stages may answer.                                                   *)
(***************************************************************************)
Shape == {"records", "hypotheses", "claimLinks", "questions", "critiques", "tests", "revisions",
          "retrievals"}
TestShape == {"type", "strength", "params", "evidence", "claims", "hypothesis", "status",
              "outcome", "cited"}

AfterRevision   == {"VERIFY_REPLAY", "COMPLETE"}
AfterTests      == {"REVISE_CONFIDENCE"} \cup AfterRevision
AfterDesign     == {"EXECUTE_FALSIFICATION_TESTS"} \cup AfterTests
AfterSearch     == {"DESIGN_FALSIFICATION_TESTS"} \cup AfterDesign
AfterGeneration == {"SEARCH_SUPPORT", "SEARCH_CONTRADICTIONS"} \cup AfterSearch

\* h was worked on in stage s, which is over or has done it.
Handled(s, after, k) == stage \in after \/ (stage = s /\ k \in done)

\* What has become of the hypotheses.
HypothesesInv(p) ==
  /\ DOMAIN p.hypotheses \subseteq DOMAIN world.ideas
  /\ stage \in AfterGeneration => DOMAIN p.hypotheses # {}
  /\ \A h \in DOMAIN p.hypotheses :
       /\ DOMAIN p.hypotheses[h] = {"initial", "confidence", "status"}
       /\ p.hypotheses[h].confidence \in Int
       /\ p.hypotheses[h].status = IF stage \in AfterRevision THEN AssignStatuses(Confidences(p))[h]
                                                              ELSE "ACTIVE"
       /\ Handled("SEARCH_CONTRADICTIONS", AfterSearch, h) => <<"CONTRADICT", h>> \in DOMAIN p.retrievals
       /\ Handled("DESIGN_FALSIFICATION_TESTS", AfterDesign, h) =>
            \E i \in DOMAIN p.tests : p.tests[i].hypothesis = h

\* A verdict on test t that follows from the evidence and the records.
VerdictHolds(t, v, p) ==
  LET By(id, polarity) == {e \in v.cited : <<e, polarity>> \in p.records[id].links}
  IN v.outcome \in {"SURVIVED", "CONTRADICTED"} =>
       /\ v.cited # {} /\ v.cited \subseteq Scope(t, world.evidence)
       /\ t.type = "TEMPORAL_CONSISTENCY" =>
            \A id \in {t.params.before, t.params.after} : By(id, "CITED") # {}
       /\ t.type = "CLAIM_CONTRADICTION" /\ v.outcome = "CONTRADICTED" =>
            \E id \in t.claims : ~(By(id, "CONTRADICTING") \subseteq By(id, "SUPPORTING"))

TestsInv(p) ==
  /\ stage \notin AfterSearch => DOMAIN p.tests = {}
  /\ \A i \in DOMAIN p.tests :
       /\ i \in Nat /\ DOMAIN p.tests[i] = TestShape /\ p.tests[i].type \in TestType
       /\ Handled("EXECUTE_FALSIFICATION_TESTS", AfterTests, i) => p.tests[i].status # "PENDING"
       /\ VerdictHolds(p.tests[i], p.tests[i], p)

\* The batches that are promoted.
Earlier(s, t) == \E i, j \in DOMAIN StageOrder : i < j /\ StageOrder[i] = s /\ StageOrder[j] = t
Sourced(p, s, c) == {id \in Ids(p, KindOf[s]) : c \in p.records[id].sources}
BatchNo(c) == (c - 1) \div BatchSize
Placed(s, c) == Earlier(s, stage) \/ (s = stage /\ BatchNo(c) \in done)
RecordsInv(p) ==
  \A s \in DOMAIN KindOf :
    LET cands == world.candidates[KindOf[s]] IN
    /\ \A c \in DOMAIN cands :
         IF Placed(s, c) THEN \E id : Sourced(p, s, c) = {id} ELSE Sourced(p, s, c) = {}
    /\ \A id \in Ids(p, KindOf[s]) : p.records[id].links = LinksOf(cands, p.records[id].sources)

\* What an answer holds on to until it is persisted.
Fits(k, ms) ==
  /\ Numbered(ms)
  /\ Promotes => \A i \in DOMAIN ms : ms[i].links = LinksOf(Candidates, ms[i].sources)
  /\ stage = "GENERATE_HYPOTHESES" => \A i \in DOMAIN ms : ms[i].id \in DOMAIN world.ideas
  /\ Searches => Len(ms) = 1
  /\ stage = "DESIGN_FALSIFICATION_TESTS" =>
       /\ \E i \in DOMAIN ms : ms[i].kind = "TEST_CREATED"
       /\ \A i \in DOMAIN ms : ms[i].kind = "TEST_CREATED" =>
            ms[i].id \in Nat /\ DOMAIN ms[i].test = TestShape /\ ms[i].test.type \in TestType
  /\ stage = "EXECUTE_FALSIFICATION_TESTS" =>
       Len(ms) = 1 /\ VerdictHolds(replayed.tests[k], ms[1], replayed)

AssessInv ==
  /\ world \in World /\ eligible \subseteq Pinned /\ stage \in {StageOrder[i] : i \in DOMAIN StageOrder}
  /\ State = replayed /\ DOMAIN replayed = Shape
  /\ HypothesesInv(replayed) /\ TestsInv(replayed) /\ RecordsInv(replayed)
  /\ done \subseteq WorkKeys /\ DOMAIN answers \subseteq WorkKeys \ done
  /\ \A k \in DOMAIN answers : Fits(k, answers[k])

-----------------------------------------------------------------------------
(* Sequences.                                                               *)

\* A finite set in some order.
LEMMA SetInOrder ==
  ASSUME NEW S, IsFiniteSet(S)
  PROVE  /\ Numbered(SetToSeq(S)) /\ SetToSeq(S) \in Seq(S)
         /\ \A x \in S : \E i \in DOMAIN SetToSeq(S) : SetToSeq(S)[i] = x
         /\ IsInjective(SetToSeq(S)) /\ Len(SetToSeq(S)) = Cardinality(S)
  <1> DEFINE n == Cardinality(S)
             q == SetToSeq(S)
  <1>1. n \in Nat /\ ExistsBijection(1..n, S)
    BY FS_CardinalityType
  <1>2. \E f \in [1..n -> S] : IsInjective(f)
    BY <1>1 DEF ExistsBijection, Bijection, Injection
  <1>3. q \in [1..n -> S] /\ IsInjective(q)
    BY <1>2 DEF SetToSeq
  <1>4. Len(q) = n /\ DOMAIN q = 1..n
    BY <1>1, <1>3
  <1>5. q \in Surjection(1..n, S)
    <2>1. IsFiniteSet(1..n) /\ Cardinality(1..n) = n
      BY <1>1, FS_Interval
    <2>2. q \in Injection(1..n, S)
      BY <1>3 DEF Injection
    <2> QED BY <2>1, <2>2, FS_Injection
  <1>6. \A x \in S : \E i \in 1..n : q[i] = x
    BY <1>5 DEF Surjection
  <1> QED BY <1>1, <1>3, <1>4, <1>6 DEF Numbered

\* The items of c are those of a and of b.
Joins(c, a, b) ==
  /\ Numbered(c)
  /\ \A i \in DOMAIN c : (\E j \in DOMAIN a : c[i] = a[j]) \/ (\E j \in DOMAIN b : c[i] = b[j])
  /\ \A j \in DOMAIN b : \E i \in DOMAIN c : c[i] = b[j]

\* One sequence after another.
LEMMA OneAfterOther ==
  ASSUME NEW S, NEW a \in Seq(S), NEW b \in Seq(S)
  PROVE  Joins(a \o b, a, b)
  <1>1. /\ Len(a) \in Nat /\ Len(b) \in Nat /\ DOMAIN a = 1..Len(a) /\ DOMAIN b = 1..Len(b)
        /\ a \o b \in Seq(S) /\ Len(a \o b) = Len(a) + Len(b) /\ DOMAIN (a \o b) = 1..Len(a \o b)
        /\ \A i \in 1..(Len(a) + Len(b)) :
             (a \o b)[i] = IF i <= Len(a) THEN a[i] ELSE b[i - Len(a)]
    BY ConcatProperties, LenProperties
  <1> DEFINE c == a \o b
             m == Len(a)
             n == Len(b)
  <1>2. /\ m \in Nat /\ n \in Nat /\ Len(c) = m + n /\ DOMAIN c = 1..(m + n)
        /\ \A i \in 1..(m + n) : c[i] = IF i <= m THEN a[i] ELSE b[i - m]
    BY <1>1
  <1> HIDE DEF c, m, n
  <1>3. ASSUME NEW j \in 1..n PROVE m + j \in 1..(m + n) /\ c[m + j] = b[j]
    <2>1. m + j \in 1..(m + n) /\ ~(m + j <= m) /\ (m + j) - m = j
      BY <1>2
    <2> QED BY <1>2, <2>1
  <1>4. \A i \in 1..(m + n) : IF i <= m THEN i \in 1..m ELSE i - m \in 1..n
    BY <1>2
  <1>5. DOMAIN a = 1..m /\ DOMAIN b = 1..n
    BY <1>1 DEF m, n
  <1>6. Numbered(c)
    BY <1>2 DEF Numbered
  <1>7. \A i \in DOMAIN c : (\E j \in DOMAIN a : c[i] = a[j]) \/ (\E j \in DOMAIN b : c[i] = b[j])
    BY <1>2, <1>4, <1>5
  <1>8. \A j \in DOMAIN b : \E i \in DOMAIN c : c[i] = b[j]
    BY <1>2, <1>3, <1>5
  <1>9. Joins(c, a, b)
    BY <1>6, <1>7, <1>8 DEF Joins
  <1> QED BY <1>9 DEF c

-----------------------------------------------------------------------------
(* What replay accepts and applies.                                         *)

IsReplay(f, p, ms, n) ==
  f = [i \in 0..n |-> IF i = 0 THEN [ok |-> TRUE, state |-> p] ELSE Replayed(f[i - 1], ms[i])]

\* A round of a replay.
LEMMA ReplayRound ==
  ASSUME NEW f, NEW p, NEW ms, NEW n \in Nat, IsReplay(f, p, ms, n), NEW i \in 1..n
  PROVE  f[i] = Replayed(f[i - 1], ms[i])
  <1>1. i \in 0..n /\ i # 0
    OBVIOUS
  <1> QED BY <1>1 DEF IsReplay

\* A replay of n events exists.
LEMMA ReplayExists ==
  ASSUME NEW p, NEW ms, NEW n \in Nat
  PROVE  \E f : IsReplay(f, p, ms, n)
  <1> DEFINE T == {m \in Nat : \E f : IsReplay(f, p, ms, m)}
             from == [ok |-> TRUE, state |-> p]
  <1>1. 0 \in T
    <2> DEFINE f == [i \in 0..0 |-> from]
    <2>1. IsReplay(f, p, ms, 0)
      BY DEF IsReplay
    <2> QED BY <2>1
  <1>2. ASSUME NEW m \in T PROVE m + 1 \in T
    <2>1. PICK f : IsReplay(f, p, ms, m)
      OBVIOUS
    <2> DEFINE g == [i \in 0..(m + 1) |-> IF i <= m THEN f[i] ELSE Replayed(f[m], ms[m + 1])]
    <2>2. ASSUME NEW i \in 0..(m + 1)
          PROVE  g[i] = IF i = 0 THEN from ELSE Replayed(g[i - 1], ms[i])
      <3>1. CASE i = 0
        BY <2>1, <3>1 DEF IsReplay
      <3>2. CASE i # 0 /\ i <= m
        <4>1. f[i] = Replayed(f[i - 1], ms[i])
          BY <2>1, <3>2, ReplayRound
        <4>2. g[i] = f[i] /\ g[i - 1] = f[i - 1]
          BY <3>2
        <4> QED BY <3>2, <4>1, <4>2
      <3>3. CASE i = m + 1
        <4>1. g[i - 1] = f[m] /\ i - 1 = m
          BY <3>3
        <4>2. g[i] = Replayed(f[m], ms[m + 1])
          BY <3>3
        <4> QED BY <3>3, <4>1, <4>2
      <3> QED BY <3>1, <3>2, <3>3
    <2> HIDE DEF g
    <2>3. DOMAIN g = 0..(m + 1) /\ g = [i \in 0..(m + 1) |-> g[i]]
      BY DEF g
    <2>4. IsReplay(g, p, ms, m + 1)
      BY <2>2, <2>3 DEF IsReplay
    <2> QED BY <2>4
  <1>3. T = Nat
    BY <1>1, <1>2, SetInduction
  <1> QED BY <1>3

\* States from p to q by events that are accepted.
Path(s, p, q, ms) ==
  /\ s[0] = p /\ s[Len(ms)] = q
  /\ \A i \in 1..Len(ms) : Accepts(s[i - 1], ms[i]) /\ s[i] = Applied(s[i - 1], ms[i])

\* A replay that succeeds is a path of events that are accepted.
LEMMA ReplayAccepted ==
  ASSUME NEW p, NEW ms, Len(ms) \in Nat, Replay(p, ms).ok
  PROVE  \E s : Path(s, p, Replay(p, ms).state, ms)
  <1> DEFINE n == Len(ms)
  <1>1. \E f : IsReplay(f, p, ms, n)
    BY ReplayExists
  <1>2. PICK f : IsReplay(f, p, ms, n) /\ Replay(p, ms) = f[n]
    BY <1>1 DEF Replay, IsReplay
  <1> HIDE DEF n
  <1>3. n \in Nat /\ f[n].ok
    BY <1>2 DEF n
  <1>4. f[0] = [ok |-> TRUE, state |-> p] /\ \A i \in 1..n : f[i] = Replayed(f[i - 1], ms[i])
    <2>1. f[0] = [ok |-> TRUE, state |-> p]
      BY <1>2, <1>3 DEF IsReplay
    <2> QED BY <1>2, <1>3, <2>1, ReplayRound
  <1> DEFINE T == {m \in Nat : m <= n => f[n - m].ok}
  <1>5. 0 \in T
    BY <1>3
  <1>6. ASSUME NEW m \in T PROVE m + 1 \in T
    <2> SUFFICES ASSUME m + 1 <= n PROVE f[n - (m + 1)].ok
      OBVIOUS
    <2>1. f[n - m].ok /\ n - m \in 1..n /\ (n - m) - 1 = n - (m + 1)
      BY <1>3
    <2>2. f[n - m] = Replayed(f[n - (m + 1)], ms[n - m])
      BY <1>4, <2>1
    <2> HIDE DEF T
    <2> QED BY <2>1, <2>2 DEF Replayed
  <1>7. T = Nat
    BY <1>5, <1>6, SetInduction
  <1>8. ASSUME NEW i \in 0..n PROVE f[i].ok
    <2>1. n - i \in Nat /\ n - i <= n /\ n - (n - i) = i
      BY <1>3
    <2>2. n - i \in T
      BY <1>7, <2>1
    <2> QED BY <2>1, <2>2
  <1>9. ASSUME NEW i \in 1..n
        PROVE  Accepts(f[i - 1].state, ms[i]) /\ f[i].state = Applied(f[i - 1].state, ms[i])
    <2>1. f[i].ok /\ f[i] = Replayed(f[i - 1], ms[i])
      BY <1>3, <1>4, <1>8
    <2> QED BY <2>1 DEF Replayed
  <1> DEFINE s == [i \in 0..n |-> f[i].state]
  <1>10. s[0] = p /\ s[n] = Replay(p, ms).state
    BY <1>2, <1>3, <1>4
  <1>11. ASSUME NEW i \in 1..n
         PROVE  Accepts(s[i - 1], ms[i]) /\ s[i] = Applied(s[i - 1], ms[i])
    <2>1. s[i - 1] = f[i - 1].state /\ s[i] = f[i].state
      BY <1>3
    <2> QED BY <1>9, <2>1
  <1> QED BY <1>10, <1>11 DEF Path, n

-----------------------------------------------------------------------------
(* What an event changes.                                                   *)

Same(p, q, fields) == DOMAIN q = Shape /\ \A x \in fields : q[x] = p[x]

\* A promoted record is added.
LEMMA RecordEffect ==
  ASSUME NEW p, NEW m, DOMAIN p = Shape, m.kind = "RECORD_CREATED"
  PROVE  /\ Same(p, Applied(p, m), Shape \ {"records"})
         /\ Applied(p, m).records = Put(p.records, m.id, [says |-> m.says, names |-> m.names,
                                                          sources |-> m.sources, links |-> m.links])
  BY DEF Applied, Same, Shape

\* A hypothesis is added; records, tests and retrievals stay.
LEMMA HypothesisEffect ==
  ASSUME NEW p, NEW m, DOMAIN p = Shape, m.kind = "HYPOTHESIS_CREATED"
  PROVE  /\ Same(p, Applied(p, m), {"records", "tests", "retrievals"})
         /\ Applied(p, m).hypotheses = Put(p.hypotheses, m.id, Opening(m))
  BY DEF Applied, Same, Shape

\* A critique leaves all else as it is.
LEMMA CritiqueEffect ==
  ASSUME NEW p, NEW m, DOMAIN p = Shape, m.kind = "CRITIQUE_CREATED"
  PROVE  Same(p, Applied(p, m), Shape \ {"critiques"})
  BY DEF Applied, Same, Shape

\* A test is added.
LEMMA TestEffect ==
  ASSUME NEW p, NEW m, DOMAIN p = Shape, m.kind = "TEST_CREATED"
  PROVE  /\ Same(p, Applied(p, m), Shape \ {"tests"})
         /\ Applied(p, m).tests = Put(p.tests, m.id, m.test)
  BY DEF Applied, Same, Shape

\* A test is resolved in place.
LEMMA ResolutionEffect ==
  ASSUME NEW p, NEW m, DOMAIN p = Shape, m.kind = "TEST_RESOLVED"
  PROVE  /\ Same(p, Applied(p, m), Shape \ {"tests"})
         /\ Applied(p, m).tests = [p.tests EXCEPT ![m.id] = Resolved(@, m)]
  BY DEF Applied, Same, Shape

\* A revision changes the confidence of its hypothesis.
LEMMA RevisionEffect ==
  ASSUME NEW p, NEW m, DOMAIN p = Shape, m.kind = "CONFIDENCE_REVISED"
  PROVE  /\ Same(p, Applied(p, m), {"records", "tests", "retrievals"})
         /\ Applied(p, m).hypotheses = [p.hypotheses EXCEPT ![m.id].confidence = m.after]
  BY DEF Applied, Same, Shape

\* A change of status changes the status of its hypothesis.
LEMMA StatusEffect ==
  ASSUME NEW p, NEW m, DOMAIN p = Shape, m.kind = "STATUS_CHANGED"
  PROVE  /\ Same(p, Applied(p, m), {"records", "tests", "retrievals"})
         /\ Applied(p, m).hypotheses = [p.hypotheses EXCEPT ![m.id].status = m.after]
  BY DEF Applied, Same, Shape

\* A retrieval is added under its id.
LEMMA RetrievalEffect ==
  ASSUME NEW p, NEW m, DOMAIN p = Shape, m.kind = "RETRIEVAL_COMPLETED"
  PROVE  /\ Same(p, Applied(p, m), {"records", "tests", "hypotheses"})
         /\ DOMAIN Applied(p, m).retrievals = DOMAIN p.retrievals \cup {m.id}
  BY DEF Applied, Same, Shape, Put

\* Completion changes nothing of the state.
LEMMA CompletionEffect ==
  ASSUME NEW p, NEW m, m.kind = "COMPLETED"
  PROVE  Applied(p, m) = p
  BY DEF Applied

-----------------------------------------------------------------------------
(* The answers of each stage.                                               *)

Stages == {StageOrder[i] : i \in DOMAIN StageOrder}

\* The image of a finite set.
LEMMA ImageFinite ==
  ASSUME NEW S, IsFiniteSet(S), NEW f, DOMAIN f = S
  PROVE  IsFiniteSet({f[x] : x \in S})
  <1> DEFINE T == {f[x] : x \in S}
             g == [x \in S |-> f[x]]
  <1>1. g \in Surjection(S, T)
    BY DEF Surjection
  <1> QED BY <1>1, FS_Surjection

\* Records of a kind for the candidates B.
RecordsHold(evidence, kind, B, ms) ==
  /\ Numbered(ms)
  /\ \A i \in DOMAIN ms : LET m == ms[i] IN
       /\ m.kind = "RECORD_CREATED" /\ m.id[1] = kind /\ m.id[2] \in m.sources
       /\ m.links # {} /\ m.links \subseteq Nat \X Polarity /\ EvidenceOf(m.links) \subseteq evidence
  /\ UNION {ms[i].sources : i \in DOMAIN ms} = B
  /\ \A i, j \in DOMAIN ms : i # j => ms[i].sources \cap ms[j].sources = {}

\* What promotion proposes: each candidate of the batch in one record, with its evidence for and against.
BatchOfJob(k) == IF k = CaseKey THEN {} ELSE Batch(Candidates, k)
\* Each candidate of a batch is promoted in one record, with the links of its candidates.
LEMMA PromotionsFit ==
  ASSUME world \in World, eligible \subseteq Pinned, Promotes, NEW k, NEW ms \in Promotions(k)
  PROVE  /\ Numbered(ms) /\ \A i \in DOMAIN ms : ms[i].links = LinksOf(Candidates, ms[i].sources)
         /\ RecordsHold(Pinned, KindOf[stage], BatchOfJob(k), ms)
  <1> DEFINE B == BatchOfJob(k)
             Create(d) == [kind |-> "RECORD_CREATED", id |-> <<d.kind, Min(d.sources)>>,
                           says |-> d.says, names |-> d.names, sources |-> d.sources,
                           links |-> d.links]
  <1>1. CASE B = {}
    <2>1. ms = <<>>
      BY <1>1 DEF Promotions, BatchOfJob
    <2>2. Numbered(ms) /\ DOMAIN ms = {}
      BY <2>1 DEF Numbered
    <2>3. UNION {ms[i].sources : i \in DOMAIN ms} = B
      BY <1>1, <2>2
    <2> QED BY <2>2, <2>3 DEF RecordsHold
  <1>2. CASE B # {}
    <2>1. PICK D \in PromotionAnswers(Drafts(B), Candidates, B, eligible) :
                ms = SetToSeq({Create(d) : d \in D})
      BY <1>2 DEF Promotions, BatchOfJob
    <2>0. /\ DOMAIN Candidates = 1..Len(Candidates) /\ Len(Candidates) \in Nat
          /\ \A c \in DOMAIN Candidates : Candidates[c].links \subseteq Nat \X Polarity
      <3>1. KindOf[stage] \in {"timeline", "entity", "claim"}
        BY DEF Promotes, KindOf
      <3> QED BY <3>1, WorldAssumption DEF Candidates, Numbered
    <2>2. IsFiniteSet(B) /\ B \subseteq DOMAIN Candidates /\ B \subseteq Nat
      <3>2. IsFiniteSet(DOMAIN Candidates) /\ B \in SUBSET DOMAIN Candidates
        BY <2>0, FS_Interval, <1>2 DEF Batch, BatchOfJob
      <3> QED BY <2>0, <3>2, FS_Subset
    <2>3. /\ \A d \in D : /\ d.sources \subseteq B /\ d.sources # {} /\ d.kind = KindOf[stage]
                           /\ d.links = LinksOf(Candidates, d.sources) /\ d.links # {}
                           /\ EvidenceOf(d.links) \subseteq Pinned
          /\ \A a, b \in D : a # b => a.sources \cap b.sources = {}
          /\ UNION {d.sources : d \in D} = B
      <3> HIDE DEF B
      <3>1. D \subseteq {d \in Drafts(B) : d.sources \subseteq B /\ Sound(d, Candidates, eligible)}
        BY <2>1 DEF PromotionAnswers, kSubset
      <3>2. Accounted(D, B)
        BY <2>1 DEF PromotionAnswers
      <3>3. \A d \in Drafts(B) : d.kind = KindOf[stage]
        BY DEF Drafts
      <3> QED BY <3>1, <3>2, <3>3 DEF Sound, ExactLinks, Accounted
    <2> HIDE DEF B
    <2>4. IsFiniteSet(D)
      <3> DEFINE f == [d \in D |-> d.sources]
      <3>1. f \in [D -> SUBSET B] /\ IsInjective(f)
        BY <2>3 DEF IsInjective
      <3>2. f \in Injection(D, SUBSET B)
        BY <3>1 DEF Injection
      <3>3. IsFiniteSet(SUBSET B)
        BY <2>2, FS_SUBSET
      <3> QED BY <3>2, <3>3, FS_Injection
    <2> DEFINE M == {Create(d) : d \in D}
               g == [d \in D |-> Create(d)]
    <2>5. IsFiniteSet(M)
      <3>1. IsFiniteSet({g[d] : d \in D})
        <4>1. DOMAIN g = D
          OBVIOUS
        <4> HIDE DEF g
        <4> QED BY <2>4, <4>1, ImageFinite
      <3>2. M = {g[d] : d \in D}
        OBVIOUS
      <3> QED BY <3>1, <3>2
    <2> HIDE DEF M, g, Create
    <2>7. /\ Numbered(ms) /\ ms \in Seq(M) /\ IsInjective(ms)
          /\ \A m \in M : \E i \in DOMAIN ms : ms[i] = m
      BY <2>1, <2>5, SetInOrder DEF M
    <2>8. ASSUME NEW i \in DOMAIN ms
          PROVE  \E d \in D : ms[i] = Create(d)
      BY <2>7 DEF M
    <2>9. ASSUME NEW d \in D
          PROVE  LET m == Create(d) IN
                 /\ m.kind = "RECORD_CREATED" /\ m.id[1] = KindOf[stage] /\ m.id[2] \in m.sources
                 /\ m.sources = d.sources /\ m.links = d.links /\ m.links \subseteq Nat \X Polarity
      <3>1. d.links \subseteq Nat \X Polarity
        BY <2>0, <2>2, <2>3 DEF LinksOf
      <3>2. Min(d.sources) \in d.sources
        BY <2>2, <2>3, MinIsLeast
      <3> QED BY <2>3, <3>1, <3>2 DEF Create
    <2>10. ASSUME NEW i \in DOMAIN ms
           PROVE  /\ ms[i].kind = "RECORD_CREATED" /\ ms[i].id[1] = KindOf[stage]
                  /\ ms[i].id[2] \in ms[i].sources /\ ms[i].links # {}
                  /\ ms[i].links = LinksOf(Candidates, ms[i].sources)
                  /\ ms[i].links \subseteq Nat \X Polarity /\ EvidenceOf(ms[i].links) \subseteq Pinned
      <3>1. PICK d \in D : ms[i] = Create(d)
        BY <2>8
      <3> QED BY <2>3, <2>9, <3>1
    <2>11. ASSUME NEW i \in DOMAIN ms, NEW j \in DOMAIN ms, i # j
           PROVE  ms[i].sources \cap ms[j].sources = {}
      <3>1. ms[i] # ms[j]
        BY <2>7, <2>11 DEF IsInjective
      <3>2. PICK d \in D, e \in D : ms[i] = Create(d) /\ ms[j] = Create(e)
        BY <2>8
      <3>3. d # e
        BY <3>1, <3>2
      <3> QED BY <2>3, <2>9, <3>2, <3>3
    <2>12. UNION {ms[i].sources : i \in DOMAIN ms} = B
      <3>1. ASSUME NEW i \in DOMAIN ms PROVE ms[i].sources \subseteq B
        BY <2>3, <2>8, <2>9
      <3>2. ASSUME NEW c \in B PROVE \E i \in DOMAIN ms : c \in ms[i].sources
        <4>1. PICK d \in D : c \in d.sources
          BY <2>3
        <4>2. PICK i \in DOMAIN ms : ms[i] = Create(d)
          BY <2>7 DEF M
        <4> QED BY <2>9, <4>1, <4>2
      <3> QED BY <3>1, <3>2
    <2> QED BY <2>7, <2>10, <2>11, <2>12 DEF RecordsHold, B
  <1> QED BY <1>1, <1>2

\* Competing hypotheses that rest on the claims.
HypothesesHold(claims, ms) ==
  /\ Numbered(ms) /\ Len(ms) \in MinHypotheses..MaxHypotheses
  /\ \A i \in DOMAIN ms : LET m == ms[i] IN
       /\ m.kind = "HYPOTHESIS_CREATED" /\ m.confidence \in InitialConfidence
       /\ m.supporting \cup m.contradicting # {} /\ m.supporting \cup m.contradicting \subseteq claims
  /\ \A i, j \in DOMAIN ms : i # j => ms[i].id # ms[j].id

\* What generation proposes are ideas of the world, each once.
LEMMA HypothesesFit ==
  ASSUME world \in World, NEW ms \in Hypotheses
  PROVE  /\ Numbered(ms) /\ \A i \in DOMAIN ms : ms[i].id \in DOMAIN world.ideas
         /\ HypothesesHold(Ids(State, "claim"), ms)
  <1> DEFINE Create(i) == LET d == world.ideas[i] IN
                   [kind |-> "HYPOTHESIS_CREATED", id |-> i, confidence |-> d.confidence,
                    supporting |-> d.supporting, contradicting |-> d.contradicting,
                    questions |-> d.questions]
             claims == Ids(State, "claim")
  <1>1. PICK S \in SUBSET DOMAIN world.ideas :
          Competing(world.ideas, S, claims) /\ ms = SetToSeq({Create(i) : i \in S})
    BY DEF Hypotheses
  <1>2. IsFiniteSet(S)
    <2>1. DOMAIN world.ideas = 1..Len(world.ideas) /\ Len(world.ideas) \in Nat
      BY WorldAssumption DEF Numbered
    <2>2. IsFiniteSet(1..Len(world.ideas))
      BY <2>1, FS_Interval
    <2> QED BY <2>1, <2>2, FS_Subset
  <1> DEFINE M == {Create(i) : i \in S}
             g == [i \in S |-> Create(i)]
  <1>3. IsFiniteSet(M) /\ Cardinality(M) = Cardinality(S)
    <2>1. g \in [S -> M] /\ IsInjective(g) /\ \A m \in M : \E i \in S : g[i] = m
      BY DEF IsInjective
    <2>2. g \in Injection(S, M) /\ g \in Surjection(S, M)
      BY <2>1 DEF Injection, Surjection
    <2>3. g \in Bijection(S, M)
      BY <2>2 DEF Bijection
    <2> HIDE DEF g, M
    <2> QED BY <1>2, <2>2, <2>3, FS_Surjection, FS_Bijection
  <1>4. ASSUME NEW i \in S
        PROVE  LET m == Create(i) IN
               /\ m.kind = "HYPOTHESIS_CREATED" /\ m.confidence \in InitialConfidence
               /\ m.supporting \cup m.contradicting # {}
               /\ m.supporting \cup m.contradicting \subseteq claims
               /\ m.id = i
    BY <1>1 DEF Competing, Grounded
  <1> HIDE DEF M, Create, g
  <1>5. /\ Numbered(ms) /\ ms \in Seq(M) /\ IsInjective(ms) /\ Len(ms) = Cardinality(S)
    BY <1>1, <1>3, SetInOrder DEF M
  <1>6. \A i \in DOMAIN ms : \E j \in S : ms[i] = Create(j)
    BY <1>5 DEF M
  <1>7. Len(ms) \in MinHypotheses..MaxHypotheses
    BY <1>1, <1>5 DEF Competing
  <1>8. ASSUME NEW i \in DOMAIN ms, NEW j \in DOMAIN ms, i # j PROVE ms[i].id # ms[j].id
    <2>1. ms[i] # ms[j]
      BY <1>5, <1>8 DEF IsInjective
    <2>2. PICK x \in S, y \in S : ms[i] = Create(x) /\ ms[j] = Create(y)
      BY <1>6
    <2> QED BY <1>4, <2>1, <2>2
  <1>9. \A i \in DOMAIN ms : LET m == ms[i] IN
          /\ m.kind = "HYPOTHESIS_CREATED" /\ m.confidence \in InitialConfidence
          /\ m.supporting \cup m.contradicting # {}
          /\ m.supporting \cup m.contradicting \subseteq claims
          /\ m.id \in DOMAIN world.ideas
    BY <1>4, <1>6
  <1> HIDE DEF claims
  <1> QED BY <1>5, <1>7, <1>8, <1>9 DEF HypothesesHold, claims

\* A critique comes with a test, and its tests are whole.
LEMMA CritiquesFit ==
  ASSUME world \in World, NEW h \in Nat, NEW ms \in Critiques(h)
  PROVE  /\ Numbered(ms) /\ \E i \in DOMAIN ms : ms[i].kind = "TEST_CREATED"
         /\ \A i \in DOMAIN ms : ms[i].kind = "TEST_CREATED" =>
              ms[i].id \in Nat /\ DOMAIN ms[i].test = TestShape /\ ms[i].test.type \in TestType
  <1> DEFINE Create(c, i) == [kind |-> "TEST_CREATED", id |-> 10 * h + i,
                              test |-> Proposed(h, c.tests[i])]
             Review(c) == [kind |-> "CRITIQUE_CREATED", id |-> h, contradiction |-> c.contradiction,
                           tests |-> ToSet(c.tests)]
             Good(m) == m.kind = "TEST_CREATED" =>
                          m.id \in Nat /\ DOMAIN m.test = TestShape /\ m.test.type \in TestType
  <1>1. PICK c \in world.critiques :
              /\ Citable(c, Relevant(h), Ids(State, "claim"), Ids(State, "timeline"))
              /\ ms = <<Review(c)>> \o [i \in DOMAIN c.tests |-> Create(c, i)]
    BY DEF Critiques
  <1> DEFINE n == Len(c.tests)
             a == <<Review(c)>>
             b == [i \in DOMAIN c.tests |-> Create(c, i)]
             M == {Review(c)} \cup {Create(c, i) : i \in 1..n}
  <1>2. n \in Nat /\ DOMAIN c.tests = 1..n /\ \A i \in 1..n : c.tests[i].type \in TestType
    BY WorldAssumption DEF Numbered
  <1>3. n \in 1..MaxTests
    BY <1>1 DEF Citable
  <1>4. \A i \in 1..n : Good(Create(c, i)) /\ Create(c, i).kind = "TEST_CREATED"
    BY <1>2 DEF Proposed, TestShape
  <1>5. Good(Review(c))
    OBVIOUS
  <1>6. b \in Seq(M)
    BY <1>2
  <1>7. a \in Seq(M) /\ DOMAIN b = 1..n /\ b[1] = Create(c, 1) /\ 1 \in 1..n
    BY <1>2, <1>3
  <1>8. \A m \in M : Good(m)
    BY <1>4, <1>5
  <1>9. \A i \in DOMAIN a : a[i] \in M
    BY <1>7
  <1>10. \A i \in DOMAIN b : b[i] \in M
    BY <1>6, <1>7
  <1>11. ms = a \o b
    BY <1>1
  <1>12. b[1].kind = "TEST_CREATED"
    BY <1>4, <1>7
  <1> HIDE DEF M, a, b, n, Good
  <1>0. /\ Numbered(ms)
        /\ \A i \in DOMAIN ms : (\E j \in DOMAIN a : ms[i] = a[j]) \/ (\E j \in DOMAIN b : ms[i] = b[j])
        /\ \A j \in DOMAIN b : \E i \in DOMAIN ms : ms[i] = b[j]
    <2>1. a \in Seq(M) /\ b \in Seq(M)
      BY <1>6, <1>7
    <2>2. Joins(a \o b, a, b)
      BY <2>1, OneAfterOther
    <2> QED BY <1>11, <2>2 DEF Joins
  <1>13. Numbered(ms) /\ \A i \in DOMAIN ms : ms[i] \in M
    BY <1>0, <1>9, <1>10
  <1>14. \E i \in DOMAIN ms : ms[i] = b[1]
    BY <1>0, <1>7
  <1>15. \E i \in DOMAIN ms : ms[i].kind = "TEST_CREATED"
    BY <1>12, <1>14
  <1>16. \A i \in DOMAIN ms : Good(ms[i])
    BY <1>8, <1>13
  <1> QED BY <1>13, <1>15, <1>16 DEF Good

-----------------------------------------------------------------------------
(* Verdicts.                                                                *)

\* Evidence for and against is stored in pairs.
Paired(p) == \A id \in DOMAIN p.records : \A l \in p.records[id].links : l = <<l[1], l[2]>>

\* Evidence in the tables is.
LEMMA StatePaired == Paired(State)
  BY DEF Paired, State, Stored, Links

\* Cites finds the evidence that a record has with a polarity.
LEMMA Quoted ==
  ASSUME NEW p, Paired(p), NEW id \in DOMAIN p.records, NEW polarity, NEW scope, NEW e
  PROVE  e \in Cites(p.records[id], polarity, scope) <=>
           e \in scope /\ <<e, polarity>> \in p.records[id].links
  <1>1. ASSUME e \in Cites(p.records[id], polarity, scope)
        PROVE  e \in scope /\ <<e, polarity>> \in p.records[id].links
    <2>1. PICK l \in p.records[id].links : l[2] = polarity /\ l[1] = e /\ e \in scope
      BY <1>1 DEF Cites
    <2> QED BY <2>1 DEF Paired
  <1>2. ASSUME e \in scope, <<e, polarity>> \in p.records[id].links
        PROVE  e \in Cites(p.records[id], polarity, scope)
    BY <1>2 DEF Cites
  <1> QED BY <1>1, <1>2

\* The evidence of the moment is some of what was pinned.
LEMMA EvidenceIs ==
  ASSUME world \in World, eligible \subseteq Pinned
  PROVE  /\ DOMAIN Evidence = eligible /\ DOMAIN Evidence \subseteq DOMAIN world.evidence
         /\ IsFiniteSet(DOMAIN Evidence) /\ DOMAIN Evidence \subseteq Nat
         /\ \A text \in DOMAIN world.ranks : \A e \in DOMAIN Evidence : world.ranks[text][e] \in Nat
  <1>1. DOMAIN Evidence = eligible /\ DOMAIN Evidence \in SUBSET DOMAIN world.evidence
    BY DEF Evidence, Pinned
  <1>2. /\ IsFiniteSet(DOMAIN world.evidence) /\ DOMAIN world.evidence \subseteq Nat
        /\ \A text \in DOMAIN world.ranks : \A e \in DOMAIN world.evidence : world.ranks[text][e] \in Nat
    BY WorldAssumption
  <1>3. IsFiniteSet(DOMAIN Evidence)
    BY <1>1, <1>2, FS_Subset
  <1> QED BY <1>1, <1>2, <1>3

\* The verdict of the model on a comparison cites evidence in scope.
LEMMA SemanticHolds ==
  ASSUME NEW t, NEW p, UsesModel(t), NEW evidence, DOMAIN evidence \subseteq DOMAIN world.evidence,
         NEW v \in SemanticVerdicts(t, evidence)
  PROVE  VerdictHolds(t, v, p)
  BY DEF VerdictHolds, SemanticVerdicts, UsesModel, Scope

\* _evidence_presence.
LEMMA PresenceHolds ==
  ASSUME NEW t, NEW p, t.type = "EVIDENCE_PRESENCE",
         NEW evidence, DOMAIN evidence \subseteq DOMAIN world.evidence
  PROVE  VerdictHolds(t, EvidencePresence(t, evidence), p)
  <1>1. EvidencePresence(t, evidence).cited \subseteq Scope(t, evidence)
    BY DEF EvidencePresence, Verdict
  <1>2. EvidencePresence(t, evidence).outcome \in {"SURVIVED", "CONTRADICTED"}
          => EvidencePresence(t, evidence).cited # {}
    BY DEF EvidencePresence, Verdict
  <1>3. Scope(t, evidence) \subseteq Scope(t, world.evidence)
    BY DEF Scope
  <1> QED BY <1>1, <1>2, <1>3 DEF VerdictHolds

\* _temporal_consistency: an order is judged with evidence for both events.
LEMMA OrderHolds ==
  ASSUME NEW t, NEW p, Paired(p), t.type = "TEMPORAL_CONSISTENCY",
         {t.params.before, t.params.after} \subseteq DOMAIN p.records,
         NEW evidence, DOMAIN evidence \subseteq DOMAIN world.evidence
  PROVE  VerdictHolds(t, TemporalConsistency(t, evidence, p.records), p)
  <1> DEFINE scope == Scope(t, evidence)
             v == TemporalConsistency(t, evidence, p.records)
             both == {t.params.before, t.params.after}
             cited == Cites(p.records[t.params.before], "CITED", scope)
                        \cup Cites(p.records[t.params.after], "CITED", scope)
  <1>1. v.cited = cited
    BY DEF TemporalConsistency, Verdict
  <1>2. v.outcome \in {"SURVIVED", "CONTRADICTED"} =>
          \A id \in both : Cites(p.records[id], "CITED", scope) # {}
    BY DEF TemporalConsistency, Verdict, Comparable
  <1>3. cited \subseteq scope
    BY DEF Cites
  <1>0. scope \subseteq Scope(t, world.evidence)
    BY DEF Scope
  <1> HIDE DEF v, scope
  <1> SUFFICES ASSUME v.outcome \in {"SURVIVED", "CONTRADICTED"}
               PROVE  /\ v.cited # {} /\ v.cited \subseteq scope
                      /\ \A id \in both : \E e \in v.cited : <<e, "CITED">> \in p.records[id].links
    BY <1>0 DEF VerdictHolds, v
  <1>4. ASSUME NEW id \in both PROVE \E e \in v.cited : <<e, "CITED">> \in p.records[id].links
    <2>1. PICK e : e \in Cites(p.records[id], "CITED", scope)
      BY <1>2, <1>4
    <2>2. e \in v.cited
      BY <1>1, <1>4, <2>1
    <2> QED BY <2>1, <2>2, Quoted
  <1> QED BY <1>1, <1>3, <1>4

\* _claim_contradiction: a contradicted claim has evidence against it alone.
LEMMA ClaimsHold ==
  ASSUME NEW t, NEW p, Paired(p), t.type = "CLAIM_CONTRADICTION", t.claims \subseteq DOMAIN p.records,
         NEW evidence, DOMAIN evidence \subseteq DOMAIN world.evidence
  PROVE  VerdictHolds(t, ClaimContradiction(t, evidence, p.records), p)
  <1> DEFINE scope == Scope(t, evidence)
             v == ClaimContradiction(t, evidence, p.records)
             For(c) == Cites(p.records[c], "SUPPORTING", scope)
             Against(c) == Cites(p.records[c], "CONTRADICTING", scope)
             cited == UNION {For(c) \cup Against(c) : c \in t.claims}
  <1>1. v.cited = cited
    BY DEF ClaimContradiction, Verdict
  <1>2. v.outcome = "CONTRADICTED" => \E c \in t.claims : Against(c) \ For(c) # {}
    BY DEF ClaimContradiction, Verdict
  <1>3. v.outcome = "SURVIVED" => t.claims # {} /\ \A c \in t.claims : For(c) # {}
    BY DEF ClaimContradiction, Verdict
  <1>4. cited \subseteq scope
    BY DEF Cites
  <1>0. scope \subseteq Scope(t, world.evidence)
    BY DEF Scope
  <1> HIDE DEF v, scope
  <1> SUFFICES ASSUME v.outcome \in {"SURVIVED", "CONTRADICTED"}
               PROVE  /\ v.cited # {} /\ v.cited \subseteq scope
                      /\ v.outcome = "CONTRADICTED" =>
                           \E id \in t.claims : \E e \in v.cited :
                             /\ <<e, "CONTRADICTING">> \in p.records[id].links
                             /\ <<e, "SUPPORTING">> \notin p.records[id].links
    BY <1>0 DEF VerdictHolds, v
  <1>5. v.cited # {}
    BY <1>1, <1>2, <1>3
  <1>6. ASSUME v.outcome = "CONTRADICTED"
        PROVE  \E id \in t.claims : \E e \in v.cited :
                 /\ <<e, "CONTRADICTING">> \in p.records[id].links
                 /\ <<e, "SUPPORTING">> \notin p.records[id].links
    <2>0. PICK id \in t.claims : \E e \in Against(id) : e \notin For(id)
      BY <1>2, <1>6
    <2>1. PICK e \in Against(id) : e \notin For(id)
      BY <2>0
    <2>2. e \in v.cited
      BY <1>1, <2>1
    <2>3. e \in scope /\ <<e, "CONTRADICTING">> \in p.records[id].links
      BY <2>1, Quoted
    <2>4. <<e, "SUPPORTING">> \notin p.records[id].links
      BY <2>1, <2>3, Quoted
    <2> QED BY <2>2, <2>3, <2>4
  <1> QED BY <1>1, <1>4, <1>5, <1>6

-----------------------------------------------------------------------------
(* An answer fits.                                                          *)

\* The result of the revision is a sequence.
LEMMA RevisionNumbered ==
  ASSUME IsFiniteSet(DOMAIN State.hypotheses)
  PROVE  Numbered(Revision)
  <1> DEFINE H == DOMAIN State.hypotheses
             revised(h) == ReviseConfidence(State.hypotheses[h].confidence, TestsOf(State, h))
             assigned == AssignStatuses([h \in H |-> revised(h).after])
             Revise(h) == LET r == revised(h) IN
                          [kind |-> "CONFIDENCE_REVISED", id |-> h, before |-> r.before,
                           delta |-> r.delta, after |-> r.after, deltas |-> r.deltas]
             Change(h) == [kind |-> "STATUS_CHANGED", id |-> h,
                           before |-> State.hypotheses[h].status, after |-> assigned[h]]
             changed == {h \in H : assigned[h] # State.hypotheses[h].status}
             f == [h \in H |-> Revise(h)]
             g == [h \in changed |-> Change(h)]
             R == {Revise(h) : h \in H}
             C == {Change(h) : h \in changed}
  <1>1. Revision = SetToSeq(R) \o SetToSeq(C)
    BY DEF Revision
  <1> HIDE DEF revised, assigned, Revise, Change
  <1>2. IsFiniteSet(R)
    <2>1. IsFiniteSet({f[h] : h \in H})
      BY ImageFinite
    <2>2. R = {f[h] : h \in H}
      OBVIOUS
    <2> QED BY <2>1, <2>2
  <1>3. IsFiniteSet(C)
    <2>1. changed \in SUBSET H
      OBVIOUS
    <2>2. IsFiniteSet(changed)
      BY <2>1, FS_Subset
    <2>3. IsFiniteSet({g[h] : h \in changed})
      <3>1. DOMAIN g = changed
        OBVIOUS
      <3> HIDE DEF g, changed
      <3> QED BY <2>2, <3>1, ImageFinite
    <2>4. C = {g[h] : h \in changed}
      OBVIOUS
    <2> QED BY <2>3, <2>4
  <1> HIDE DEF R, C
  <1>4. SetToSeq(R) \in Seq(R) /\ SetToSeq(C) \in Seq(C)
    BY <1>2, <1>3, SetInOrder
  <1>5. SetToSeq(R) \in Seq(R \cup C) /\ SetToSeq(C) \in Seq(R \cup C)
    BY <1>4, SeqMonotonic
  <1>6. Numbered(SetToSeq(R) \o SetToSeq(C))
    BY <1>5, OneAfterOther DEF Joins
  <1> QED BY <1>1, <1>6

\* Ideas are numbered.
LEMMA IdeasFinite ==
  world \in World => IsFiniteSet(DOMAIN world.ideas) /\ DOMAIN world.ideas \subseteq Nat
  <1> SUFFICES ASSUME world \in World
               PROVE  IsFiniteSet(DOMAIN world.ideas) /\ DOMAIN world.ideas \subseteq Nat
    OBVIOUS
  <1>1. DOMAIN world.ideas = 1..Len(world.ideas) /\ Len(world.ideas) \in Nat
    BY WorldAssumption DEF Numbered
  <1>2. IsFiniteSet(1..Len(world.ideas))
    BY <1>1, FS_Interval
  <1> QED BY <1>1, <1>2

\* The jobs of each stage.
LEMMA KeysAre ==
  ASSUME AssessInv
  PROVE  /\ stage \in {"SEARCH_SUPPORT", "SEARCH_CONTRADICTIONS", "DESIGN_FALSIFICATION_TESTS"} =>
              WorkKeys = DOMAIN replayed.hypotheses
         /\ stage = "EXECUTE_FALSIFICATION_TESTS" => WorkKeys = DOMAIN replayed.tests
         /\ stage \in {"GENERATE_HYPOTHESES"} \cup AfterTests => WorkKeys = {CaseKey}
         /\ Promotes => LET B == Batches(Len(Candidates)) IN
                        WorkKeys = IF B = {} THEN {CaseKey} ELSE B
  <1>1. replayed.hypotheses = tables.hypotheses /\ replayed.tests = tables.tests
    BY DEF AssessInv, State, Stored
  <1>2. stage \in AfterGeneration => DOMAIN replayed.hypotheses # {}
    BY DEF AssessInv, HypothesesInv
  <1>3. stage = "EXECUTE_FALSIFICATION_TESTS" => DOMAIN replayed.tests # {}
    <2> SUFFICES ASSUME stage = "EXECUTE_FALSIFICATION_TESTS" PROVE DOMAIN replayed.tests # {}
      OBVIOUS
    <2>1. stage \in AfterGeneration /\ stage \in AfterDesign
      BY DEF AfterGeneration, AfterSearch, AfterDesign
    <2>2. PICK h : h \in DOMAIN replayed.hypotheses
      BY <1>2, <2>1
    <2> QED BY <2>1, <2>2 DEF AssessInv, HypothesesInv, Handled
  <1>4. stage \in {"SEARCH_SUPPORT", "SEARCH_CONTRADICTIONS", "DESIGN_FALSIFICATION_TESTS"} =>
          WorkKeys = DOMAIN replayed.hypotheses
    BY <1>1, <1>2 DEF WorkKeys, Promotes, KindOf, Searches, AfterGeneration, AfterSearch
  <1>5. stage = "EXECUTE_FALSIFICATION_TESTS" => WorkKeys = DOMAIN replayed.tests
    BY <1>1, <1>3 DEF WorkKeys, Promotes, KindOf, Searches
  <1>6. stage \in {"GENERATE_HYPOTHESES"} \cup AfterTests => WorkKeys = {CaseKey}
    BY DEF WorkKeys, Promotes, KindOf, Searches, AfterTests, AfterRevision
  <1>7. Promotes => LET B == Batches(Len(Candidates)) IN WorkKeys = IF B = {} THEN {CaseKey} ELSE B
    BY DEF WorkKeys, Promotes, KindOf, Searches
  <1> QED BY <1>4, <1>5, <1>6, <1>7

\* The result of a test is one verdict that holds.
LEMMA ExecutionFits ==
  ASSUME AssessInv, stage = "EXECUTE_FALSIFICATION_TESTS", NEW k \in WorkKeys, NEW ms \in Executions(k)
  PROVE  Numbered(ms) /\ Len(ms) = 1 /\ VerdictHolds(replayed.tests[k], ms[1], replayed)
  <1> DEFINE t == replayed.tests[k]
  <1>1. Test(k) = t /\ State = replayed
    BY DEF AssessInv, Test
  <1>2. t.type \in TestType
    BY KeysAre DEF AssessInv, TestsInv
  <1>0. DOMAIN Evidence \subseteq DOMAIN world.evidence
    BY EvidenceIs DEF AssessInv
  <1>3. PICK st, v : ms = Resolution(k, st, v) /\ VerdictHolds(t, v, replayed)
    <2>1. CASE UsesModel(t)
      <3>1. CASE \E v \in SemanticVerdicts(t, Evidence) : ms = Resolution(k, "SUCCEEDED", v)
        BY <1>0, <2>1, <3>1, SemanticHolds
      <3>2. CASE ms = Resolution(k, "FAILED", Verdict(None, {}))
        <4>1. VerdictHolds(t, Verdict(None, {}), replayed)
          BY HypothesesAssumption DEF VerdictHolds, Verdict
        <4> QED BY <3>2, <4>1
      <3> QED BY <1>1, <2>1, <3>1, <3>2 DEF Executions
    <2>2. CASE ~UsesModel(t)
      <3> DEFINE v == ExecuteTest(t, Evidence, replayed.records)
      <3>1. /\ Executable(t, Evidence, Ids(replayed, "claim"), Ids(replayed, "timeline"))
            /\ ms = Resolution(k, "SUCCEEDED", v)
        BY <1>1, <2>2 DEF Executions
      <3>2. /\ t.claims \subseteq DOMAIN replayed.records
            /\ t.type = "TEMPORAL_CONSISTENCY" =>
                 {t.params.before, t.params.after} \subseteq DOMAIN replayed.records
        BY <3>1 DEF Executable, Ids
      <3>3. Paired(replayed)
        BY <1>1, StatePaired
      <3>4. t.type \in {"EVIDENCE_PRESENCE", "TEMPORAL_CONSISTENCY", "CLAIM_CONTRADICTION"}
        BY <1>2, <2>2 DEF TestType, UsesModel
      <3>5. VerdictHolds(t, v, replayed)
        <4>1. CASE t.type = "EVIDENCE_PRESENCE"
          <5>1. v = EvidencePresence(t, Evidence)
            BY <4>1 DEF ExecuteTest
          <5> QED BY <1>0, <4>1, <5>1, PresenceHolds
        <4>2. CASE t.type = "TEMPORAL_CONSISTENCY"
          <5>1. v = TemporalConsistency(t, Evidence, replayed.records)
            BY <4>2 DEF ExecuteTest
          <5> HIDE DEF v, t
          <5> QED BY <1>0, <3>2, <3>3, <4>2, <5>1, OrderHolds
        <4>3. CASE t.type = "CLAIM_CONTRADICTION"
          <5>1. v = ClaimContradiction(t, Evidence, replayed.records)
            BY <4>3 DEF ExecuteTest
          <5> HIDE DEF v, t
          <5> QED BY <1>0, <3>2, <3>3, <4>3, <5>1, ClaimsHold
        <4> QED BY <3>4, <4>1, <4>2, <4>3
      <3> QED BY <3>1, <3>5
    <2> QED BY <2>1, <2>2
  <1>4. Numbered(ms) /\ Len(ms) = 1 /\ ms[1].outcome = v.outcome /\ ms[1].cited = v.cited
    BY <1>3 DEF Resolution, Numbered
  <1> QED BY <1>3, <1>4 DEF VerdictHolds

\* Whatever a stage may answer fits.
LEMMA AnswerFits ==
  ASSUME AssessInv, NEW k \in WorkKeys, NEW ms \in Results(k)
  PROVE  Fits(k, ms)
  <1>0. world \in World /\ eligible \subseteq Pinned /\ stage \in Stages
    BY DEF AssessInv, Stages
  <1>1. CASE Promotes
    <2>1. ms \in Promotions(k) /\ stage \in DOMAIN KindOf
      BY <1>1 DEF Results, Promotes, KindOf, Searches
    <2>2. stage \in {"PROMOTE_TIMELINE", "RESOLVE_ENTITIES", "PROMOTE_CLAIMS"}
      BY <2>1 DEF KindOf
    <2> QED BY <1>0, <1>1, <2>1, <2>2, PromotionsFit DEF Fits, Searches
  <1>2. CASE stage = "GENERATE_HYPOTHESES"
    <2>1. ms \in Hypotheses /\ ~Promotes
      BY <1>2 DEF Results, Promotes, KindOf, Searches
    <2> QED BY <1>0, <1>2, <2>1, HypothesesFit DEF Fits, Searches
  <1>3. CASE Searches
    <2>1. ms \in Retrievals(k) /\ ~Promotes
      BY <1>3 DEF Results, Promotes, KindOf, Searches
    <2>2. \E m : ms = <<m>>
      BY <2>1 DEF Retrievals
    <2>3. Numbered(ms) /\ Len(ms) = 1
      BY <2>2 DEF Numbered
    <2> QED BY <1>3, <2>1, <2>3 DEF Fits, Searches
  <1>4. CASE stage = "DESIGN_FALSIFICATION_TESTS"
    <2>1. ms \in Critiques(k) /\ ~Promotes
      BY <1>4 DEF Results, Promotes, KindOf, Searches
    <2>2. k \in Nat
      BY <1>0, <1>4, KeysAre, IdeasFinite DEF AssessInv, HypothesesInv
    <2> QED BY <1>0, <1>4, <2>1, <2>2, CritiquesFit DEF Fits, Searches
  <1>5. CASE stage = "EXECUTE_FALSIFICATION_TESTS"
    <2>1. ms \in Executions(k) /\ ~Promotes
      BY <1>5 DEF Results, Promotes, KindOf, Searches
    <2> QED BY <1>5, <2>1, ExecutionFits DEF Fits, Searches
  <1>6. CASE stage = "REVISE_CONFIDENCE"
    <2>1. ms = Revision /\ ~Promotes
      BY <1>6 DEF Results, Promotes, KindOf, Searches
    <2>2. IsFiniteSet(DOMAIN State.hypotheses)
      <3>1. DOMAIN State.hypotheses \in SUBSET DOMAIN world.ideas
        BY DEF AssessInv, HypothesesInv
      <3> QED BY <1>0, <3>1, IdeasFinite, FS_Subset
    <2> QED BY <1>6, <2>1, <2>2, RevisionNumbered DEF Fits, Searches
  <1>7. CASE stage = "VERIFY_REPLAY"
    <2>1. ms = <<>> /\ ~Promotes
      BY <1>7 DEF Results, Promotes, KindOf, Searches
    <2>2. Numbered(ms)
      BY <2>1 DEF Numbered
    <2> QED BY <1>7, <2>1, <2>2 DEF Fits, Searches
  <1>8. CASE stage = "COMPLETE"
    <2>1. ms = <<[kind |-> "COMPLETED", state |-> State]>> /\ ~Promotes
      BY <1>8 DEF Results, Promotes, KindOf, Searches
    <2>2. Numbered(ms)
      BY <2>1 DEF Numbered
    <2> QED BY <1>8, <2>1, <2>2 DEF Fits, Searches
  <1> QED BY <1>0, <1>1, <1>2, <1>3, <1>4, <1>5, <1>6, <1>7, <1>8
          DEF Stages, StageOrder, Promotes, KindOf, Searches

-----------------------------------------------------------------------------
(* What the events of a result add up to.                                   *)

Promoted(m) == [says |-> m.says, names |-> m.names, sources |-> m.sources, links |-> m.links]

\* After the first n of the records.
Adds(p, q, ms, n) ==
  /\ Same(p, q, {"hypotheses", "tests", "retrievals"})
  /\ DOMAIN q.records = DOMAIN p.records \cup {ms[i].id : i \in 1..n}
  /\ \A id \in DOMAIN p.records : q.records[id] = p.records[id]
  /\ \A i \in 1..n : ms[i].id \notin DOMAIN p.records /\ q.records[ms[i].id] = Promoted(ms[i])
  /\ \A i, j \in 1..n : ms[i].id = ms[j].id => i = j

\* Accepted records have new ids, each its own.
LEMMA RecordsAdd ==
  ASSUME NEW s, NEW p, NEW q, NEW ms, Path(s, p, q, ms), Len(ms) \in Nat, DOMAIN p = Shape,
         \A i \in 1..Len(ms) : ms[i].kind = "RECORD_CREATED"
  PROVE  Adds(p, q, ms, Len(ms))
  <1> DEFINE N == Len(ms)
             T == {n \in Nat : n <= N => Adds(p, s[n], ms, n)}
  <1>1. 0 \in T
    <2>1. s[0] = p
      BY DEF Path
    <2> QED BY <2>1 DEF Adds, Same
  <1>2. ASSUME NEW n \in T PROVE n + 1 \in T
    <2> SUFFICES ASSUME n + 1 <= N PROVE Adds(p, s[n + 1], ms, n + 1)
      OBVIOUS
    <2> DEFINE m == ms[n + 1]
               r == s[n]
               t == s[n + 1]
    <2>0. n \in Nat /\ N \in Nat
      OBVIOUS
    <2>1. n + 1 \in 1..N /\ (n + 1) - 1 = n
      OBVIOUS
    <2>2. Accepts(r, m) /\ t = Applied(r, m) /\ m.kind = "RECORD_CREATED"
      BY <2>1 DEF Path
    <2>3. Adds(p, r, ms, n)
      BY <2>1
    <2>4. m.id \notin DOMAIN r.records
      BY <2>2 DEF Accepts
    <2>5. DOMAIN r = Shape
      BY <2>3 DEF Adds, Same
    <2> HIDE DEF m, r, t, T, N
    <2>6. Same(r, t, Shape \ {"records"}) /\ t.records = Put(r.records, m.id, Promoted(m))
      BY <2>2, <2>5, RecordEffect DEF Promoted
    <2>7. Same(p, t, {"hypotheses", "tests", "retrievals"})
      BY <2>3, <2>6 DEF Adds, Same, Shape
    <2>8. DOMAIN t.records = DOMAIN r.records \cup {m.id} /\ t.records[m.id] = Promoted(m)
          /\ \A id \in DOMAIN r.records : t.records[id] = r.records[id]
      BY <2>4, <2>6 DEF Put
    <2>9. \A i \in 1..(n + 1) : i \in 1..n \/ i = n + 1
      BY <2>0
    <2>10. 1..n \subseteq 1..(n + 1) /\ n + 1 \in 1..(n + 1)
      BY <2>0
    <2>11. DOMAIN t.records = DOMAIN p.records \cup {ms[i].id : i \in 1..(n + 1)}
      BY <2>3, <2>8, <2>9, <2>10 DEF Adds, m
    <2>12. \A id \in DOMAIN p.records : t.records[id] = p.records[id]
      BY <2>3, <2>8 DEF Adds
    <2>13. ASSUME NEW i \in 1..(n + 1)
           PROVE  ms[i].id \notin DOMAIN p.records /\ t.records[ms[i].id] = Promoted(ms[i])
      <3>1. CASE i \in 1..n
        BY <2>3, <2>8, <3>1 DEF Adds
      <3>2. CASE i = n + 1
        BY <2>3, <2>4, <2>8, <3>2 DEF Adds, m
      <3> QED BY <2>9, <3>1, <3>2
    <2>14. ASSUME NEW i \in 1..(n + 1), NEW j \in 1..(n + 1), ms[i].id = ms[j].id PROVE i = j
      <3>1. \A x \in 1..n : ms[x].id # m.id
        BY <2>3, <2>4 DEF Adds
      <3> QED BY <2>3, <2>9, <2>14, <3>1 DEF Adds, m
    <2> QED BY <2>7, <2>11, <2>12, <2>13, <2>14 DEF Adds, t
  <1>3. T = Nat
    BY <1>1, <1>2, SetInduction
  <1>4. N \in T /\ s[N] = q
    BY <1>3 DEF Path
  <1> QED BY <1>4

\* What holds before a result and is kept by each of its events holds after it.
LEMMA Along ==
  ASSUME NEW n \in Nat, NEW G, 0 \in G, \A i \in 1..n : i - 1 \in G => i \in G
  PROVE  n \in G
  <1> DEFINE T == {m \in Nat : m <= n => m \in G}
  <1>1. 0 \in T
    OBVIOUS
  <1>2. ASSUME NEW m \in T PROVE m + 1 \in T
    <2> SUFFICES ASSUME m + 1 <= n PROVE m + 1 \in G
      OBVIOUS
    <2>1. m \in G /\ m + 1 \in 1..n /\ (m + 1) - 1 = m
      OBVIOUS
    <2> QED BY <2>1
  <1>3. T = Nat
    BY <1>1, <1>2, SetInduction
  <1> QED BY <1>3

Sketched(x) == DOMAIN x = {"initial", "confidence", "status"} /\ x.confidence \in Int
AllSketched(p) == \A h \in DOMAIN p.hypotheses : Sketched(p.hypotheses[h])
AllActive(p)   == \A h \in DOMAIN p.hypotheses : p.hypotheses[h].status = "ACTIVE"

\* Confidences are numbers.
LEMMA PriorIsNumber == InitialConfidence \subseteq Int
  BY DEF InitialConfidence
\* So are those that a revision may leave.
LEMMA RevisedIsNumber == RevisedConfidence \subseteq Int
  BY DEF RevisedConfidence

\* A hypothesis is opened.
LEMMA Opened ==
  ASSUME NEW r, NEW m, DOMAIN r = Shape, m.kind = "HYPOTHESIS_CREATED", Accepts(r, m),
         AllSketched(r), AllActive(r)
  PROVE  LET t == Applied(r, m) IN
         /\ Same(r, t, {"records", "tests", "retrievals"}) /\ AllSketched(t) /\ AllActive(t)
         /\ DOMAIN t.hypotheses = DOMAIN r.hypotheses \cup {m.id}
  <1> DEFINE t == Applied(r, m)
  <1>1. m.confidence \in Int
    <2>1. m.confidence \in InitialConfidence
      BY DEF Accepts
    <2> QED BY <2>1, PriorIsNumber
  <1>2. /\ Same(r, t, {"records", "tests", "retrievals"})
        /\ t.hypotheses = Put(r.hypotheses, m.id, Opening(m))
    BY HypothesisEffect
  <1>3. Sketched(Opening(m)) /\ Opening(m).status = "ACTIVE"
    BY <1>1 DEF Sketched, Opening
  <1> HIDE DEF t
  <1>4. AllSketched(t) /\ AllActive(t) /\ DOMAIN t.hypotheses = DOMAIN r.hypotheses \cup {m.id}
    BY <1>2, <1>3 DEF Put, AllSketched, AllActive
  <1> QED BY <1>2, <1>4 DEF t

\* Hypotheses are opened one after the other.
LEMMA HypothesesOpen ==
  ASSUME NEW s, NEW p, NEW q, NEW ms, Path(s, p, q, ms), Len(ms) \in Nat, DOMAIN p = Shape,
         \A i \in 1..Len(ms) : ms[i].kind = "HYPOTHESIS_CREATED", AllSketched(p), AllActive(p)
  PROVE  /\ Same(p, q, {"records", "tests", "retrievals"}) /\ AllSketched(q) /\ AllActive(q)
         /\ DOMAIN q.hypotheses = DOMAIN p.hypotheses \cup {ms[i].id : i \in 1..Len(ms)}
  <1> DEFINE N == Len(ms)
             Kept(r) == Same(p, r, {"records", "tests", "retrievals"}) /\ AllSketched(r) /\ AllActive(r)
             Of(i) == {ms[j].id : j \in 1..i}
             G == {i \in 0..N : Kept(s[i]) /\ DOMAIN s[i].hypotheses = DOMAIN p.hypotheses \cup Of(i)}
  <1>1. 0 \in G
    <2>1. s[0] = p /\ Same(p, p, {"records", "tests", "retrievals"}) /\ Of(0) = {}
      BY DEF Path, Same
    <2> QED BY <2>1
  <1>2. ASSUME NEW i \in 1..N, i - 1 \in G PROVE i \in G
    <2> DEFINE r == s[i - 1]
               t == s[i]
               m == ms[i]
    <2>1. Accepts(r, m) /\ t = Applied(r, m) /\ m.kind = "HYPOTHESIS_CREATED"
      BY DEF Path
    <2>2. Kept(r) /\ DOMAIN r.hypotheses = DOMAIN p.hypotheses \cup Of(i - 1)
      BY <1>2
    <2>3. Of(i) = Of(i - 1) \cup {m.id}
      <3>1. 1..i = (1..(i - 1)) \cup {i}
        OBVIOUS
      <3> QED BY <3>1
    <2> HIDE DEF r, t, m, Of
    <2>4. DOMAIN r = Shape
      BY <2>2 DEF Same
    <2>5. /\ Same(r, t, {"records", "tests", "retrievals"}) /\ AllSketched(t) /\ AllActive(t)
          /\ DOMAIN t.hypotheses = DOMAIN r.hypotheses \cup {m.id}
      BY <2>1, <2>2, <2>4, Opened
    <2>6. Same(p, t, {"records", "tests", "retrievals"})
      BY <2>2, <2>5 DEF Same
    <2>7. Kept(t) /\ DOMAIN t.hypotheses = DOMAIN p.hypotheses \cup Of(i)
      BY <2>2, <2>3, <2>5, <2>6
    <2>8. i \in 0..N
      OBVIOUS
    <2> QED BY <2>7, <2>8 DEF t
  <1> HIDE DEF G
  <1>3. N \in G
    BY <1>1, <1>2, Along
  <1>4. Kept(s[N]) /\ DOMAIN s[N].hypotheses = DOMAIN p.hypotheses \cup Of(N)
    BY <1>3 DEF G
  <1>5. s[N] = q
    BY DEF Path
  <1> QED BY <1>4, <1>5

\* A hypothesis is revised or changes its status.
LEMMA RevisedOnce ==
  ASSUME NEW r, NEW m, DOMAIN r = Shape, m.kind \in {"CONFIDENCE_REVISED", "STATUS_CHANGED"},
         Accepts(r, m), AllSketched(r)
  PROVE  LET t == Applied(r, m) IN
         /\ Same(r, t, {"records", "tests", "retrievals"}) /\ AllSketched(t)
         /\ DOMAIN t.hypotheses = DOMAIN r.hypotheses
  <1> DEFINE t == Applied(r, m)
  <1>1. CASE m.kind = "CONFIDENCE_REVISED"
    <2>1. m.after \in RevisedConfidence
      BY <1>1 DEF Accepts, RevisionFits
    <2>2. m.after \in Int
      BY <2>1, RevisedIsNumber
    <2>3. /\ Same(r, t, {"records", "tests", "retrievals"})
          /\ t.hypotheses = [r.hypotheses EXCEPT ![m.id].confidence = m.after]
      BY <1>1, RevisionEffect
    <2> HIDE DEF t
    <2>4. AllSketched(t) /\ DOMAIN t.hypotheses = DOMAIN r.hypotheses
      BY <2>2, <2>3 DEF AllSketched, Sketched
    <2> QED BY <2>3, <2>4 DEF t
  <1>2. CASE m.kind = "STATUS_CHANGED"
    <2>1. /\ Same(r, t, {"records", "tests", "retrievals"})
          /\ t.hypotheses = [r.hypotheses EXCEPT ![m.id].status = m.after]
      BY <1>2, StatusEffect
    <2> HIDE DEF t
    <2>2. AllSketched(t) /\ DOMAIN t.hypotheses = DOMAIN r.hypotheses
      BY <2>1 DEF AllSketched, Sketched
    <2> QED BY <2>1, <2>2 DEF t
  <1> QED BY <1>1, <1>2

\* Hypotheses are revised, none is added or lost.
LEMMA HypothesesRevised ==
  ASSUME NEW s, NEW p, NEW q, NEW ms, Path(s, p, q, ms), Len(ms) \in Nat, DOMAIN p = Shape,
         \A i \in 1..Len(ms) : ms[i].kind \in {"CONFIDENCE_REVISED", "STATUS_CHANGED"}, AllSketched(p)
  PROVE  /\ Same(p, q, {"records", "tests", "retrievals"}) /\ AllSketched(q)
         /\ DOMAIN q.hypotheses = DOMAIN p.hypotheses
  <1> DEFINE N == Len(ms)
             Kept(r) == Same(p, r, {"records", "tests", "retrievals"}) /\ AllSketched(r)
                        /\ DOMAIN r.hypotheses = DOMAIN p.hypotheses
             G == {i \in 0..N : Kept(s[i])}
  <1>1. 0 \in G
    <2>1. s[0] = p /\ Same(p, p, {"records", "tests", "retrievals"})
      BY DEF Path, Same
    <2> QED BY <2>1
  <1>2. ASSUME NEW i \in 1..N, i - 1 \in G PROVE i \in G
    <2> DEFINE r == s[i - 1]
               t == s[i]
               m == ms[i]
    <2>1. Accepts(r, m) /\ t = Applied(r, m) /\ m.kind \in {"CONFIDENCE_REVISED", "STATUS_CHANGED"}
      BY DEF Path
    <2>2. Kept(r)
      BY <1>2
    <2> HIDE DEF r, t, m
    <2>3. DOMAIN r = Shape
      BY <2>2 DEF Same
    <2>4. /\ Same(r, t, {"records", "tests", "retrievals"}) /\ AllSketched(t)
          /\ DOMAIN t.hypotheses = DOMAIN r.hypotheses
      BY <2>1, <2>2, <2>3, RevisedOnce
    <2>5. Kept(t)
      BY <2>2, <2>4 DEF Same
    <2>6. i \in 0..N
      OBVIOUS
    <2> QED BY <2>5, <2>6 DEF t
  <1> HIDE DEF G
  <1>3. N \in G
    BY <1>1, <1>2, Along
  <1>4. Kept(s[N])
    BY <1>3 DEF G
  <1>5. s[N] = q
    BY DEF Path
  <1> QED BY <1>4, <1>5

\* Searches are recorded under their ids.
LEMMA SearchesRecorded ==
  ASSUME NEW s, NEW p, NEW q, NEW ms, Path(s, p, q, ms), Len(ms) \in Nat, DOMAIN p = Shape,
         \A i \in 1..Len(ms) : ms[i].kind = "RETRIEVAL_COMPLETED"
  PROVE  /\ Same(p, q, {"records", "tests", "hypotheses"})
         /\ DOMAIN q.retrievals = DOMAIN p.retrievals \cup {ms[i].id : i \in 1..Len(ms)}
  <1> DEFINE N == Len(ms)
             Of(i) == {ms[j].id : j \in 1..i}
             Kept(r, i) == Same(p, r, {"records", "tests", "hypotheses"})
                           /\ DOMAIN r.retrievals = DOMAIN p.retrievals \cup Of(i)
             G == {i \in 0..N : Kept(s[i], i)}
  <1>1. 0 \in G
    <2>1. s[0] = p /\ Same(p, p, {"records", "tests", "hypotheses"}) /\ Of(0) = {}
      BY DEF Path, Same
    <2> QED BY <2>1
  <1>2. ASSUME NEW i \in 1..N, i - 1 \in G PROVE i \in G
    <2> DEFINE r == s[i - 1]
               t == s[i]
               m == ms[i]
    <2>1. t = Applied(r, m) /\ m.kind = "RETRIEVAL_COMPLETED"
      BY DEF Path
    <2>2. Kept(r, i - 1)
      BY <1>2
    <2>3. Of(i) = Of(i - 1) \cup {m.id}
      <3>1. 1..i = (1..(i - 1)) \cup {i}
        OBVIOUS
      <3> QED BY <3>1
    <2> HIDE DEF r, t, m, Of
    <2>4. DOMAIN r = Shape
      BY <2>2 DEF Same
    <2>5. /\ Same(r, t, {"records", "tests", "hypotheses"})
          /\ DOMAIN t.retrievals = DOMAIN r.retrievals \cup {m.id}
      BY <2>1, <2>4, RetrievalEffect
    <2>6. Kept(t, i)
      BY <2>2, <2>3, <2>5 DEF Same
    <2>7. i \in 0..N
      OBVIOUS
    <2> QED BY <2>6, <2>7 DEF t
  <1> HIDE DEF G
  <1>3. N \in G
    BY <1>1, <1>2, Along
  <1>4. Kept(s[N], N)
    BY <1>3 DEF G
  <1>5. s[N] = q
    BY DEF Path
  <1> QED BY <1>4, <1>5

\* Tests are only added, as they were proposed.
Designs(p, r, ms) ==
  /\ Same(p, r, {"records", "hypotheses", "retrievals"})
  /\ \A i \in DOMAIN p.tests : i \in DOMAIN r.tests /\ r.tests[i] = p.tests[i]
  /\ \A i \in DOMAIN r.tests \ DOMAIN p.tests : \E j \in 1..Len(ms) :
       /\ ms[j].kind = "TEST_CREATED" /\ ms[j].id = i
       /\ r.tests[i] = ms[j].test /\ ms[j].test.outcome = None

\* Each test of a critique is added, under an id of its own.
LEMMA TestsDesigned ==
  ASSUME NEW s, NEW p, NEW q, NEW ms, Path(s, p, q, ms), Len(ms) \in Nat, DOMAIN p = Shape,
         \A i \in 1..Len(ms) : ms[i].kind \in {"CRITIQUE_CREATED", "TEST_CREATED"}
  PROVE  /\ Designs(p, q, ms)
         /\ \A i \in 1..Len(ms) : ms[i].kind = "TEST_CREATED" =>
              ms[i].id \notin DOMAIN p.tests /\ q.tests[ms[i].id] = ms[i].test
              /\ ms[i].id \in DOMAIN q.tests
  <1> DEFINE N == Len(ms)
             New(r, j) == ms[j].id \notin DOMAIN p.tests /\ r.tests[ms[j].id] = ms[j].test
                          /\ ms[j].id \in DOMAIN r.tests
             Kept(r, i) == Designs(p, r, ms)
                           /\ \A j \in 1..i : ms[j].kind = "TEST_CREATED" => New(r, j)
             G == {i \in 0..N : Kept(s[i], i)}
  <1>1. 0 \in G
    <2>1. s[0] = p /\ Designs(p, p, ms) /\ 1..0 = {}
      BY DEF Path, Same, Designs
    <2> QED BY <2>1
  <1>2. ASSUME NEW i \in 1..N, i - 1 \in G PROVE i \in G
    <2> DEFINE r == s[i - 1]
               t == s[i]
               m == ms[i]
    <2>1. Accepts(r, m) /\ t = Applied(r, m) /\ m.kind \in {"CRITIQUE_CREATED", "TEST_CREATED"}
      BY DEF Path
    <2>2. Designs(p, r, ms) /\ \A j \in 1..(i - 1) : ms[j].kind = "TEST_CREATED" => New(r, j)
      BY <1>2
    <2>3. \A j \in 1..i : j \in 1..(i - 1) \/ j = i
      OBVIOUS
    <2>4. i \in 1..N /\ i \in 0..N
      OBVIOUS
    <2> HIDE DEF r, t, m, G, N
    <2>5. DOMAIN r = Shape
      BY <2>2 DEF Designs, Same
    <2>6. CASE m.kind = "CRITIQUE_CREATED"
      <3>1. Same(r, t, Shape \ {"critiques"})
        BY <2>1, <2>5, <2>6, CritiqueEffect
      <3>2. r.tests = t.tests /\ Same(p, t, {"records", "hypotheses", "retrievals"})
        BY <2>2, <3>1 DEF Designs, Same, Shape
      <3>3. Designs(p, t, ms)
        BY <2>2, <3>2 DEF Designs
      <3>4. \A j \in 1..i : ms[j].kind = "TEST_CREATED" => New(t, j)
        BY <2>2, <2>3, <2>6, <3>2 DEF m
      <3> QED BY <2>4, <3>3, <3>4 DEF t, G
    <2>7. CASE m.kind = "TEST_CREATED"
      <3>1. Same(r, t, Shape \ {"tests"}) /\ t.tests = Put(r.tests, m.id, m.test)
        BY <2>1, <2>5, <2>7, TestEffect
      <3>2. m.id \notin DOMAIN r.tests /\ m.test.outcome = None
        BY <2>1, <2>7 DEF Accepts
      <3>3. Same(p, t, {"records", "hypotheses", "retrievals"})
        BY <2>2, <3>1 DEF Designs, Same, Shape
      <3>4. /\ DOMAIN t.tests = DOMAIN r.tests \cup {m.id} /\ t.tests[m.id] = m.test
            /\ \A x \in DOMAIN r.tests : t.tests[x] = r.tests[x]
        BY <3>1, <3>2 DEF Put
      <3>5. \A x \in DOMAIN p.tests : x \in DOMAIN t.tests /\ t.tests[x] = p.tests[x]
        BY <2>2, <3>4 DEF Designs
      <3>6. ASSUME NEW x \in DOMAIN t.tests \ DOMAIN p.tests
            PROVE  \E j \in 1..Len(ms) : /\ ms[j].kind = "TEST_CREATED" /\ ms[j].id = x
                                         /\ t.tests[x] = ms[j].test /\ ms[j].test.outcome = None
        <4>1. CASE x \in DOMAIN r.tests
          BY <2>2, <3>4, <4>1 DEF Designs
        <4>2. CASE x = m.id
          BY <2>4, <2>7, <3>2, <3>4, <4>2 DEF m, N
        <4> QED BY <3>4, <4>1, <4>2
      <3>7. Designs(p, t, ms)
        BY <3>3, <3>5, <3>6 DEF Designs
      <3>8. ASSUME NEW j \in 1..i, ms[j].kind = "TEST_CREATED" PROVE New(t, j)
        <4>1. CASE j = i
          <5>1. m.id \notin DOMAIN p.tests
            BY <2>2, <3>2 DEF Designs
          <5> QED BY <3>4, <4>1, <5>1 DEF m
        <4>2. CASE j \in 1..(i - 1)
          BY <2>2, <3>4, <3>8, <4>2
        <4> QED BY <2>3, <4>1, <4>2
      <3> QED BY <2>4, <3>7, <3>8 DEF t, G
    <2> QED BY <2>1, <2>6, <2>7
  <1> HIDE DEF G
  <1>3. N \in G
    BY <1>1, <1>2, Along
  <1>4. Kept(s[N], N)
    BY <1>3 DEF G
  <1>5. s[N] = q
    BY DEF Path
  <1> QED BY <1>4, <1>5

\* A single event.
LEMMA OneEvent ==
  ASSUME NEW s, NEW p, NEW q, NEW ms, Path(s, p, q, ms), Len(ms) = 1
  PROVE  Accepts(p, ms[1]) /\ q = Applied(p, ms[1])
  <1>1. 1 \in 1..Len(ms) /\ 1 - 1 = 0
    OBVIOUS
  <1> QED BY <1>1 DEF Path

\* No event at all.
LEMMA NoEvent ==
  ASSUME NEW s, NEW p, NEW q, NEW ms, Path(s, p, q, ms), Len(ms) = 0
  PROVE  q = p
  BY DEF Path

-----------------------------------------------------------------------------
(* What a result that is persisted makes of the state.                      *)

HypothesesBecome(k, q) ==
  /\ DOMAIN q = Shape /\ AllSketched(q) /\ DOMAIN q.hypotheses \subseteq DOMAIN world.ideas
  /\ IF stage = "GENERATE_HYPOTHESES" THEN DOMAIN q.hypotheses # {}
                                      ELSE DOMAIN q.hypotheses = DOMAIN replayed.hypotheses
  /\ stage \notin AfterTests => AllActive(q)
  /\ stage \in AfterRevision => q = replayed
  /\ DOMAIN replayed.retrievals \subseteq DOMAIN q.retrievals
  /\ stage = "SEARCH_CONTRADICTIONS" => <<"CONTRADICT", k>> \in DOMAIN q.retrievals

TestsBecome(k, q) ==
  LET p == replayed IN
  /\ \A i \in DOMAIN p.tests :
       /\ i \in DOMAIN q.tests /\ q.tests[i].hypothesis = p.tests[i].hypothesis
       /\ p.tests[i].status # "PENDING" => q.tests[i].status # "PENDING"
  /\ IF stage = "DESIGN_FALSIFICATION_TESTS" THEN \E i \in DOMAIN q.tests : q.tests[i].hypothesis = k
                                             ELSE DOMAIN q.tests = DOMAIN p.tests
  /\ stage = "EXECUTE_FALSIFICATION_TESTS" =>
       /\ q.tests[k].status # "PENDING"
       /\ \A i \in DOMAIN p.tests \ {k} : q.tests[i] = p.tests[i]
  /\ ~Promotes => q.records = p.records
  /\ \A i \in DOMAIN q.tests :
       /\ i \in Nat /\ DOMAIN q.tests[i] = TestShape /\ q.tests[i].type \in TestType
       /\ VerdictHolds(q.tests[i], q.tests[i], q)

\* A result that was accepted.
Accepted(k, s, q, ms) ==
  /\ AssessInv /\ k \in WorkKeys /\ Fits(k, ms) /\ Path(s, replayed, q, ms)
  /\ \A i \in DOMAIN ms : Attributed(k, ms[i])
  /\ Counted(k, ms)

\* What is known of the state a result is persisted in.
LEMMA AcceptedIs ==
  ASSUME NEW k, NEW s, NEW q, NEW ms, Accepted(k, s, q, ms)
  PROVE  /\ Len(ms) \in Nat /\ DOMAIN ms = 1..Len(ms)
         /\ DOMAIN replayed = Shape /\ AllSketched(replayed)
         /\ stage \notin AfterRevision => AllActive(replayed)
         /\ world \in World /\ stage \in Stages
         /\ stage \notin AfterSearch => DOMAIN replayed.tests = {}
         /\ Same(replayed, replayed, {"records", "hypotheses", "tests", "retrievals"})
  <1>1. Len(ms) \in Nat /\ DOMAIN ms = 1..Len(ms)
    BY DEF Accepted, Fits, Numbered
  <1>2. DOMAIN replayed = Shape /\ HypothesesInv(replayed) /\ TestsInv(replayed)
        /\ world \in World /\ stage \in Stages
    BY DEF Accepted, AssessInv, Stages
  <1>3. AllSketched(replayed) /\ (stage \notin AfterRevision => AllActive(replayed))
    BY <1>2 DEF HypothesesInv, AllSketched, AllActive, Sketched
  <1>4. stage \notin AfterSearch => DOMAIN replayed.tests = {}
    BY <1>2 DEF TestsInv
  <1> QED BY <1>1, <1>2, <1>3, <1>4 DEF Same

\* Tests that stay as they are.
LEMMA TestsStay ==
  ASSUME AssessInv, NEW k, NEW q, q.tests = replayed.tests,
         q.records = replayed.records \/ (Promotes /\ DOMAIN replayed.tests = {}),
         stage \notin {"DESIGN_FALSIFICATION_TESTS", "EXECUTE_FALSIFICATION_TESTS"}
  PROVE  TestsBecome(k, q)
  <1>1. TestsInv(replayed)
    BY DEF AssessInv
  <1>2. ASSUME NEW i \in DOMAIN q.tests
        PROVE  /\ i \in Nat /\ DOMAIN q.tests[i] = TestShape /\ q.tests[i].type \in TestType
               /\ VerdictHolds(q.tests[i], q.tests[i], q)
    <2>1. q.records = replayed.records
      BY <1>2
    <2> QED BY <1>1, <1>2, <2>1 DEF TestsInv, VerdictHolds
  <1>3. ~Promotes => q.records = replayed.records
    OBVIOUS
  <1> QED BY <1>2, <1>3 DEF TestsBecome

\* Hypotheses that stay as they are.
LEMMA HypothesesStay ==
  ASSUME AssessInv, NEW k, NEW q, DOMAIN q = Shape, q.hypotheses = replayed.hypotheses,
         stage \notin {"GENERATE_HYPOTHESES"} \cup AfterTests,
         DOMAIN replayed.retrievals \subseteq DOMAIN q.retrievals,
         stage = "SEARCH_CONTRADICTIONS" => <<"CONTRADICT", k>> \in DOMAIN q.retrievals
  PROVE  HypothesesBecome(k, q)
  <1>1. HypothesesInv(replayed)
    BY DEF AssessInv
  <1>2. stage \notin AfterRevision
    BY DEF AfterTests
  <1>3. AllSketched(q) /\ AllActive(q) /\ DOMAIN q.hypotheses \subseteq DOMAIN world.ideas
    BY <1>1, <1>2 DEF HypothesesInv, AllSketched, AllActive, Sketched
  <1> QED BY <1>2, <1>3 DEF HypothesesBecome

\* Promotion.
LEMMA AfterPromotion ==
  ASSUME NEW k, NEW s, NEW q, NEW ms, Accepted(k, s, q, ms), Promotes
  PROVE  Adds(replayed, q, ms, Len(ms)) /\ HypothesesBecome(k, q) /\ TestsBecome(k, q)
  <1>1. stage \in {"PROMOTE_TIMELINE", "RESOLVE_ENTITIES", "PROMOTE_CLAIMS"}
    BY DEF Promotes, KindOf
  <1>2. \A i \in 1..Len(ms) : ms[i].kind = "RECORD_CREATED"
    <2>1. ASSUME NEW m, Attributed(k, m) PROVE m.kind = "RECORD_CREATED"
      BY <1>1, <2>1 DEF Attributed, Searches
    <2> QED BY <2>1, AcceptedIs DEF Accepted
  <1>3. Adds(replayed, q, ms, Len(ms))
    BY <1>2, AcceptedIs, RecordsAdd DEF Accepted
  <1>4. Same(replayed, q, {"hypotheses", "tests", "retrievals"})
    BY <1>3 DEF Adds
  <1>5. stage \notin {"GENERATE_HYPOTHESES", "SEARCH_CONTRADICTIONS"} \cup AfterSearch
    BY <1>1 DEF AfterSearch, AfterDesign, AfterTests, AfterRevision
  <1>6. DOMAIN replayed.tests = {}
    BY <1>5, AcceptedIs
  <1>7. HypothesesBecome(k, q)
    BY <1>4, <1>5, HypothesesStay DEF Accepted, Same, AfterSearch, AfterDesign
  <1>8. TestsBecome(k, q)
    BY <1>4, <1>5, <1>6, TestsStay DEF Accepted, Same, AfterSearch, AfterDesign
  <1> QED BY <1>3, <1>7, <1>8

\* Generation: there are hypotheses, and all are active.
LEMMA AfterGenerating ==
  ASSUME NEW k, NEW s, NEW q, NEW ms, Accepted(k, s, q, ms), stage = "GENERATE_HYPOTHESES"
  PROVE  HypothesesBecome(k, q) /\ TestsBecome(k, q)
  <1>1. ~Promotes /\ ~Searches /\ stage \notin AfterSearch
    BY DEF Promotes, KindOf, Searches, AfterSearch, AfterDesign, AfterTests, AfterRevision
  <1>2. \A i \in 1..Len(ms) : ms[i].kind = "HYPOTHESIS_CREATED"
    <2>1. ASSUME NEW m, Attributed(k, m) PROVE m.kind = "HYPOTHESIS_CREATED"
      BY <1>1, <2>1 DEF Attributed
    <2> QED BY <2>1, AcceptedIs DEF Accepted
  <1>3. stage \notin AfterTests /\ stage \notin AfterRevision
    BY <1>1 DEF AfterSearch, AfterDesign, AfterTests
  <1>4. /\ Same(replayed, q, {"records", "tests", "retrievals"}) /\ AllSketched(q) /\ AllActive(q)
        /\ DOMAIN q.hypotheses = DOMAIN replayed.hypotheses \cup {ms[i].id : i \in 1..Len(ms)}
    BY <1>2, <1>3, AcceptedIs, HypothesesOpen DEF Accepted
  <1>5. Len(ms) \in MinHypotheses..MaxHypotheses
    <2>1. Counted(k, ms)
      BY DEF Accepted
    <2> QED BY <1>1, <2>1 DEF Counted
  <1>6. 1 \in 1..Len(ms)
    BY <1>5, AcceptedIs, HypothesesAssumption
  <1>7. DOMAIN q.hypotheses # {}
    BY <1>4, <1>6
  <1>8. \A i \in 1..Len(ms) : ms[i].id \in DOMAIN world.ideas
    BY AcceptedIs DEF Accepted, Fits
  <1>9. DOMAIN replayed.hypotheses \subseteq DOMAIN world.ideas
    BY DEF Accepted, AssessInv, HypothesesInv
  <1>10. HypothesesBecome(k, q)
    BY <1>3, <1>4, <1>7, <1>8, <1>9 DEF HypothesesBecome, Same
  <1>11. TestsBecome(k, q)
    BY <1>4, TestsStay DEF Accepted, Same
  <1> QED BY <1>10, <1>11

\* A search: its hypothesis was searched for.
LEMMA AfterSearching ==
  ASSUME NEW k, NEW s, NEW q, NEW ms, Accepted(k, s, q, ms), Searches
  PROVE  HypothesesBecome(k, q) /\ TestsBecome(k, q)
  <1>1. stage \in {"SEARCH_SUPPORT", "SEARCH_CONTRADICTIONS"} /\ ~Promotes
    BY DEF Searches, Promotes, KindOf
  <1>2. ASSUME NEW i \in 1..Len(ms) PROVE ms[i].kind = "RETRIEVAL_COMPLETED" /\ ms[i].id = <<Intent, k>>
    <2>1. ASSUME NEW m, Attributed(k, m) PROVE m.kind = "RETRIEVAL_COMPLETED" /\ m.id = <<Intent, k>>
      BY <1>1, <2>1 DEF Attributed
    <2> QED BY <2>1, AcceptedIs DEF Accepted
  <1>3. /\ Same(replayed, q, {"records", "tests", "hypotheses"})
        /\ DOMAIN q.retrievals = DOMAIN replayed.retrievals \cup {ms[i].id : i \in 1..Len(ms)}
    BY <1>2, AcceptedIs, SearchesRecorded DEF Accepted
  <1>5. 1 \in 1..Len(ms)
    BY DEF Accepted, Fits
  <1>6. stage = "SEARCH_CONTRADICTIONS" => <<"CONTRADICT", k>> \in DOMAIN q.retrievals
    BY <1>2, <1>3, <1>5 DEF Intent
  <1>7. stage \notin {"GENERATE_HYPOTHESES", "DESIGN_FALSIFICATION_TESTS",
                     "EXECUTE_FALSIFICATION_TESTS"} \cup AfterTests
    BY <1>1 DEF AfterTests, AfterRevision
  <1>8. HypothesesBecome(k, q)
    BY <1>3, <1>6, <1>7, HypothesesStay DEF Accepted, Same
  <1>9. TestsBecome(k, q)
    BY <1>3, <1>7, TestsStay DEF Accepted, Same
  <1> QED BY <1>8, <1>9

\* A critique: its hypothesis has a test.
LEMMA AfterDesigning ==
  ASSUME NEW k, NEW s, NEW q, NEW ms, Accepted(k, s, q, ms), stage = "DESIGN_FALSIFICATION_TESTS"
  PROVE  HypothesesBecome(k, q) /\ TestsBecome(k, q)
  <1>1. ~Promotes /\ ~Searches
        /\ stage \notin {"GENERATE_HYPOTHESES", "SEARCH_CONTRADICTIONS"} \cup AfterTests
    BY DEF Promotes, KindOf, Searches, AfterTests, AfterRevision
  <1>2. ASSUME NEW i \in 1..Len(ms)
        PROVE  /\ ms[i].kind \in {"CRITIQUE_CREATED", "TEST_CREATED"}
               /\ ms[i].kind = "TEST_CREATED" => ms[i].test.hypothesis = k
    <2>1. ASSUME NEW m, Attributed(k, m)
          PROVE  /\ m.kind \in {"CRITIQUE_CREATED", "TEST_CREATED"}
                 /\ m.kind = "TEST_CREATED" => m.test.hypothesis = k
      BY <1>1, <2>1 DEF Attributed
    <2> QED BY <2>1, AcceptedIs DEF Accepted
  <1>3. /\ Designs(replayed, q, ms)
        /\ \A i \in 1..Len(ms) : ms[i].kind = "TEST_CREATED" =>
             ms[i].id \notin DOMAIN replayed.tests /\ q.tests[ms[i].id] = ms[i].test
             /\ ms[i].id \in DOMAIN q.tests
    BY <1>2, AcceptedIs, TestsDesigned DEF Accepted
  <1>4. Same(replayed, q, {"records", "hypotheses", "retrievals"})
    BY <1>3 DEF Designs
  <1>5. /\ \E i \in 1..Len(ms) : ms[i].kind = "TEST_CREATED"
        /\ \A i \in 1..Len(ms) : ms[i].kind = "TEST_CREATED" =>
             ms[i].id \in Nat /\ DOMAIN ms[i].test = TestShape /\ ms[i].test.type \in TestType
    BY AcceptedIs DEF Accepted, Fits
  <1>6. \E i \in DOMAIN q.tests : q.tests[i].hypothesis = k
    BY <1>2, <1>3, <1>5
  <1>7. ASSUME NEW i \in DOMAIN q.tests
        PROVE  /\ i \in Nat /\ DOMAIN q.tests[i] = TestShape /\ q.tests[i].type \in TestType
               /\ VerdictHolds(q.tests[i], q.tests[i], q)
    <2>1. CASE i \in DOMAIN replayed.tests
      <3>1. q.tests[i] = replayed.tests[i] /\ q.records = replayed.records
        BY <1>3, <1>4, <2>1 DEF Designs, Same
      <3> QED BY <2>1, <3>1 DEF Accepted, AssessInv, TestsInv, VerdictHolds
    <2>2. CASE i \notin DOMAIN replayed.tests
      <3>1. PICK j \in 1..Len(ms) : /\ ms[j].kind = "TEST_CREATED" /\ ms[j].id = i
                                    /\ q.tests[i] = ms[j].test /\ ms[j].test.outcome = None
        BY <1>3, <1>7, <2>2 DEF Designs
      <3>2. VerdictHolds(q.tests[i], q.tests[i], q)
        BY <3>1, HypothesesAssumption DEF VerdictHolds
      <3> QED BY <1>5, <3>1, <3>2
    <2> QED BY <2>1, <2>2
  <1>8. HypothesesBecome(k, q)
    BY <1>1, <1>4, HypothesesStay DEF Accepted, Same
  <1>9. TestsBecome(k, q)
    BY <1>1, <1>3, <1>4, <1>6, <1>7 DEF TestsBecome, Designs, Same
  <1> QED BY <1>8, <1>9

\* An execution: its test is resolved, with a verdict that holds.
LEMMA AfterExecuting ==
  ASSUME NEW k, NEW s, NEW q, NEW ms, Accepted(k, s, q, ms), stage = "EXECUTE_FALSIFICATION_TESTS"
  PROVE  HypothesesBecome(k, q) /\ TestsBecome(k, q)
  <1>1. ~Promotes /\ ~Searches
        /\ stage \notin {"GENERATE_HYPOTHESES", "SEARCH_CONTRADICTIONS",
                         "DESIGN_FALSIFICATION_TESTS"} \cup AfterTests
    BY DEF Promotes, KindOf, Searches, AfterTests, AfterRevision
  <1> DEFINE m == ms[1]
  <1>2. Len(ms) = 1 /\ VerdictHolds(replayed.tests[k], m, replayed)
    BY DEF Accepted, Fits
  <1>3. m.kind = "TEST_RESOLVED" /\ m.id = k
    <2>1. ASSUME NEW x, Attributed(k, x) PROVE x.kind = "TEST_RESOLVED" /\ x.id = k
      BY <1>1, <2>1 DEF Attributed
    <2>2. 1 \in 1..Len(ms)
      BY <1>2
    <2> QED BY <2>1, <2>2, AcceptedIs DEF Accepted
  <1>4. Accepts(replayed, m) /\ q = Applied(replayed, m)
    BY <1>2, OneEvent DEF Accepted
  <1> HIDE DEF m
  <1>5. /\ Same(replayed, q, Shape \ {"tests"})
        /\ q.tests = [replayed.tests EXCEPT ![k] = Resolved(@, m)]
    BY <1>3, <1>4, AcceptedIs, ResolutionEffect
  <1>6. k \in DOMAIN replayed.tests /\ m.status # "PENDING"
    BY <1>3, <1>4 DEF Accepts
  <1>7. TestsInv(replayed)
    BY DEF Accepted, AssessInv
  <1>8. /\ q.tests[k].status = m.status /\ q.tests[k].outcome = m.outcome /\ q.tests[k].cited = m.cited
        /\ DOMAIN q.tests[k] = TestShape
        /\ \A x \in {"type", "params", "evidence", "claims", "hypothesis"} :
             q.tests[k][x] = replayed.tests[k][x]
    BY <1>5, <1>6, <1>7 DEF Resolved, TestsInv, TestShape
  <1>9. \A i \in DOMAIN replayed.tests \ {k} : q.tests[i] = replayed.tests[i]
    BY <1>5
  <1>10. DOMAIN q.tests = DOMAIN replayed.tests
    BY <1>5
  <1>11. q.records = replayed.records
    BY <1>5 DEF Same, Shape
  <1>12. VerdictHolds(q.tests[k], q.tests[k], q)
    BY <1>2, <1>8, <1>11 DEF VerdictHolds, Scope, m
  <1>13. ASSUME NEW i \in DOMAIN q.tests
         PROVE  /\ i \in Nat /\ DOMAIN q.tests[i] = TestShape /\ q.tests[i].type \in TestType
                /\ VerdictHolds(q.tests[i], q.tests[i], q)
    <2>1. CASE i = k
      BY <1>6, <1>7, <1>8, <1>12, <2>1 DEF TestsInv
    <2>2. CASE i # k
      <3>1. i \in DOMAIN replayed.tests /\ q.tests[i] = replayed.tests[i]
        BY <1>9, <1>10, <2>2
      <3>2. VerdictHolds(replayed.tests[i], replayed.tests[i], replayed)
        BY <1>7, <3>1 DEF TestsInv
      <3>3. VerdictHolds(q.tests[i], q.tests[i], q)
        BY <1>11, <3>1, <3>2 DEF VerdictHolds
      <3> QED BY <1>7, <3>1, <3>3 DEF TestsInv
    <2> QED BY <2>1, <2>2
  <1>14. HypothesesBecome(k, q)
    BY <1>1, <1>5, HypothesesStay DEF Accepted, Same, Shape
  <1>15. ASSUME NEW i \in DOMAIN replayed.tests
         PROVE  /\ i \in DOMAIN q.tests /\ q.tests[i].hypothesis = replayed.tests[i].hypothesis
                /\ replayed.tests[i].status # "PENDING" => q.tests[i].status # "PENDING"
    BY <1>6, <1>8, <1>9, <1>10
  <1>16. TestsBecome(k, q)
    BY <1>1, <1>6, <1>8, <1>9, <1>10, <1>11, <1>13, <1>15 DEF TestsBecome
  <1> QED BY <1>14, <1>16

\* The revision.
LEMMA AfterRevising ==
  ASSUME NEW k, NEW s, NEW q, NEW ms, Accepted(k, s, q, ms), stage = "REVISE_CONFIDENCE"
  PROVE  HypothesesBecome(k, q) /\ TestsBecome(k, q)
  <1>1. ~Promotes /\ ~Searches /\ stage \in AfterTests /\ stage \notin AfterRevision
    BY DEF Promotes, KindOf, Searches, AfterTests, AfterRevision
  <1>2. \A i \in 1..Len(ms) : ms[i].kind \in {"CONFIDENCE_REVISED", "STATUS_CHANGED"}
    <2>1. ASSUME NEW m, Attributed(k, m) PROVE m.kind \in {"CONFIDENCE_REVISED", "STATUS_CHANGED"}
      BY <1>1, <2>1 DEF Attributed
    <2> QED BY <2>1, AcceptedIs DEF Accepted
  <1>3. /\ Same(replayed, q, {"records", "tests", "retrievals"}) /\ AllSketched(q)
        /\ DOMAIN q.hypotheses = DOMAIN replayed.hypotheses
    BY <1>2, AcceptedIs, HypothesesRevised DEF Accepted
  <1>4. HypothesesBecome(k, q)
    BY <1>1, <1>3 DEF HypothesesBecome, Same, Accepted, AssessInv, HypothesesInv
  <1>5. TestsBecome(k, q)
    BY <1>3, TestsStay DEF Accepted, Same
  <1> QED BY <1>4, <1>5

\* Nothing changes after the revision.
LEMMA AfterReplaying ==
  ASSUME NEW k, NEW s, NEW q, NEW ms, Accepted(k, s, q, ms), stage \in AfterRevision
  PROVE  HypothesesBecome(k, q) /\ TestsBecome(k, q)
  <1>1. ~Promotes /\ ~Searches /\ stage \in {"VERIFY_REPLAY", "COMPLETE"} /\ stage \in AfterTests
    BY DEF Promotes, KindOf, Searches, AfterTests, AfterRevision
  <1>2. q = replayed
    <2>1. CASE stage = "VERIFY_REPLAY"
      <3>1. \A i \in 1..Len(ms) : FALSE
        <4>1. ASSUME NEW m, Attributed(k, m) PROVE FALSE
          BY <1>1, <2>1, <4>1 DEF Attributed
        <4> QED BY <4>1, AcceptedIs DEF Accepted
      <3>2. Len(ms) = 0
        BY <3>1, AcceptedIs
      <3> QED BY <3>2, NoEvent DEF Accepted
    <2>2. CASE stage = "COMPLETE"
      <3>1. Len(ms) = 1
        <4>1. Counted(k, ms)
          BY DEF Accepted
        <4> QED BY <1>1, <2>2, <4>1 DEF Counted
      <3>2. ms[1].kind = "COMPLETED"
        <4>1. ASSUME NEW m, Attributed(k, m) PROVE m.kind = "COMPLETED"
          BY <1>1, <2>2, <4>1 DEF Attributed
        <4>2. 1 \in 1..Len(ms)
          BY <3>1
        <4> QED BY <4>1, <4>2, AcceptedIs DEF Accepted
      <3> QED BY <3>1, <3>2, OneEvent, CompletionEffect DEF Accepted
    <2> QED BY <1>1, <2>1, <2>2
  <1>3. TestsBecome(k, q)
    BY <1>1, <1>2, TestsStay DEF Accepted
  <1>4. HypothesesBecome(k, q)
    BY <1>1, <1>2, AcceptedIs DEF HypothesesBecome, Accepted, AssessInv, HypothesesInv
  <1> QED BY <1>3, <1>4

\* Whatever the stage, a result that is accepted keeps what was achieved.
LEMMA ResultBecomes ==
  ASSUME NEW k, NEW s, NEW q, NEW ms, Accepted(k, s, q, ms)
  PROVE  HypothesesBecome(k, q) /\ TestsBecome(k, q)
  <1>1. \/ Promotes \/ stage = "GENERATE_HYPOTHESES" \/ Searches
        \/ stage = "DESIGN_FALSIFICATION_TESTS" \/ stage = "EXECUTE_FALSIFICATION_TESTS"
        \/ stage = "REVISE_CONFIDENCE" \/ stage \in AfterRevision
    BY AcceptedIs DEF Stages, StageOrder, Promotes, KindOf, Searches, AfterRevision
  <1> QED BY <1>1, AfterPromotion, AfterGenerating, AfterSearching, AfterDesigning, AfterExecuting,
             AfterRevising, AfterReplaying

-----------------------------------------------------------------------------
(* From one stage to the next.                                              *)

\* Stage s is followed by stage t.
Follows(s, t) == \E i \in 1..10 : StageOrder[i] = s /\ StageOrder[i + 1] = t

\* complete_stage_job: the next stage begins when the last job of this one is done.
LEMMA Finishes ==
  ASSUME stage \in Stages, NEW k, Finish(k)
  PROVE  \/ /\ stage' = stage /\ done' = done \cup {k}
            /\ done \cup {k} = WorkKeys => stage = "COMPLETE"
         \/ Follows(stage, stage') /\ done' = {} /\ done \cup {k} = WorkKeys /\ stage # "COMPLETE"
  <1>1. CASE done \cup {k} # WorkKeys
    BY <1>1 DEF Finish
  <1>2. CASE done \cup {k} = WorkKeys /\ stage = "COMPLETE"
    BY <1>2 DEF Finish
  <1>3. CASE done \cup {k} = WorkKeys /\ stage # "COMPLETE"
    <2>1. \E i \in 2..11 : StageOrder[i - 1] = stage
      <3>1. PICK j \in DOMAIN StageOrder : StageOrder[j] = stage
        BY DEF Stages
      <3>2. j \in 1..11 /\ j # 11
        BY <1>3, <3>1 DEF StageOrder
      <3>3. j + 1 \in 2..11 /\ (j + 1) - 1 = j
        BY <3>2
      <3> QED BY <3>1, <3>3
    <2> DEFINE i == CHOOSE i \in 2..11 : StageOrder[i - 1] = stage
    <2>2. i \in 2..11 /\ StageOrder[i - 1] = stage
      BY <2>1
    <2>3. stage' = StageOrder[i] /\ done' = {}
      BY <1>3 DEF Finish
    <2> HIDE DEF i
    <2>4. i - 1 \in 1..10 /\ (i - 1) + 1 = i
      BY <2>2
    <2> QED BY <1>3, <2>2, <2>3, <2>4 DEF Follows
  <1> QED BY <1>1, <1>2, <1>3

\* The order of the stages.
LEMMA FollowsWhat ==
  ASSUME NEW s, NEW t, Follows(s, t)
  PROVE  <<s, t>> \in {
           <<"PROMOTE_TIMELINE", "RESOLVE_ENTITIES">>, <<"RESOLVE_ENTITIES", "PROMOTE_CLAIMS">>,
           <<"PROMOTE_CLAIMS", "GENERATE_HYPOTHESES">>, <<"GENERATE_HYPOTHESES", "SEARCH_SUPPORT">>,
           <<"SEARCH_SUPPORT", "SEARCH_CONTRADICTIONS">>,
           <<"SEARCH_CONTRADICTIONS", "DESIGN_FALSIFICATION_TESTS">>,
           <<"DESIGN_FALSIFICATION_TESTS", "EXECUTE_FALSIFICATION_TESTS">>,
           <<"EXECUTE_FALSIFICATION_TESTS", "REVISE_CONFIDENCE">>,
           <<"REVISE_CONFIDENCE", "VERIFY_REPLAY">>, <<"VERIFY_REPLAY", "COMPLETE">>}
  <1>1. PICK i \in 1..10 : StageOrder[i] = s /\ StageOrder[i + 1] = t
    BY DEF Follows
  <1>2. i = 1 \/ i = 2 \/ i = 3 \/ i = 4 \/ i = 5 \/ i = 6 \/ i = 7 \/ i = 8 \/ i = 9 \/ i = 10
    OBVIOUS
  <1> QED BY <1>1, <1>2 DEF StageOrder

\* There are no other stages.
LEMMA StageStays ==
  ASSUME stage \in Stages, NEW k, Finish(k)
  PROVE  stage' \in Stages
  <1>1. CASE Follows(stage, stage')
    <2>1. PICK i \in 1..10 : StageOrder[i + 1] = stage'
      BY <1>1 DEF Follows
    <2>2. i + 1 \in DOMAIN StageOrder
      BY DEF StageOrder
    <2> QED BY <2>1, <2>2 DEF Stages
  <1> QED BY <1>1, Finishes

\* What is handled after a step was handled before it, or is what the step handles.
LEMMA HandledBefore ==
  ASSUME AssessInv, NEW k, Finish(k), NEW x, NEW s, NEW after,
         \/ s = "SEARCH_CONTRADICTIONS" /\ after = AfterSearch
         \/ s = "DESIGN_FALSIFICATION_TESTS" /\ after = AfterDesign
         \/ s = "EXECUTE_FALSIFICATION_TESTS" /\ after = AfterTests,
         stage = s => x \in WorkKeys,
         Handled(s, after, x)'
  PROVE  Handled(s, after, x) \/ (stage = s /\ x = k)
  <1>1. stage \in Stages
    BY DEF AssessInv, Stages
  <1>2. CASE stage' = stage /\ done' = done \cup {k}
    BY <1>2 DEF Handled
  <1>3. CASE Follows(stage, stage') /\ done' = {} /\ done \cup {k} = WorkKeys
    <2>1. stage' \in after
      BY <1>3 DEF Handled
    <2>2. stage \in after \/ stage = s
      BY <1>3, <2>1, FollowsWhat DEF AfterSearch, AfterDesign, AfterTests, AfterRevision
    <2> QED BY <1>3, <2>2 DEF Handled
  <1> QED BY <1>1, <1>2, <1>3, Finishes

-----------------------------------------------------------------------------
(* A result that is persisted.                                              *)

\* A result that passes the checks: its events are accepted, and the tables follow them.
LEMMA PersistedIs ==
  ASSUME AssessInv, NEW k \in WorkKeys, Persist(k), Passes(k, answers[k])
  PROVE  /\ State' = replayed' /\ world' = world /\ Finish(k)
         /\ answers' = Restrict(answers, DOMAIN answers \ {k})
         /\ \E s : Accepted(k, s, replayed', answers[k])
         /\ stage = "REVISE_CONFIDENCE" => \A h \in DOMAIN replayed'.hypotheses :
              replayed'.hypotheses[h].status = AssignStatuses(Confidences(replayed'))[h]
  <1> DEFINE ms == answers[k]
             after == Replay(replayed, ms)
  <1>1. /\ tables' = Written(ms) /\ replayed' = after.state
        /\ answers' = Restrict(answers, DOMAIN answers \ {k}) /\ Finish(k) /\ world' = world
    BY DEF Persist
  <1>2. k \in DOMAIN answers
    BY DEF Persist
  <1>3. Fits(k, ms)
    BY <1>2 DEF AssessInv
  <1>4. /\ \A i \in DOMAIN ms : Attributed(k, ms[i])
        /\ Counted(k, ms) /\ Consistent(ms)
    BY DEF Passes
  <1>5. after.ok /\ Stored(Written(ms)) = after.state
    BY <1>4 DEF Consistent
  <1>6. stage = "REVISE_CONFIDENCE" => \A h \in DOMAIN after.state.hypotheses :
          after.state.hypotheses[h].status = AssignStatuses(Confidences(after.state))[h]
    BY <1>4 DEF Consistent
  <1> HIDE DEF ms, after
  <1>7. State' = replayed'
    BY <1>1, <1>5 DEF State
  <1>8. \E s : Path(s, replayed, after.state, ms)
    BY <1>3, <1>5, ReplayAccepted DEF Fits, Numbered, after
  <1>9. \E s : Accepted(k, s, replayed', ms)
    BY <1>1, <1>3, <1>4, <1>8 DEF Accepted
  <1> QED BY <1>1, <1>6, <1>7, <1>9 DEF ms

\* What has become of the hypotheses is kept.
LEMMA HypothesesKept ==
  ASSUME AssessInv, NEW k \in WorkKeys, Persist(k), Passes(k, answers[k])
  PROVE  HypothesesInv(replayed)'
  <1>1. PICK q : q = replayed'
    OBVIOUS
  <1>2. HypothesesBecome(k, q) /\ TestsBecome(k, q)
    <2>1. PICK s : Accepted(k, s, q, answers[k])
      BY <1>1, PersistedIs
    <2>2. PICK ms : ms = answers[k]
      OBVIOUS
    <2> QED BY <2>1, <2>2, ResultBecomes
  <1>3. Finish(k) /\ world' = world /\ stage \in Stages /\ HypothesesInv(replayed)
    BY PersistedIs DEF AssessInv, Stages
  <1>4. /\ DOMAIN q.hypotheses \subseteq DOMAIN world.ideas
        /\ \A h \in DOMAIN q.hypotheses : Sketched(q.hypotheses[h])
    BY <1>2 DEF HypothesesBecome, AllSketched
  <1>5. stage' \in AfterGeneration => DOMAIN q.hypotheses # {}
    <2> SUFFICES ASSUME stage' \in AfterGeneration PROVE DOMAIN q.hypotheses # {}
      OBVIOUS
    <2>1. stage \in AfterGeneration \/ stage = "GENERATE_HYPOTHESES"
      BY <1>3, Finishes, FollowsWhat DEF AfterGeneration, AfterSearch, AfterDesign, AfterTests, AfterRevision
    <2>2. stage # "GENERATE_HYPOTHESES" => DOMAIN replayed.hypotheses # {}
      BY <1>3, <2>1 DEF HypothesesInv
    <2> QED BY <1>2, <2>2 DEF HypothesesBecome
  <1>6. \A h \in DOMAIN q.hypotheses : q.hypotheses[h].status =
          IF stage' \in AfterRevision THEN AssignStatuses(Confidences(q))[h] ELSE "ACTIVE"
    <2>1. CASE stage \in AfterRevision
      <3>1. stage' \in AfterRevision
        BY <1>3, <2>1, Finishes, FollowsWhat DEF AfterRevision
      <3>2. q = replayed
        BY <1>2, <2>1 DEF HypothesesBecome
      <3> QED BY <1>3, <2>1, <3>1, <3>2 DEF HypothesesInv
    <2>2. CASE stage = "REVISE_CONFIDENCE"
      <3>1. done \cup {k} = WorkKeys
        <4>1. WorkKeys = {CaseKey}
          BY <2>2, KeysAre DEF AfterTests
        <4> QED BY <4>1 DEF AssessInv
      <3>2. stage' \in AfterRevision
        BY <1>3, <2>2, <3>1, Finishes, FollowsWhat DEF AfterRevision
      <3>3. \A h \in DOMAIN q.hypotheses : q.hypotheses[h].status = AssignStatuses(Confidences(q))[h]
        BY <1>1, <2>2, PersistedIs
      <3> QED BY <3>2, <3>3
    <2>3. CASE stage \notin AfterTests
      <3>1. stage' \notin AfterRevision
        BY <1>3, <2>3, Finishes, FollowsWhat DEF AfterTests, AfterRevision
      <3>2. AllActive(q)
        BY <1>2, <2>3 DEF HypothesesBecome
      <3> QED BY <3>1, <3>2 DEF AllActive
    <2> QED BY <2>1, <2>2, <2>3 DEF AfterTests
  <1>7. \A h \in DOMAIN q.hypotheses : stage \in {"SEARCH_CONTRADICTIONS", "DESIGN_FALSIFICATION_TESTS"} =>
          h \in WorkKeys
    BY <1>2, KeysAre DEF HypothesesBecome
  <1>8. ASSUME NEW h \in DOMAIN q.hypotheses, Handled("SEARCH_CONTRADICTIONS", AfterSearch, h)'
        PROVE  <<"CONTRADICT", h>> \in DOMAIN q.retrievals
    <2>1. Handled("SEARCH_CONTRADICTIONS", AfterSearch, h) \/ (stage = "SEARCH_CONTRADICTIONS" /\ h = k)
      BY <1>3, <1>7, <1>8, HandledBefore
    <2>2. ASSUME Handled("SEARCH_CONTRADICTIONS", AfterSearch, h)
          PROVE  <<"CONTRADICT", h>> \in DOMAIN q.retrievals
      <3>1. stage # "GENERATE_HYPOTHESES"
        BY <2>2 DEF Handled, AfterSearch, AfterDesign, AfterTests, AfterRevision
      <3>2. h \in DOMAIN replayed.hypotheses
        BY <1>2, <3>1 DEF HypothesesBecome
      <3> QED BY <1>2, <1>3, <2>2, <3>2 DEF HypothesesBecome, HypothesesInv
    <2> QED BY <1>2, <2>1, <2>2 DEF HypothesesBecome
  <1>9. ASSUME NEW h \in DOMAIN q.hypotheses, Handled("DESIGN_FALSIFICATION_TESTS", AfterDesign, h)'
        PROVE  \E i \in DOMAIN q.tests : q.tests[i].hypothesis = h
    <2>1. \/ Handled("DESIGN_FALSIFICATION_TESTS", AfterDesign, h)
          \/ stage = "DESIGN_FALSIFICATION_TESTS" /\ h = k
      BY <1>3, <1>7, <1>9, HandledBefore
    <2>2. ASSUME Handled("DESIGN_FALSIFICATION_TESTS", AfterDesign, h)
          PROVE  \E i \in DOMAIN q.tests : q.tests[i].hypothesis = h
      <3>1. stage # "GENERATE_HYPOTHESES"
        BY <2>2 DEF Handled, AfterDesign, AfterTests, AfterRevision
      <3>2. h \in DOMAIN replayed.hypotheses
        BY <1>2, <3>1 DEF HypothesesBecome
      <3>3. PICK i \in DOMAIN replayed.tests : replayed.tests[i].hypothesis = h
        BY <1>3, <2>2, <3>2 DEF HypothesesInv
      <3> QED BY <1>2, <3>3 DEF TestsBecome
    <2> QED BY <1>2, <2>1, <2>2 DEF TestsBecome
  <1> QED BY <1>1, <1>3, <1>4, <1>5, <1>6, <1>8, <1>9 DEF HypothesesInv, Sketched

\* What has become of the tests is kept.
LEMMA TestsKept ==
  ASSUME AssessInv, NEW k \in WorkKeys, Persist(k), Passes(k, answers[k])
  PROVE  TestsInv(replayed)'
  <1>1. PICK q : q = replayed'
    OBVIOUS
  <1>2. TestsBecome(k, q)
    <2>1. PICK s : Accepted(k, s, q, answers[k])
      BY <1>1, PersistedIs
    <2>2. PICK ms : ms = answers[k]
      OBVIOUS
    <2> QED BY <2>1, <2>2, ResultBecomes
  <1>3. Finish(k) /\ world' = world /\ stage \in Stages /\ TestsInv(replayed)
    BY PersistedIs DEF AssessInv, Stages
  <1>4. stage' \notin AfterSearch => DOMAIN q.tests = {}
    <2> SUFFICES ASSUME stage' \notin AfterSearch PROVE DOMAIN q.tests = {}
      OBVIOUS
    <2>1. stage \notin AfterSearch
      BY <1>3, Finishes, FollowsWhat DEF AfterSearch, AfterDesign, AfterTests, AfterRevision
    <2> QED BY <1>2, <1>3, <2>1 DEF TestsInv, TestsBecome, AfterSearch
  <1>5. ASSUME NEW i \in DOMAIN q.tests, Handled("EXECUTE_FALSIFICATION_TESTS", AfterTests, i)'
        PROVE  q.tests[i].status # "PENDING"
    <2>1. stage = "EXECUTE_FALSIFICATION_TESTS" => i \in WorkKeys
      BY <1>2, KeysAre DEF TestsBecome
    <2>2. Handled("EXECUTE_FALSIFICATION_TESTS", AfterTests, i)
            \/ (stage = "EXECUTE_FALSIFICATION_TESTS" /\ i = k)
      BY <1>3, <1>5, <2>1, HandledBefore
    <2>3. ASSUME Handled("EXECUTE_FALSIFICATION_TESTS", AfterTests, i)
          PROVE  q.tests[i].status # "PENDING"
      <3>1. stage # "DESIGN_FALSIFICATION_TESTS"
        BY <2>3 DEF Handled, AfterTests, AfterRevision
      <3>2. i \in DOMAIN replayed.tests
        BY <1>2, <3>1 DEF TestsBecome
      <3> QED BY <1>2, <1>3, <2>3, <3>2 DEF TestsBecome, TestsInv
    <2> QED BY <1>2, <2>2, <2>3 DEF TestsBecome
  <1>6. \A i \in DOMAIN q.tests :
          /\ i \in Nat /\ DOMAIN q.tests[i] = TestShape /\ q.tests[i].type \in TestType
          /\ VerdictHolds(q.tests[i], q.tests[i], q)
    BY <1>2 DEF TestsBecome
  <1>7. ASSUME NEW i \in DOMAIN q.tests
        PROVE  VerdictHolds(replayed.tests[i], replayed.tests[i], replayed)'
    <2> DEFINE t == q.tests[i]
    <2>1. VerdictHolds(t, t, q)
      BY <1>6
    <2>2. world' = world /\ t = replayed'.tests[i]
      BY <1>1, <1>3
    <2> HIDE DEF t
    <2> QED BY <1>1, <2>1, <2>2 DEF VerdictHolds, Scope
  <1> QED BY <1>1, <1>4, <1>5, <1>6, <1>7 DEF TestsInv

-----------------------------------------------------------------------------
(* Where the candidates go.                                                 *)

\* A stage comes once in the order.
LEMMA StagesDiffer == \A i, j \in 1..11 : StageOrder[i] = StageOrder[j] => i = j
  <1> SUFFICES ASSUME NEW i \in 1..11, NEW j \in 1..11, StageOrder[i] = StageOrder[j] PROVE i = j
    OBVIOUS
  <1>1. i = 1 \/ i = 2 \/ i = 3 \/ i = 4 \/ i = 5 \/ i = 6 \/ i = 7 \/ i = 8 \/ i = 9 \/ i = 10 \/ i = 11
    OBVIOUS
  <1>2. j = 1 \/ j = 2 \/ j = 3 \/ j = 4 \/ j = 5 \/ j = 6 \/ j = 7 \/ j = 8 \/ j = 9 \/ j = 10 \/ j = 11
    OBVIOUS
  <1> QED BY <1>1, <1>2 DEF StageOrder

\* Which stages promote before which.
LEMMA EarlierIs ==
  ASSUME NEW t \in Stages
  PROVE  /\ Earlier("PROMOTE_TIMELINE", t) <=> t # "PROMOTE_TIMELINE"
         /\ Earlier("RESOLVE_ENTITIES", t) <=> t \notin {"PROMOTE_TIMELINE", "RESOLVE_ENTITIES"}
         /\ Earlier("PROMOTE_CLAIMS", t) <=>
              t \notin {"PROMOTE_TIMELINE", "RESOLVE_ENTITIES", "PROMOTE_CLAIMS"}
  <1>1. DOMAIN StageOrder = 1..11
    BY DEF StageOrder
  <1>2. PICK n \in 1..11 : StageOrder[n] = t
    BY <1>1 DEF Stages
  <1>3. n = 1 \/ n = 2 \/ n = 3 \/ n = 4 \/ n = 5 \/ n = 6 \/ n = 7 \/ n = 8 \/ n = 9 \/ n = 10 \/ n = 11
    OBVIOUS
  <1>4. \A j \in 1..11 : /\ StageOrder[j] = "PROMOTE_TIMELINE" <=> j = 1
                         /\ StageOrder[j] = "RESOLVE_ENTITIES" <=> j = 2
                         /\ StageOrder[j] = "PROMOTE_CLAIMS" <=> j = 3
    <2> SUFFICES ASSUME NEW j \in 1..11
                 PROVE  /\ StageOrder[j] = "PROMOTE_TIMELINE" <=> j = 1
                        /\ StageOrder[j] = "RESOLVE_ENTITIES" <=> j = 2
                        /\ StageOrder[j] = "PROMOTE_CLAIMS" <=> j = 3
      OBVIOUS
    <2>1. j = 1 \/ j = 2 \/ j = 3 \/ j = 4 \/ j = 5 \/ j = 6 \/ j = 7 \/ j = 8 \/ j = 9 \/ j = 10 \/ j = 11
      OBVIOUS
    <2> QED BY <2>1 DEF StageOrder
  <1>5. \A j \in 1..11 : StageOrder[j] = t <=> j = n
    BY <1>2, StagesDiffer
  <1>6. \A m \in {1, 2, 3} : Earlier(StageOrder[m], t) <=> m < n
    <2> SUFFICES ASSUME NEW m \in {1, 2, 3} PROVE Earlier(StageOrder[m], t) <=> m < n
      OBVIOUS
    <2>1. \A i \in 1..11 : StageOrder[i] = StageOrder[m] <=> i = m
      BY <1>4 DEF StageOrder
    <2> QED BY <1>1, <1>2, <1>5, <2>1 DEF Earlier
  <1>7. StageOrder[1] = "PROMOTE_TIMELINE" /\ StageOrder[2] = "RESOLVE_ENTITIES"
        /\ StageOrder[3] = "PROMOTE_CLAIMS"
    BY DEF StageOrder
  <1> QED BY <1>2, <1>4, <1>6, <1>7

\* One stage more is over when the next begins.
LEMMA EarlierNext ==
  ASSUME NEW t \in Stages, NEW u \in Stages, Follows(t, u), NEW s \in DOMAIN KindOf
  PROVE  Earlier(s, u) <=> Earlier(s, t) \/ s = t
  <1>1. s \in {"PROMOTE_TIMELINE", "RESOLVE_ENTITIES", "PROMOTE_CLAIMS"}
    BY DEF KindOf
  <1> QED BY <1>1, EarlierIs, FollowsWhat

\* The number of a candidate's batch.
LEMMA BatchNumber ==
  ASSUME NEW n \in Nat, NEW c \in 1..n
  PROVE  (c - 1) \div BatchSize \in Batches(n)
  <1> DEFINE B == BatchSize
             a == (c - 1) \div B
             b == (n + B - 1) \div B
  <1>0. B \in Nat \ {0}
    BY PromotionAssumption
  <1>1. a \in Int /\ B * a <= c - 1 /\ c - 1 < B * a + B
    BY <1>0
  <1>2. b \in Int /\ B * b <= n + B - 1 /\ n + B - 1 < B * b + B
    BY <1>0
  <1> HIDE DEF a, b, B
  <1>3. B * a < B * b
    BY <1>0, <1>1, <1>2
  <1>4. a < b
    BY <1>0, <1>1, <1>2, <1>3
  <1>5. 0 <= a
    BY <1>0, <1>1
  <1> QED BY <1>1, <1>2, <1>4, <1>5 DEF a, b, B, Batches

\* Candidates are dealt to jobs by their numbers.
LEMMA BatchOf ==
  ASSUME NEW cands, NEW k \in Nat, NEW c \in DOMAIN cands, DOMAIN cands \subseteq Nat \ {0}
  PROVE  c \in Batch(cands, k) <=> (c - 1) \div BatchSize = k
  <1> DEFINE B == BatchSize
             a == (c - 1) \div B
  <1>0. B \in Nat \ {0} /\ c \in Nat \ {0}
    BY PromotionAssumption
  <1>1. a \in Int /\ B * a <= c - 1 /\ c - 1 < B * a + B
    BY <1>0
  <1>2. c \in Batch(cands, k) <=> k * B < c /\ c <= (k + 1) * B
    BY DEF Batch
  <1> HIDE DEF a, B
  <1>3. a = k => k * B < c /\ c <= (k + 1) * B
    BY <1>0, <1>1
  <1>4. k * B < c /\ c <= (k + 1) * B => a = k
    <2> SUFFICES ASSUME k * B < c, c <= (k + 1) * B PROVE a = k
      OBVIOUS
    <2>1. k * B < B * a + B /\ B * a < (k + 1) * B
      BY <1>0, <1>1
    <2>2. B * k < B * (a + 1) /\ B * a < B * (k + 1)
      BY <1>0, <1>1, <2>1
    <2>3. k < a + 1 /\ a < k + 1
      BY <1>0, <1>1, <2>2
    <2> QED BY <1>1, <2>3
  <1> QED BY <1>2, <1>3, <1>4 DEF a, B

\* Candidates are numbered.
LEMMA CandidatesNumbered ==
  ASSUME world \in World, NEW s \in DOMAIN KindOf
  PROVE  LET cands == world.candidates[KindOf[s]] IN Len(cands) \in Nat /\ DOMAIN cands = 1..Len(cands)
  <1>1. KindOf[s] \in {"timeline", "entity", "claim"}
    BY DEF KindOf
  <1> QED BY <1>1, WorldAssumption DEF Numbered

\* Each stage of promotion has a kind of its own.
LEMMA KindsDiffer ==
  ASSUME NEW s \in DOMAIN KindOf, NEW t \in DOMAIN KindOf, KindOf[s] = KindOf[t]
  PROVE  s = t
  BY DEF KindOf

\* The batch of a job that promotes something.
LEMMA PromotedBatch ==
  ASSUME AssessInv, Promotes, NEW k \in WorkKeys, NEW c \in DOMAIN Candidates
  PROVE  /\ k \in Nat /\ WorkKeys = Batches(Len(Candidates))
         /\ BatchNo(c) \in WorkKeys /\ (c \in Batch(Candidates, k) <=> BatchNo(c) = k)
  <1>1. Len(Candidates) \in Nat /\ DOMAIN Candidates = 1..Len(Candidates)
    BY CandidatesNumbered DEF AssessInv, Candidates, Promotes
  <1>2. BatchNo(c) \in Batches(Len(Candidates))
    BY <1>1, BatchNumber DEF BatchNo
  <1>3. WorkKeys = Batches(Len(Candidates))
    BY <1>2, KeysAre
  <1>4. k \in Nat
    BY <1>3 DEF Batches
  <1>5. DOMAIN Candidates \subseteq Nat \ {0}
    BY <1>1
  <1> QED BY <1>2, <1>3, <1>4, <1>5, BatchOf DEF BatchNo

\* The checks of a result that promotes.
LEMMA PromotionChecked ==
  ASSUME Promotes, NEW k, NEW m
  PROVE  /\ Attributed(k, m) => m.kind = "RECORD_CREATED" /\ m.id[1] = KindOf[stage]
         /\ \A ms : Counted(k, ms) => CoversBatch(k, ms)
  <1>1. stage \in {"PROMOTE_TIMELINE", "RESOLVE_ENTITIES", "PROMOTE_CLAIMS"}
    BY DEF Promotes, KindOf
  <1> QED BY <1>1 DEF Attributed, Counted, Searches

\* A promoted record is there as it was proposed.
LEMMA RecordsPromoted ==
  ASSUME NEW p, NEW q, NEW ms, NEW n, Adds(p, q, ms, n), NEW i \in 1..n
  PROVE  /\ ms[i].id \in DOMAIN q.records /\ ms[i].id \notin DOMAIN p.records
         /\ q.records[ms[i].id].sources = ms[i].sources /\ q.records[ms[i].id].links = ms[i].links
  <1>1. q.records[ms[i].id] = Promoted(ms[i]) /\ ms[i].id \notin DOMAIN p.records
    BY DEF Adds
  <1>2. ms[i].id \in {ms[j].id : j \in 1..n}
    OBVIOUS
  <1>3. ms[i].id \in DOMAIN q.records
    BY <1>2 DEF Adds
  <1> QED BY <1>1, <1>3 DEF Promoted

\* The batch of job k is placed in q, and no other candidate.
Places(k, q, c) ==
  IF BatchNo(c) = k THEN \E id : Sourced(q, stage, c) = {id}
                    ELSE Sourced(q, stage, c) = Sourced(replayed, stage, c)

\* A result of promotion places its batch.
LEMMA PromotionSources ==
  ASSUME NEW k, NEW s, NEW q, NEW ms, Accepted(k, s, q, ms), Promotes, k \notin done,
         NEW c \in DOMAIN Candidates
  PROVE  Places(k, q, c)
  <1> DEFINE p == replayed
             B == Batch(Candidates, k)
             kind == KindOf[stage]
             N == Len(ms)
  <1>0. AssessInv /\ k \in WorkKeys /\ stage \in DOMAIN KindOf
    BY DEF Accepted, Promotes
  <1>1. /\ \A x \in 1..N : ms[x].id[1] = kind
        /\ UNION {ms[x].sources : x \in 1..N} = B
        /\ \A x, y \in 1..N : x # y => ms[x].sources \cap ms[y].sources = {}
    <2>1. k # CaseKey
      BY <1>0, PromotedBatch DEF CaseKey
    <2>2. CoversBatch(k, ms)
      BY PromotionChecked DEF Accepted
    <2>3. ASSUME NEW m, Attributed(k, m) PROVE m.id[1] = kind
      BY <2>3, PromotionChecked
    <2> QED BY <2>1, <2>2, <2>3, AcceptedIs DEF CoversBatch, Accepted
  <1>2. Adds(p, q, ms, N)
    BY AfterPromotion
  <1>3. c \in B <=> BatchNo(c) = k
    BY <1>0, PromotedBatch
  <1>4. \A id : id \in Sourced(q, stage, c) <=>
          id \in Sourced(p, stage, c) \/ \E x \in 1..N : id = ms[x].id /\ c \in ms[x].sources
    <2> HIDE DEF p, B, kind, N
    <2>1. ASSUME NEW x \in 1..N
          PROVE  /\ ms[x].id \in DOMAIN q.records /\ ms[x].id \notin DOMAIN p.records
                 /\ q.records[ms[x].id].sources = ms[x].sources
      BY <1>2, RecordsPromoted
    <2>2. ASSUME NEW id, id \in Sourced(q, stage, c), id \notin Sourced(p, stage, c)
          PROVE  \E x \in 1..N : id = ms[x].id /\ c \in ms[x].sources
      <3>1. id \in DOMAIN q.records /\ id[1] = KindOf[stage] /\ c \in q.records[id].sources
        BY <2>2 DEF Sourced, Ids
      <3>2. id \notin DOMAIN p.records
        BY <1>2, <2>2, <3>1 DEF Adds, Sourced, Ids
      <3>3. PICK x \in 1..N : id = ms[x].id
        BY <1>2, <3>1, <3>2 DEF Adds
      <3> QED BY <2>1, <3>1, <3>3
    <2>3. ASSUME NEW id, id \in Sourced(p, stage, c) PROVE id \in Sourced(q, stage, c)
      BY <1>2, <2>3 DEF Adds, Sourced, Ids
    <2>4. ASSUME NEW x \in 1..N, c \in ms[x].sources PROVE ms[x].id \in Sourced(q, stage, c)
      BY <1>1, <2>1, <2>4 DEF Sourced, Ids, kind
    <2> QED BY <2>2, <2>3, <2>4
  <1>5. CASE BatchNo(c) = k
    <2>1. PICK x \in 1..N : c \in ms[x].sources
      BY <1>1, <1>3, <1>5
    <2>2. \A y \in 1..N : c \in ms[y].sources => y = x
      BY <1>1, <2>1
    <2>3. Sourced(p, stage, c) = {}
      <3>1. ~Placed(stage, c)
        <4>1. ~Earlier(stage, stage)
          BY <1>0, EarlierIs DEF AssessInv, Stages, KindOf
        <4> QED BY <1>5, <4>1 DEF Placed
      <3>2. RecordsInv(p)
        BY <1>0 DEF AssessInv
      <3> QED BY <1>0, <3>1, <3>2 DEF RecordsInv, Candidates
    <2>4. Sourced(q, stage, c) = {ms[x].id}
      BY <1>4, <2>1, <2>2, <2>3
    <2> QED BY <1>5, <2>4 DEF Places
  <1>6. CASE BatchNo(c) # k
    <2>1. \A x \in 1..N : c \notin ms[x].sources
      BY <1>1, <1>3, <1>6
    <2>2. Sourced(q, stage, c) = Sourced(p, stage, c)
      BY <1>4, <2>1
    <2> QED BY <1>6, <2>2 DEF Places
  <1> QED BY <1>5, <1>6

\* A record has the evidence of its candidates, for and against.
LEMMA PromotionLinks ==
  ASSUME NEW k, NEW s, NEW q, NEW ms, Accepted(k, s, q, ms), Promotes, NEW id \in Ids(q, KindOf[stage])
  PROVE  q.records[id].links = LinksOf(Candidates, q.records[id].sources)
  <1>1. Adds(replayed, q, ms, Len(ms))
    BY AfterPromotion
  <1>2. CASE id \in DOMAIN replayed.records
    <2>1. id \in Ids(replayed, KindOf[stage]) /\ q.records[id] = replayed.records[id]
      BY <1>1, <1>2 DEF Adds, Ids
    <2>2. RecordsInv(replayed) /\ stage \in DOMAIN KindOf
      BY DEF Accepted, AssessInv, Promotes
    <2> QED BY <2>1, <2>2 DEF RecordsInv, Candidates
  <1>3. CASE id \notin DOMAIN replayed.records
    <2>1. PICK i \in 1..Len(ms) : id = ms[i].id
      BY <1>1, <1>3 DEF Adds, Ids
    <2>2. q.records[id].links = ms[i].links /\ q.records[id].sources = ms[i].sources
      BY <1>1, <2>1, RecordsPromoted
    <2>3. ms[i].links = LinksOf(Candidates, ms[i].sources)
      BY <2>1, AcceptedIs DEF Accepted, Fits
    <2> QED BY <2>2, <2>3
  <1> QED BY <1>2, <1>3

\* Records of the other kinds stay as they are.
LEMMA OtherRecords ==
  ASSUME NEW k, NEW s, NEW q, NEW ms, Accepted(k, s, q, ms), NEW other \in DOMAIN KindOf, other # stage
  PROVE  /\ Ids(q, KindOf[other]) = Ids(replayed, KindOf[other])
         /\ \A id \in Ids(replayed, KindOf[other]) : q.records[id] = replayed.records[id]
  <1>1. CASE ~Promotes
    <2>1. q.records = replayed.records
      BY <1>1, ResultBecomes DEF TestsBecome
    <2> QED BY <2>1 DEF Ids
  <1>2. CASE Promotes
    <2>1. Adds(replayed, q, ms, Len(ms))
      BY <1>2, AfterPromotion
    <2>2. \A x \in 1..Len(ms) : ms[x].id[1] # KindOf[other]
      <3>1. ASSUME NEW m, Attributed(k, m) PROVE m.id[1] = KindOf[stage]
        BY <1>2, <3>1, PromotionChecked
      <3>2. KindOf[stage] # KindOf[other]
        BY <1>2, KindsDiffer DEF Promotes
      <3> QED BY <3>1, <3>2, AcceptedIs DEF Accepted
    <2>3. \A id \in DOMAIN q.records : id[1] = KindOf[other] => id \in DOMAIN replayed.records
      BY <2>1, <2>2 DEF Adds
    <2> QED BY <2>1, <2>3 DEF Adds, Ids
  <1> QED BY <1>1, <1>2

\* What has become of the candidates is kept.
LEMMA RecordsKept ==
  ASSUME AssessInv, NEW k \in WorkKeys, Persist(k), Passes(k, answers[k])
  PROVE  RecordsInv(replayed)'
  <1>1. PICK q : q = replayed'
    OBVIOUS
  <1>2. PICK s, ms : Accepted(k, s, q, ms)
    BY <1>1, PersistedIs
  <1>3. Finish(k) /\ world' = world /\ stage \in Stages /\ stage' \in Stages /\ RecordsInv(replayed)
        /\ k \notin done
    BY PersistedIs, StageStays DEF AssessInv, Stages, Persist, Open
  <1> DEFINE p == replayed
             Cands(t) == world.candidates[KindOf[t]]
  <1> SUFFICES ASSUME NEW t \in DOMAIN KindOf
               PROVE  /\ \A c \in DOMAIN Cands(t) :
                           IF Placed(t, c)' THEN \E id : Sourced(q, t, c) = {id} ELSE Sourced(q, t, c) = {}
                      /\ \A id \in Ids(q, KindOf[t]) :
                           q.records[id].links = LinksOf(Cands(t), q.records[id].sources)
    <2>1. world'.candidates = world.candidates /\ replayed' = q
      BY <1>1, <1>3
    <2>2. \A t, c : Sourced(replayed, t, c)' = Sourced(q, t, c)
      BY <2>1 DEF Sourced
    <2> QED BY <2>1, <2>2 DEF RecordsInv
  <1>4. \A c \in DOMAIN Cands(t) :
          IF Placed(t, c) THEN \E id : Sourced(p, t, c) = {id} ELSE Sourced(p, t, c) = {}
    BY <1>3 DEF RecordsInv
  <1>5. Follows(stage, stage') => (Earlier(t, stage') <=> Earlier(t, stage) \/ t = stage)
    BY <1>3, EarlierNext
  <1>6. CASE t # stage
    <2>1. /\ Ids(q, KindOf[t]) = Ids(p, KindOf[t])
          /\ \A id \in Ids(p, KindOf[t]) : q.records[id] = p.records[id]
      BY <1>2, <1>6, OtherRecords
    <2>2. \A c : Sourced(q, t, c) = Sourced(p, t, c)
      BY <2>1 DEF Sourced
    <2>3. \A c : Placed(t, c)' <=> Placed(t, c)
      BY <1>3, <1>5, <1>6, Finishes DEF Placed
    <2>4. \A id \in Ids(p, KindOf[t]) : p.records[id].links = LinksOf(Cands(t), p.records[id].sources)
      BY <1>3 DEF RecordsInv
    <2> QED BY <1>4, <2>1, <2>2, <2>3, <2>4
  <1>7. CASE t = stage
    <2>1. Promotes /\ Cands(t) = Candidates
      BY <1>7 DEF Promotes, Candidates
    <2>2. \A id \in Ids(q, KindOf[t]) : q.records[id].links = LinksOf(Cands(t), q.records[id].sources)
      BY <1>2, <1>7, <2>1, PromotionLinks
    <2>3. ASSUME NEW c \in DOMAIN Cands(t)
          PROVE  IF Placed(t, c)' THEN \E id : Sourced(q, t, c) = {id} ELSE Sourced(q, t, c) = {}
      <3> DEFINE b == BatchNo(c)
      <3>1. IF b = k THEN \E id : Sourced(q, t, c) = {id} ELSE Sourced(q, t, c) = Sourced(p, t, c)
        <4>1. c \in DOMAIN Candidates
          BY <2>1
        <4>2. Places(k, q, c)
          BY <1>2, <1>3, <2>1, <4>1, PromotionSources
        <4> QED BY <1>7, <4>2 DEF Places
      <3>2. b \in WorkKeys
        BY <2>1, PromotedBatch
      <3> HIDE DEF b
      <3>3. Placed(t, c) <=> b \in done
        <4>1. ~Earlier(t, stage)
          BY <1>3, <1>7, EarlierIs DEF KindOf
        <4> QED BY <1>7, <4>1 DEF Placed, b
      <3>4. Placed(t, c)' <=> b \in done \cup {k}
        <4>1. CASE stage' = stage /\ done' = done \cup {k}
          BY <1>3, <1>7, <4>1, EarlierIs DEF KindOf, Placed, b
        <4>2. CASE Follows(stage, stage') /\ done \cup {k} = WorkKeys
          BY <1>5, <1>7, <3>2, <4>2 DEF Placed
        <4> QED BY <1>3, <4>1, <4>2, Finishes
      <3> QED BY <1>4, <3>1, <3>3, <3>4
    <2> QED BY <2>2, <2>3
  <1> QED BY <1>6, <1>7

-----------------------------------------------------------------------------
(* The invariant.                                                           *)

\* The jobs of a stage stay the same while it lasts.
LEMMA KeysStay ==
  ASSUME AssessInv, NEW k \in WorkKeys, Persist(k), Passes(k, answers[k]), stage' = stage
  PROVE  WorkKeys' = WorkKeys
  <1>1. PICK q : q = replayed'
    OBVIOUS
  <1>2. PICK s, ms : Accepted(k, s, q, ms)
    BY <1>1, PersistedIs
  <1>3. HypothesesBecome(k, q) /\ TestsBecome(k, q)
    BY <1>2, ResultBecomes
  <1>4. /\ State' = replayed' /\ world' = world /\ State = replayed
    BY PersistedIs DEF AssessInv
  <1>5. /\ replayed.hypotheses = tables.hypotheses /\ replayed.tests = tables.tests
        /\ q.hypotheses = tables'.hypotheses /\ q.tests = tables'.tests
    BY <1>1, <1>4 DEF State, Stored
  <1>6. Promotes' = Promotes /\ Searches' = Searches /\ Candidates' = Candidates
    BY <1>4 DEF Promotes, Searches, Candidates
  <1>7. Searches \/ stage = "DESIGN_FALSIFICATION_TESTS" =>
          DOMAIN tables'.hypotheses = DOMAIN tables.hypotheses
    BY <1>3, <1>5 DEF HypothesesBecome, Searches
  <1>8. stage = "EXECUTE_FALSIFICATION_TESTS" => DOMAIN tables'.tests = DOMAIN tables.tests
    BY <1>3, <1>5 DEF TestsBecome
  <1> QED BY <1>6, <1>7, <1>8 DEF WorkKeys, Searches

\* Answers that wait fit still.
LEMMA AnswersKept ==
  ASSUME AssessInv, NEW k \in WorkKeys, Persist(k), Passes(k, answers[k])
  PROVE  /\ done' \subseteq WorkKeys' /\ DOMAIN answers' \subseteq WorkKeys' \ done'
         /\ \A x \in DOMAIN answers' : Fits(x, answers[x])'
  <1>1. PICK q : q = replayed'
    OBVIOUS
  <1>2. PICK s, ms : Accepted(k, s, q, ms)
    BY <1>1, PersistedIs
  <1>3. TestsBecome(k, q)
    BY <1>2, ResultBecomes
  <1>4. /\ answers' = Restrict(answers, DOMAIN answers \ {k}) /\ world' = world /\ Finish(k)
        /\ stage \in Stages /\ done \subseteq WorkKeys /\ DOMAIN answers \subseteq WorkKeys \ done
        /\ \A x \in DOMAIN answers : Fits(x, answers[x])
    BY PersistedIs DEF AssessInv, Stages
  <1>5. DOMAIN answers' = DOMAIN answers \ {k} /\ \A x \in DOMAIN answers' : answers'[x] = answers[x]
    BY <1>4 DEF Restrict
  <1>6. CASE stage' = stage /\ done' = done \cup {k}
    <2>1. WorkKeys' = WorkKeys
      BY <1>6, KeysStay
    <2>2. ASSUME NEW x \in DOMAIN answers' PROVE Fits(x, answers[x])'
      <3>1. Fits(x, answers[x]) /\ answers'[x] = answers[x] /\ x # k /\ x \in WorkKeys
        BY <1>4, <1>5
      <3>2. ASSUME stage = "EXECUTE_FALSIFICATION_TESTS"
            PROVE  q.tests[x] = replayed.tests[x] /\ q.records = replayed.records
        <4>1. x \in DOMAIN replayed.tests \ {k}
          BY <3>1, <3>2, KeysAre
        <4>2. ~Promotes
          BY <3>2 DEF Promotes, KindOf
        <4> QED BY <1>3, <3>2, <4>1, <4>2 DEF TestsBecome
      <3>3. stage = "EXECUTE_FALSIFICATION_TESTS" =>
              VerdictHolds(replayed.tests[x], answers[x][1], replayed)'
        BY <1>1, <1>4, <1>6, <3>1, <3>2 DEF Fits, VerdictHolds, Scope
      <3> QED BY <1>4, <1>6, <3>1, <3>3 DEF Fits, Promotes, Searches, Candidates
    <2> QED BY <1>4, <1>5, <1>6, <2>1, <2>2
  <1>7. CASE done' = {} /\ done \cup {k} = WorkKeys
    <2>1. DOMAIN answers' = {}
      BY <1>4, <1>5, <1>7
    <2> QED BY <1>7, <2>1
  <1> QED BY <1>4, <1>6, <1>7, Finishes

\* The invariant holds at first,
LEMMA InitAssess == Init => AssessInv
  <1> SUFFICES ASSUME Init PROVE AssessInv
    OBVIOUS
  <1>1. /\ world \in World /\ stage = "PROMOTE_TIMELINE" /\ done = {} /\ answers = <<>>
        /\ tables = EmptyTables /\ replayed = Stored(EmptyTables)
    BY DEF Init
  <1>2. State = replayed
    BY <1>1 DEF State
  <1>3. /\ DOMAIN replayed = Shape /\ DOMAIN replayed.hypotheses = {} /\ DOMAIN replayed.tests = {}
        /\ DOMAIN replayed.records = {}
    BY <1>1 DEF Stored, EmptyTables, Shape
  <1>4. stage \in Stages
    <2>1. StageOrder[1] = "PROMOTE_TIMELINE" /\ 1 \in DOMAIN StageOrder
      BY DEF StageOrder
    <2> QED BY <1>1, <2>1 DEF Stages
  <1>5. stage \notin AfterGeneration
    BY <1>1 DEF AfterGeneration, AfterSearch, AfterDesign, AfterTests, AfterRevision
  <1>6. HypothesesInv(replayed) /\ TestsInv(replayed)
    BY <1>3, <1>5 DEF HypothesesInv, TestsInv
  <1>7. RecordsInv(replayed)
    <2>1. \A s \in DOMAIN KindOf : \A c : ~Placed(s, c)
      <3>1. \A s \in DOMAIN KindOf : ~Earlier(s, stage)
        BY <1>1, <1>4, EarlierIs DEF KindOf
      <3> QED BY <1>1, <3>1 DEF Placed
    <2>2. \A s \in DOMAIN KindOf : \A c : Sourced(replayed, s, c) = {} /\ Ids(replayed, KindOf[s]) = {}
      BY <1>3 DEF Sourced, Ids
    <2> QED BY <2>1, <2>2 DEF RecordsInv
  <1>8. DOMAIN answers = {} /\ eligible \subseteq Pinned
    BY <1>1 DEF Init
  <1> QED BY <1>1, <1>2, <1>3, <1>4, <1>6, <1>7, <1>8 DEF AssessInv, Stages

\* Nothing but the answers and the status changes, and evidence is withdrawn.
LEMMA AssessStays ==
  ASSUME AssessInv, eligible' \subseteq eligible, UNCHANGED <<world, stage, done, tables, replayed>>,
         DOMAIN answers' \subseteq WorkKeys \ done, \A x \in DOMAIN answers' : Fits(x, answers'[x])
  PROVE  AssessInv'
  <1>1. WorkKeys' = WorkKeys /\ State' = State
    BY DEF WorkKeys, Promotes, Searches, Candidates, State
  <1>2. HypothesesInv(replayed)' /\ TestsInv(replayed)' /\ RecordsInv(replayed)'
    <2>1. HypothesesInv(replayed)'
      BY DEF AssessInv, HypothesesInv, Handled
    <2>2. TestsInv(replayed)'
      <3>1. TestsInv(replayed) /\ replayed' = replayed /\ world' = world /\ stage' = stage /\ done' = done
        BY DEF AssessInv
      <3>2. \A t : VerdictHolds(t, t, replayed)' <=> VerdictHolds(t, t, replayed)
        BY <3>1 DEF VerdictHolds, Scope
      <3>3. \A i : Handled("EXECUTE_FALSIFICATION_TESTS", AfterTests, i)'
                   <=> Handled("EXECUTE_FALSIFICATION_TESTS", AfterTests, i)
        BY <3>1 DEF Handled
      <3> QED BY <3>1, <3>2, <3>3 DEF TestsInv
    <2>3. RecordsInv(replayed)'
      <3>1. RecordsInv(replayed) /\ replayed' = replayed /\ world' = world
        BY DEF AssessInv
      <3>2. \A s, c : Placed(s, c)' <=> Placed(s, c)
        BY DEF Placed
      <3> QED BY <3>1, <3>2 DEF RecordsInv
    <2> QED BY <2>1, <2>2, <2>3
  <1>3. ASSUME NEW x \in DOMAIN answers' PROVE Fits(x, answers[x])'
    <2>1. Fits(x, answers'[x])
      OBVIOUS
    <2> QED BY <2>1 DEF Fits, Promotes, Searches, Candidates, VerdictHolds, Scope
  <1>4. (eligible \subseteq Pinned)'
    BY DEF AssessInv, Pinned
  <1> QED BY <1>1, <1>2, <1>3, <1>4 DEF AssessInv

\* and every step keeps it.
LEMMA StepAssess == AssessInv /\ [Next]_vars => AssessInv'
  <1> SUFFICES ASSUME AssessInv, [Next]_vars PROVE AssessInv'
    OBVIOUS
  <1>0. /\ done \subseteq WorkKeys /\ DOMAIN answers \subseteq WorkKeys \ done
        /\ \A x \in DOMAIN answers : Fits(x, answers[x])
    BY DEF AssessInv
  <1>1. CASE UNCHANGED vars
    BY <1>0, <1>1, AssessStays DEF vars
  <1>2. ASSUME NEW k \in WorkKeys, Answer(k) PROVE AssessInv'
    <2>1. PICK ms \in Results(k) : answers' = Put(answers, k, ms)
      BY <1>2 DEF Answer
    <2>2. k \in WorkKeys \ done /\ UNCHANGED <<world, eligible, stage, done, tables, replayed>>
      BY <1>2 DEF Answer, Open
    <2>3. Fits(k, ms)
      BY AnswerFits
    <2>4. DOMAIN answers' = DOMAIN answers \cup {k}
          /\ \A x \in DOMAIN answers' : answers'[x] = IF x = k THEN ms ELSE answers[x]
      BY <2>1 DEF Put
    <2> QED BY <1>0, <2>2, <2>3, <2>4, AssessStays
  <1>3. ASSUME NEW k \in WorkKeys, Exhausted(k) \/ Unavailable(k) PROVE AssessInv'
    BY <1>3, AssessStays DEF Exhausted, Unavailable
  <1>4. ASSUME NEW k \in WorkKeys, Lost(k) PROVE AssessInv'
    <2>1. DOMAIN answers' = DOMAIN answers \ {k} /\ \A x \in DOMAIN answers' : answers'[x] = answers[x]
      BY <1>4 DEF Lost, Restrict
    <2> QED BY <1>0, <1>4, <2>1, AssessStays DEF Lost
  <1>5. ASSUME NEW k \in WorkKeys, Persist(k) PROVE AssessInv'
    <2>1. CASE Passes(k, answers[k])
      <3>1. State' = replayed' /\ world' = world /\ stage' \in Stages
        BY <1>5, <2>1, PersistedIs, StageStays DEF AssessInv, Stages
      <3>3. (eligible \subseteq Pinned)'
        BY <1>5, <3>1 DEF Persist, AssessInv, Pinned
      <3>2. DOMAIN replayed' = Shape
        <4>1. PICK q : q = replayed'
          OBVIOUS
        <4>2. PICK s, ms : Accepted(k, s, q, ms)
          BY <1>5, <2>1, <4>1, PersistedIs
        <4> QED BY <4>1, <4>2, ResultBecomes DEF HypothesesBecome
      <3> QED BY <1>5, <2>1, <3>1, <3>2, <3>3, HypothesesKept, TestsKept, RecordsKept, AnswersKept
              DEF AssessInv, Stages
    <2>2. CASE ~Passes(k, answers[k])
      BY <1>5, <2>2, AssessStays DEF Persist
    <2> QED BY <2>1, <2>2
  <1>6. CASE Reinterpret
    BY <1>0, <1>6, AssessStays DEF Reinterpret
  <1> QED BY <1>1, <1>2, <1>3, <1>4, <1>5, <1>6 DEF Next

\* The invariant: the tables are what the events replay to, promoted candidates are placed,
\* searches and tests are recorded where their stage has handled a hypothesis, and the answers
\* that wait fit the state they will be persisted in, in every world and for every order of jobs.
THEOREM Assesses == Spec => []AssessInv
  BY InitAssess, StepAssess, PTL DEF Spec

\* What Leads says, in the order of the integers.
LEMMA LeadsIs ==
  ASSUME NEW conf, \A g \in DOMAIN conf : conf[g] \in Int, NEW h, Leads(conf, h)
  PROVE  \A g \in DOMAIN conf \ {h} : conf[g] < conf[h]
  <1>1. Highest(conf) = {h}
    BY DEF Leads
  <1>2. h \in DOMAIN conf /\ \A g \in DOMAIN conf : conf[g] <= conf[h]
    BY <1>1 DEF Highest
  <1>3. ASSUME NEW g \in DOMAIN conf \ {h} PROVE conf[g] < conf[h]
    <2>1. PICK x \in DOMAIN conf : ~(conf[x] <= conf[g])
      BY <1>1 DEF Highest
    <2> QED BY <1>2, <2>1
  <1> QED BY <1>3

\* Only a leader is given that status.
LEMMA LeadingIs ==
  ASSUME NEW conf, NEW h \in DOMAIN conf, AssignStatuses(conf)[h] = "LEADING"
  PROVE  Leads(conf, h) /\ conf[h] >= 5000
  <1>1. Leads(conf, h)
    BY DEF AssignStatuses
  <1> QED BY <1>1 DEF Leads

\* The invariant says of a leader,
LEMMA LeaderFits == AssessInv => LeaderJustified
  <1> SUFFICES ASSUME AssessInv, NEW h \in DOMAIN tables.hypotheses,
                      tables.hypotheses[h].status = "LEADING"
               PROVE  /\ tables.hypotheses[h].confidence >= 5000
                      /\ \A g \in DOMAIN tables.hypotheses \ {h} :
                           tables.hypotheses[g].confidence < tables.hypotheses[h].confidence
                      /\ <<"CONTRADICT", h>> \in DOMAIN tables.queries
                      /\ DOMAIN TestsOf(State, h) # {}
                      /\ \A k \in DOMAIN TestsOf(State, h) : Test(k).status # "PENDING"
    BY DEF LeaderJustified
  <1> DEFINE p == replayed
             conf == Confidences(p)
  <1>1. /\ State = p /\ p.hypotheses = tables.hypotheses /\ DOMAIN p.retrievals = DOMAIN tables.queries
        /\ HypothesesInv(p) /\ TestsInv(p)
    BY DEF AssessInv, State, Stored
  <1>2. stage \in AfterRevision
    BY <1>1 DEF HypothesesInv
  <1>3. AssignStatuses(conf)[h] = "LEADING"
    BY <1>1, <1>2 DEF HypothesesInv
  <1>4. DOMAIN conf = DOMAIN p.hypotheses /\ \A g \in DOMAIN conf : conf[g] = p.hypotheses[g].confidence
    BY DEF Confidences
  <1>5. \A g \in DOMAIN conf : conf[g] \in Int
    BY <1>1, <1>4 DEF HypothesesInv
  <1> HIDE DEF conf
  <1>6. conf[h] >= 5000 /\ \A g \in DOMAIN conf \ {h} : conf[g] < conf[h]
    BY <1>1, <1>3, <1>4, <1>5, LeadingIs, LeadsIs
  <1>7. stage \in AfterSearch /\ stage \in AfterDesign /\ stage \in AfterTests
    BY <1>2 DEF AfterSearch, AfterDesign, AfterTests
  <1>8. <<"CONTRADICT", h>> \in DOMAIN p.retrievals /\ \E i \in DOMAIN p.tests : p.tests[i].hypothesis = h
    BY <1>1, <1>7 DEF HypothesesInv, Handled
  <1>9. \A i \in DOMAIN p.tests : p.tests[i].status # "PENDING"
    BY <1>1, <1>7 DEF TestsInv, Handled
  <1>10. DOMAIN TestsOf(p, h) = {i \in DOMAIN p.tests : p.tests[i].hypothesis = h}
    BY DEF TestsOf
  <1> QED BY <1>1, <1>4, <1>6, <1>8, <1>9, <1>10 DEF Test

\* of a verdict,
LEMMA VerdictsFit == AssessInv => VerdictsGrounded
  <1> SUFFICES ASSUME AssessInv PROVE VerdictsGrounded
    OBVIOUS
  <1>1. State = replayed /\ tables.tests = replayed.tests /\ TestsInv(replayed)
    BY DEF AssessInv, State, Stored
  <1>2. \A k \in DOMAIN replayed.tests : VerdictHolds(replayed.tests[k], replayed.tests[k], replayed)
    BY <1>1 DEF TestsInv
  <1>3. \A k \in DOMAIN tables.tests : VerdictHolds(Test(k), Test(k), State)
    BY <1>1, <1>2 DEF Test
  <1> QED BY <1>3 DEF VerdictsGrounded, VerdictHolds

\* and of a promoted record what the properties ask.
LEMMA LineageFits == AssessInv => LineageKept
  <1> SUFFICES ASSUME AssessInv PROVE LineageKept
    OBVIOUS
  <1> DEFINE Position(s) == CHOOSE i \in DOMAIN StageOrder : StageOrder[i] = s
  <1>1. \A s \in Stages : Position(s) \in 1..11 /\ StageOrder[Position(s)] = s
    BY DEF Stages, StageOrder
  <1>2. State = replayed /\ RecordsInv(replayed) /\ stage \in Stages
    BY DEF AssessInv, Stages
  <1>3. ASSUME NEW s \in DOMAIN KindOf PROVE Position(s) < Position(stage) <=> Earlier(s, stage)
    <2>1. s \in Stages
      <3>1. s \in {StageOrder[1], StageOrder[2], StageOrder[3]} /\ DOMAIN StageOrder = 1..11
        BY DEF KindOf, StageOrder
      <3> QED BY <3>1 DEF Stages
    <2>2. \A i, j \in 1..11 : StageOrder[i] = StageOrder[j] => i = j
      BY StagesDiffer
    <2>3. DOMAIN StageOrder = 1..11
      BY DEF StageOrder
    <2> HIDE DEF Position
    <2> QED BY <1>1, <1>2, <2>1, <2>2, <2>3 DEF Earlier
  <1> HIDE DEF Position
  <1>4. ASSUME NEW s \in DOMAIN KindOf, NEW c \in DOMAIN world.candidates[KindOf[s]]
        PROVE  Cardinality(SourcedBy(KindOf[s], c)) =
                 IF Position(s) < Position(stage) \/ (s = stage /\ (c - 1) \div BatchSize \in done)
                 THEN 1 ELSE 0
    <2>1. SourcedBy(KindOf[s], c) = Sourced(replayed, s, c)
      BY <1>2 DEF SourcedBy, Sourced
    <2>2. IF Placed(s, c) THEN \E id : Sourced(replayed, s, c) = {id} ELSE Sourced(replayed, s, c) = {}
      BY <1>2 DEF RecordsInv
    <2>3. Placed(s, c) <=> Position(s) < Position(stage) \/ (s = stage /\ (c - 1) \div BatchSize \in done)
      BY <1>3 DEF Placed, BatchNo
    <2>4. Cardinality(SourcedBy(KindOf[s], c)) = IF Placed(s, c) THEN 1 ELSE 0
      BY <2>1, <2>2, FS_EmptySet, FS_Singleton
    <2> QED BY <2>3, <2>4
  <1>5. \A s \in DOMAIN KindOf : \A id \in Ids(State, KindOf[s]) :
          State.records[id].links = LinksOf(world.candidates[KindOf[s]], State.records[id].sources)
    BY <1>2 DEF RecordsInv
  <1> QED BY <1>4, <1>5 DEF LineageKept, Position

\* At most one hypothesis leads when confidence is revised (assign_hypothesis_statuses); it is ahead
\* of all others, was searched for contradictions and has a test and none left, in every world.
THEOREM LeaderIsJustified == Spec => []LeaderJustified
  BY Assesses, LeaderFits, PTL

\* A test that survived or was contradicted cites pinned evidence in its scope (execute_test and
\* _materialize), which stays so whatever is promoted, searched and revised around it.
THEOREM VerdictsAreGrounded == Spec => []VerdictsGrounded
  BY Assesses, VerdictsFit, PTL

\* Every candidate of a finished batch is a source of exactly one record, and a record has the
\* evidence of its candidates, for and against (promotion.py), however the model groups them.
THEOREM LineageIsKept == Spec => []LineageKept
  BY Assesses, LineageFits, PTL

-----------------------------------------------------------------------------
(***************************************************************************)
(* A search loses no evidence that fits to evidence that is worth less.    *)
(***************************************************************************)
\* How two items of evidence are ranked.
Key(q, fts, records, e) ==
  <<Total(q, fts, records, e), fts[e], EntityScore(q, records, e), TimeScore(q, records, e)>>
RankedIn(q, S, fts, records) ==
  \A e \in S : /\ Total(q, fts, records, e) \in Int /\ fts[e] \in Int
               /\ EntityScore(q, records, e) \in Int /\ TimeScore(q, records, e) \in Int

\* Evidence is before other evidence by the first of total, rank and scores in which it is better.
LEMMA BeforeIs ==
  ASSUME NEW q, NEW fts, NEW records, NEW a \in Int, NEW b \in Int,
         RankedIn(q, {a, b}, fts, records)
  PROVE  Before(q, fts, records, a, b) <=>
           LET x == Key(q, fts, records, a)
               y == Key(q, fts, records, b)
           IN \/ x[1] > y[1]
              \/ x[1] = y[1] /\ x[2] > y[2]
              \/ x[1] = y[1] /\ x[2] = y[2] /\ x[3] > y[3]
              \/ x[1] = y[1] /\ x[2] = y[2] /\ x[3] = y[3] /\ x[4] > y[4]
              \/ x[1] = y[1] /\ x[2] = y[2] /\ x[3] = y[3] /\ x[4] = y[4] /\ a < b
  <1> DEFINE x == Key(q, fts, records, a)
             y == Key(q, fts, records, b)
             Higher == \E i \in DOMAIN x : x[i] > y[i] /\ \A j \in 1..i - 1 : x[j] = y[j]
  <1>1. Before(q, fts, records, a, b) <=> Higher \/ (x = y /\ a < b)
    BY DEF Before, Key
  <1>2. /\ x = <<x[1], x[2], x[3], x[4]>> /\ y = <<y[1], y[2], y[3], y[4]>>
        /\ DOMAIN x = 1..4
    BY DEF Key
  <1>3. \A i \in 1..4 : x[i] \in Int /\ y[i] \in Int
    BY DEF Key, RankedIn
  <1> HIDE DEF x, y
  <1>4. x = y <=> x[1] = y[1] /\ x[2] = y[2] /\ x[3] = y[3] /\ x[4] = y[4]
    BY <1>2
  <1>5. Higher <=> \/ x[1] > y[1]
                   \/ x[1] = y[1] /\ x[2] > y[2]
                   \/ x[1] = y[1] /\ x[2] = y[2] /\ x[3] > y[3]
                   \/ x[1] = y[1] /\ x[2] = y[2] /\ x[3] = y[3] /\ x[4] > y[4]
    <2> DEFINE At(i) == x[i] > y[i] /\ \A j \in 1..i - 1 : x[j] = y[j]
    <2>1. Higher <=> At(1) \/ At(2) \/ At(3) \/ At(4)
      BY <1>2
    <2>2. 1..1-1 = {} /\ 1..2-1 = {1} /\ 1..3-1 = {1, 2} /\ 1..4-1 = {1, 2, 3}
      OBVIOUS
    <2>3. /\ At(1) <=> x[1] > y[1]
          /\ At(2) <=> x[2] > y[2] /\ x[1] = y[1]
          /\ At(3) <=> x[3] > y[3] /\ x[1] = y[1] /\ x[2] = y[2]
          /\ At(4) <=> x[4] > y[4] /\ x[1] = y[1] /\ x[2] = y[2] /\ x[3] = y[3]
      BY <2>2
    <2> QED BY <2>1, <2>3
  <1>6. Before(q, fts, records, a, b) <=>
           \/ x[1] > y[1]
           \/ x[1] = y[1] /\ x[2] > y[2]
           \/ x[1] = y[1] /\ x[2] = y[2] /\ x[3] > y[3]
           \/ x[1] = y[1] /\ x[2] = y[2] /\ x[3] = y[3] /\ x[4] > y[4]
           \/ x[1] = y[1] /\ x[2] = y[2] /\ x[3] = y[3] /\ x[4] = y[4] /\ a < b
    BY <1>1, <1>4, <1>5
  <1> QED BY <1>6 DEF x, y

\* The ranking is a strict order of the evidence, which respects the totals.
LEMMA BeforeOrders ==
  ASSUME NEW q, NEW fts, NEW records, NEW S \in SUBSET Int, RankedIn(q, S, fts, records)
  PROVE  /\ \A a \in S : ~Before(q, fts, records, a, a)
         /\ \A a, b \in S : a # b => Before(q, fts, records, a, b) \/ Before(q, fts, records, b, a)
         /\ \A a, b, c \in S : Before(q, fts, records, a, b) /\ Before(q, fts, records, b, c)
                                 => Before(q, fts, records, a, c)
         /\ \A a, b \in S : Before(q, fts, records, a, b)
                              => Total(q, fts, records, a) >= Total(q, fts, records, b)
  <1> DEFINE K(e) == Key(q, fts, records, e)
             B(a, b) == \/ K(a)[1] > K(b)[1]
                        \/ K(a)[1] = K(b)[1] /\ K(a)[2] > K(b)[2]
                        \/ K(a)[1] = K(b)[1] /\ K(a)[2] = K(b)[2] /\ K(a)[3] > K(b)[3]
                        \/ K(a)[1] = K(b)[1] /\ K(a)[2] = K(b)[2] /\ K(a)[3] = K(b)[3] /\ K(a)[4] > K(b)[4]
                        \/ K(a)[1] = K(b)[1] /\ K(a)[2] = K(b)[2] /\ K(a)[3] = K(b)[3]
                           /\ K(a)[4] = K(b)[4] /\ a < b
  <1>1. ASSUME NEW a \in S, NEW b \in S PROVE Before(q, fts, records, a, b) <=> B(a, b)
    <2>1. RankedIn(q, {a, b}, fts, records)
      BY DEF RankedIn
    <2> QED BY <2>1, BeforeIs
  <1>2. \A e \in S : K(e)[1] \in Int /\ K(e)[2] \in Int /\ K(e)[3] \in Int /\ K(e)[4] \in Int
    BY DEF Key, RankedIn
  <1>3. \A e \in S : K(e)[1] = Total(q, fts, records, e)
    BY DEF Key
  <1> HIDE DEF K
  <1>4. \A a \in S : ~B(a, a)
    BY <1>2
  <1>5. \A a, b \in S : a # b => B(a, b) \/ B(b, a)
    BY <1>2
  <1>6. \A a, b, c \in S : B(a, b) /\ B(b, c) => B(a, c)
    BY <1>2
  <1>7. \A a, b \in S : B(a, b) => K(a)[1] >= K(b)[1]
    BY <1>2
  <1> HIDE DEF B
  <1> QED BY <1>1, <1>3, <1>4, <1>5, <1>6, <1>7

\* R orders S strictly; the rank of an item, and what ranks are.
StrictOrder(S, R) ==
  /\ \A a \in S : <<a, a>> \notin R
  /\ \A a, b \in S : a # b => <<a, b>> \in R \/ <<b, a>> \in R
  /\ \A a, b, c \in S : <<a, b>> \in R /\ <<b, c>> \in R => <<a, c>> \in R
RankIn(S, R, e) == Cardinality({x \in S : <<x, e>> \in R})
RanksAre(S, R) ==
  /\ \A e \in S : RankIn(S, R, e) \in 0..Cardinality(S) - 1
  /\ \A a, b \in S : <<a, b>> \in R => RankIn(S, R, a) < RankIn(S, R, b)
  /\ \A n \in 0..Cardinality(S) - 1 : \E e \in S : RankIn(S, R, e) = n

\* In a finite set with a strict order every item has its place: as many are ahead of it as its
\* rank says.
LEMMA RanksFill ==
  ASSUME NEW S, IsFiniteSet(S), NEW R, StrictOrder(S, R)
  PROVE  RanksAre(S, R)
  <1> DEFINE Ahead(e) == {x \in S : <<x, e>> \in R}
             Rank(e) == Cardinality(Ahead(e))
             N == Cardinality(S)
  <1> USE DEF StrictOrder
  <1>1. N \in Nat
    BY FS_CardinalityType
  <1>2. ASSUME NEW e \in S PROVE IsFiniteSet(Ahead(e)) /\ Rank(e) \in 0..N - 1
    <2>1. Ahead(e) \subseteq S /\ Ahead(e) # S
      OBVIOUS
    <2>2. IsFiniteSet(Ahead(e)) /\ Rank(e) <= N /\ Rank(e) # N
      BY <2>1, FS_Subset
    <2>3. Rank(e) \in Nat
      BY <2>2, FS_CardinalityType
    <2> HIDE DEF Rank, N
    <2> QED BY <1>1, <2>2, <2>3
  <1>3. ASSUME NEW a \in S, NEW b \in S, <<a, b>> \in R PROVE Rank(a) < Rank(b)
    <2>1. Ahead(a) \subseteq Ahead(b) /\ Ahead(a) # Ahead(b)
      <3>1. a \in Ahead(b) /\ a \notin Ahead(a)
        BY <1>3
      <3>2. \A x \in Ahead(a) : x \in Ahead(b)
        BY <1>3
      <3> QED BY <3>1, <3>2
    <2>2. Rank(a) <= Rank(b) /\ Rank(a) # Rank(b)
      BY <1>2, <2>1, FS_Subset
    <2>3. Rank(a) \in Int /\ Rank(b) \in Int
      BY <1>1, <1>2
    <2> HIDE DEF Rank
    <2> QED BY <2>2, <2>3
  <1>4. ASSUME NEW n \in 0..N - 1 PROVE \E e \in S : Rank(e) = n
    <2> DEFINE f == [e \in S |-> Rank(e)]
    <2>1. IsFiniteSet(0..N - 1) /\ Cardinality(0..N - 1) = N
      <3>1. 0 \in Int /\ N - 1 \in Int
        BY <1>1
      <3>2. IsFiniteSet(0..N - 1) /\ Cardinality(0..N - 1) = IF 0 > N - 1 THEN 0 ELSE (N - 1) - 0 + 1
        BY <3>1, FS_Interval
      <3>3. (IF 0 > N - 1 THEN 0 ELSE (N - 1) - 0 + 1) = N
        BY <1>1
      <3> QED BY <3>2, <3>3
    <2>2. f \in [S -> 0..N - 1]
      BY <1>2
    <2>3. \A a, b \in S : f[a] = f[b] => a = b
      <3> SUFFICES ASSUME NEW a \in S, NEW b \in S, Rank(a) = Rank(b), a # b PROVE FALSE
        OBVIOUS
      <3>1. Rank(a) < Rank(b) \/ Rank(b) < Rank(a)
        <4>1. <<a, b>> \in R \/ <<b, a>> \in R
          OBVIOUS
        <4> HIDE DEF Rank
        <4> QED BY <1>3, <4>1
      <3>2. Rank(a) \in Int /\ Rank(b) \in Int
        BY <1>1, <1>2
      <3> HIDE DEF Rank
      <3> QED BY <3>1, <3>2
    <2> HIDE DEF f
    <2>4. f \in Injection(S, 0..N - 1)
      BY <2>2, <2>3 DEF Injection, IsInjective
    <2>5. f \in Surjection(S, 0..N - 1)
      BY <2>1, <2>4, FS_Injection
    <2>6. \E e \in S : f[e] = n
      BY <2>5 DEF Surjection
    <2> QED BY <2>6 DEF f
  <1> QED BY <1>2, <1>3, <1>4 DEF RanksAre, RankIn

\* The page has the best of S by total, each once, as many as there are or as the limit lets.
BestOf(page, q, S, fts, records) ==
  /\ Numbered(page) /\ \A i \in DOMAIN page : page[i] \in S
  /\ Len(page) <= q.limit /\ IsInjective(page)
  /\ \A e \in S : (\A i \in DOMAIN page : page[i] # e) =>
       /\ Len(page) = q.limit
       /\ \A i \in DOMAIN page : Total(q, fts, records, page[i]) >= Total(q, fts, records, e)

\* A page has the items of highest rank: it is full, or it has them all.
LEMMA PageIs ==
  ASSUME NEW q, q.limit \in Nat, NEW fts, NEW records, NEW S \in SUBSET Int, IsFiniteSet(S),
         RankedIn(q, S, fts, records)
  PROVE  BestOf(Page(q, S, fts, records), q, S, fts, records)
  <1> DEFINE R == {p \in S \X S : Before(q, fts, records, p[1], p[2])}
             Ahead(e) == {x \in S : Before(q, fts, records, x, e)}
             Rank(e) == Cardinality(Ahead(e))
             N == Cardinality(S)
             M == Min({q.limit, N})
             T(e) == Total(q, fts, records, e)
             page == Page(q, S, fts, records)
  <1>1. \A a, b \in S : <<a, b>> \in R <=> Before(q, fts, records, a, b)
    OBVIOUS
  <1>2. StrictOrder(S, R)
    BY <1>1, BeforeOrders DEF StrictOrder
  <1>0. \A a, b \in S : <<a, b>> \in R => T(a) >= T(b)
    BY <1>1, BeforeOrders
  <1> HIDE DEF R
  <1>3. \A e \in S : Ahead(e) = {x \in S : <<x, e>> \in R}
    BY <1>1
  <1>4. \A e \in S : RankIn(S, R, e) = Rank(e)
    BY <1>3 DEF RankIn
  <1>5. /\ \A e \in S : Rank(e) \in 0..N - 1
        /\ \A a, b \in S : <<a, b>> \in R => Rank(a) < Rank(b)
        /\ \A n \in 0..N - 1 : \E e \in S : Rank(e) = n
    <2>1. RanksAre(S, R)
      BY <1>2, RanksFill
    <2> HIDE DEF Rank
    <2> QED BY <1>4, <2>1 DEF RanksAre
  <1>6. N \in Nat
    BY FS_CardinalityType
  <1>7. M \in Nat /\ M <= N /\ M <= q.limit /\ (M = N \/ M = q.limit)
    BY <1>6, MinIsLeast
  <1>8. page = [n \in 1..M |-> CHOOSE e \in S : Rank(e) = n - 1]
    BY DEF Page
  <1> HIDE DEF M, N, Rank, page, T
  <1>9. ASSUME NEW n \in 1..M PROVE page[n] \in S /\ Rank(page[n]) = n - 1
    <2>1. n - 1 \in 0..N - 1
      BY <1>6, <1>7
    <2>2. \E e \in S : Rank(e) = n - 1
      BY <1>5, <2>1
    <2> QED BY <1>8, <2>2
  <1>10. DOMAIN page = 1..M /\ Len(page) = M
    BY <1>7, <1>8
  <1>11. Numbered(page) /\ \A i \in DOMAIN page : page[i] \in S
    BY <1>7, <1>9, <1>10 DEF Numbered
  <1>12. ASSUME NEW e \in S, \A i \in DOMAIN page : page[i] # e
         PROVE  Len(page) = q.limit /\ \A i \in DOMAIN page : T(page[i]) >= T(e)
    <2>1. \A a, b \in S : Rank(a) = Rank(b) => a = b
      <3> SUFFICES ASSUME NEW a \in S, NEW b \in S, Rank(a) = Rank(b), a # b PROVE FALSE
        OBVIOUS
      <3>1. Rank(a) < Rank(b) \/ Rank(b) < Rank(a)
        BY <1>2, <1>5 DEF StrictOrder
      <3>2. Rank(a) \in Int /\ Rank(b) \in Int
        BY <1>5
      <3> QED BY <3>1, <3>2
    <2>2. Rank(e) \in 0..N - 1 /\ ~(Rank(e) + 1 \in 1..M)
      <3> SUFFICES ASSUME Rank(e) + 1 \in 1..M PROVE FALSE
        BY <1>5
      <3>1. page[Rank(e) + 1] \in S /\ Rank(page[Rank(e) + 1]) = (Rank(e) + 1) - 1
        BY <1>9
      <3>2. Rank(page[Rank(e) + 1]) = Rank(e)
        BY <1>5, <3>1
      <3> QED BY <1>10, <1>12, <2>1, <3>1, <3>2
    <2>3. Rank(e) >= M /\ M # N
      BY <1>6, <1>7, <2>2
    <2>4. ASSUME NEW i \in 1..M PROVE T(page[i]) >= T(e)
      <3>1. page[i] \in S /\ Rank(page[i]) = i - 1
        BY <1>9
      <3>2. ~(Rank(e) < Rank(page[i]))
        BY <1>5, <1>7, <2>2, <2>3, <3>1
      <3>3. <<page[i], e>> \in R
        BY <1>2, <1>5, <1>10, <1>12, <3>1, <3>2 DEF StrictOrder
      <3> QED BY <1>0, <3>1, <3>3
    <2> QED BY <1>7, <1>10, <2>3, <2>4
  <1>13. IsInjective(page)
    <2> SUFFICES ASSUME NEW i \in 1..M, NEW j \in 1..M, page[i] = page[j] PROVE i = j
      BY <1>10 DEF IsInjective
    <2>1. Rank(page[i]) = i - 1 /\ Rank(page[j]) = j - 1
      BY <1>9
    <2>2. i - 1 = j - 1 /\ i \in Int /\ j \in Int
      BY <1>7, <2>1
    <2> QED BY <2>2
  <1> QED BY <1>7, <1>10, <1>11, <1>12, <1>13 DEF page, T, BestOf

\* What a filter lets through, and what the ranks are.
LEMMA QueryFits ==
  ASSUME NEW q \in Queries, NEW text \in DOMAIN world.ranks, world \in World, eligible \subseteq Pinned
  PROVE  LET fts == world.ranks[text]
             found == {e \in DOMAIN Evidence : Matches(q, Evidence, fts, State.records, e)}
         IN /\ q.limit \in Nat /\ IsFiniteSet(found) /\ found \in SUBSET Int
            /\ RankedIn(q, found, fts, State.records)
            /\ \A e \in DOMAIN Evidence :
                 e \in found <=>
                   /\ fts[e] > 0
                   /\ q.types # {} => Evidence[e].type \in q.types
                   /\ q.entities # {} => \E id \in q.entities : e \in EvidenceOf(State.records[id].links)
                   /\ q.timed => \E id \in Ids(State, "timeline") :
                                   /\ State.records[id].says.at \in q.from..q.until
                                   /\ e \in EvidenceOf(State.records[id].links)
  <1> DEFINE fts == world.ranks[text]
             recs == State.records
             found == {e \in DOMAIN Evidence : Matches(q, Evidence, fts, recs, e)}
  <1>1. /\ q.limit \in 1..2 /\ q.from = 1 /\ q.until = 1 /\ q.timed \in BOOLEAN
        /\ q.entities = {} \/ \E id : q.entities = {id}
    BY DEF Queries
  <1>2. IsFiniteSet(DOMAIN Evidence) /\ DOMAIN Evidence \subseteq Nat
        /\ \A e \in DOMAIN Evidence : fts[e] \in Nat
    BY EvidenceIs
  <1>3. IsFiniteSet(found) /\ found \in SUBSET Int
    BY <1>2, FS_Subset
  <1>4. ASSUME NEW e, NEW id PROVE e \in EvidenceOf(recs[id].links) <=> \E l \in recs[id].links : l[1] = e
    BY DEF EvidenceOf
  <1>5. ASSUME NEW e
        PROVE  /\ EntityScore(q, recs, e) \in Int
               /\ q.entities # {} => (EntityScore(q, recs, e) > 0 <=>
                    \E id \in q.entities : e \in EvidenceOf(recs[id].links))
    <2>1. CASE q.entities = {}
      BY <2>1 DEF EntityScore
    <2>2. CASE q.entities # {}
      <3>1. PICK id : q.entities = {id}
        BY <1>1, <2>2
      <3>2. Cardinality(q.entities) = 1
        BY <3>1, FS_Singleton
      <3>3. EntityScore(q, recs, e) = (100 * Cardinality(Linked(recs, e, {id}))) \div 1
        BY <2>2, <3>1, <3>2 DEF EntityScore
      <3>4. CASE \E l \in recs[id].links : l[1] = e
        <4>1. Linked(recs, e, {id}) = {id}
          BY <3>4 DEF Linked
        <4>2. EntityScore(q, recs, e) = (100 * 1) \div 1
          BY <3>3, <4>1, FS_Singleton
        <4>3. EntityScore(q, recs, e) = 100
          BY <4>2
        <4>4. \A x \in q.entities : x = id
          BY <3>1
        <4>5. e \in EvidenceOf(recs[id].links) /\ id \in q.entities
          BY <1>4, <3>1, <3>4
        <4> HIDE DEF recs
        <4> QED BY <4>3, <4>4, <4>5
      <3>5. CASE ~\E l \in recs[id].links : l[1] = e
        <4>1. Linked(recs, e, {id}) = {}
          BY <3>5 DEF Linked
        <4>2. EntityScore(q, recs, e) = (100 * 0) \div 1
          BY <3>3, <4>1, FS_EmptySet
        <4>3. EntityScore(q, recs, e) = 0
          BY <4>2
        <4>4. \A x \in q.entities : x = id
          BY <3>1
        <4>5. e \notin EvidenceOf(recs[id].links) /\ id \in q.entities
          BY <1>4, <3>1, <3>5
        <4> HIDE DEF recs
        <4> QED BY <4>3, <4>4, <4>5
      <3> QED BY <3>4, <3>5
    <2> QED BY <2>1, <2>2
  <1>6. ASSUME NEW e
        PROVE  /\ TimeScore(q, recs, e) \in Int
               /\ q.timed => (TimeScore(q, recs, e) > 0 <=>
                    \E id \in Ids(State, "timeline") :
                      recs[id].says.at \in q.from..q.until /\ e \in EvidenceOf(recs[id].links))
    <2>1. \A id : Linked(recs, e, {id}) # {} <=> \E l \in recs[id].links : l[1] = e
      BY DEF Linked
    <2>2. \A at : Within(q, at) <=> at \in q.from..q.until
      BY <1>1 DEF Within
    <2>3. Ids(State, "timeline") = {id \in DOMAIN recs : id[1] = "timeline"}
      BY DEF Ids
    <2> DEFINE Hit == \E r \in DOMAIN recs : /\ r[1] = "timeline"
                                            /\ Within(q, recs[r].says.at)
                                            /\ Linked(recs, e, {r}) # {}
    <2>4. Hit <=> \E id \in Ids(State, "timeline") :
                  recs[id].says.at \in q.from..q.until /\ e \in EvidenceOf(recs[id].links)
      BY <1>4, <2>1, <2>2, <2>3
    <2>5. TimeScore(q, recs, e) = IF q.timed /\ Hit THEN 100 ELSE 0
      BY DEF TimeScore
    <2> HIDE DEF Hit
    <2>6. TimeScore(q, recs, e) \in Int /\ (q.timed => (TimeScore(q, recs, e) > 0 <=> Hit))
      BY <1>1, <2>5
    <2> QED BY <2>4, <2>6
  <1>7. ASSUME NEW e \in DOMAIN Evidence PROVE Total(q, fts, recs, e) \in Int
    BY <1>2, <1>5, <1>6 DEF Total
  <1>8. RankedIn(q, found, fts, recs)
    BY <1>2, <1>5, <1>6, <1>7 DEF RankedIn
  <1>9. ASSUME NEW e \in DOMAIN Evidence
        PROVE  e \in found <=>
                 /\ fts[e] > 0
                 /\ q.types # {} => Evidence[e].type \in q.types
                 /\ q.entities # {} => \E id \in q.entities : e \in EvidenceOf(recs[id].links)
                 /\ q.timed => \E id \in Ids(State, "timeline") :
                                 recs[id].says.at \in q.from..q.until /\ e \in EvidenceOf(recs[id].links)
    BY <1>5, <1>6 DEF Matches
  <1> QED BY <1>1, <1>3, <1>8, <1>9

\* The search is the page of what the filters let through.
LEMMA SearchFits == world \in World /\ eligible \subseteq Pinned => SearchIsComplete
  <1> SUFFICES ASSUME world \in World, eligible \subseteq Pinned, NEW q \in Queries, NEW text \in DOMAIN world.ranks
               PROVE  LET fts   == world.ranks[text]
                          found == Search(q, Evidence, fts, State.records)
                          fits  == {e \in DOMAIN Evidence :
                                      /\ fts[e] > 0
                                      /\ q.types # {} => Evidence[e].type \in q.types
                                      /\ q.entities # {} =>
                                           \E id \in q.entities : e \in EvidenceOf(State.records[id].links)
                                      /\ q.timed => \E id \in Ids(State, "timeline") :
                                                      /\ State.records[id].says.at \in q.from..q.until
                                                      /\ e \in EvidenceOf(State.records[id].links)}
                          Worth(e) == Total(q, fts, State.records, e)
                      IN /\ ToSet(found) \subseteq fits
                         /\ \A e \in fits \ ToSet(found) :
                              Len(found) = q.limit /\ \A i \in DOMAIN found : Worth(found[i]) >= Worth(e)
    BY DEF SearchIsComplete
  <1> DEFINE fts == world.ranks[text]
             found == Search(q, Evidence, fts, State.records)
             fits == {e \in DOMAIN Evidence :
                        /\ fts[e] > 0
                        /\ q.types # {} => Evidence[e].type \in q.types
                        /\ q.entities # {} => \E id \in q.entities : e \in EvidenceOf(State.records[id].links)
                        /\ q.timed => \E id \in Ids(State, "timeline") :
                                        /\ State.records[id].says.at \in q.from..q.until
                                        /\ e \in EvidenceOf(State.records[id].links)}
             matching == {e \in DOMAIN Evidence : Matches(q, Evidence, fts, State.records, e)}
             Worth(e) == Total(q, fts, State.records, e)
  <1>1. /\ q.limit \in Nat /\ IsFiniteSet(matching) /\ matching \in SUBSET Int
        /\ RankedIn(q, matching, fts, State.records) /\ matching = fits
    BY QueryFits
  <1>2. found = Page(q, matching, fts, State.records)
    BY DEF Search
  <1> HIDE DEF matching, fts, found
  <1>3. /\ Numbered(found) /\ \A i \in DOMAIN found : found[i] \in matching
        /\ \A e \in matching : (\A i \in DOMAIN found : found[i] # e) =>
              Len(found) = q.limit /\ \A i \in DOMAIN found : Worth(found[i]) >= Worth(e)
    <2>1. BestOf(Page(q, matching, fts, State.records), q, matching, fts, State.records)
      BY <1>1, PageIs
    <2> QED BY <1>2, <2>1 DEF BestOf
  <1>4. ToSet(found) = {found[i] : i \in DOMAIN found}
    BY DEF ToSet
  <1> HIDE DEF fits, Worth
  <1>5. /\ ToSet(found) \subseteq fits
        /\ \A e \in fits \ ToSet(found) :
             Len(found) = q.limit /\ \A i \in DOMAIN found : Worth(found[i]) >= Worth(e)
    BY <1>1, <1>3, <1>4
  <1> QED BY <1>5 DEF fits, found, Worth, fts

\* A search (_SEARCH_SQL) has only evidence that its filters let through, and leaves such evidence
\* out only when the page is full of evidence that is worth no less: for every ranking of the
\* text, and over the records of every moment of the assessment.
THEOREM SearchesAreComplete == Spec => []SearchIsComplete
  <1>1. AssessInv => world \in World /\ eligible \subseteq Pinned
    BY DEF AssessInv
  <1>2. AssessInv => SearchIsComplete
    BY <1>1, SearchFits
  <1> QED BY Assesses, <1>2, PTL

-----------------------------------------------------------------------------
(***************************************************************************)
(* A hypothesis whose tests went no worse ends no lower.  Its confidence   *)
(* is what it began with and the sum of the deltas of its tests, which is  *)
(* added up in no particular order.                                        *)
(***************************************************************************)

SumOf(D) == MapThenSumSet(LAMBDA d : d[2], D)
Amounts(D) == IsFiniteSet(D) /\ \A d \in D : d[2] \in Int
Pick(s) == CHOOSE d \in s : TRUE
\* The sums of the subsets of D, each from that of a smaller one.
IsSum(f, D) ==
  f = [s \in SUBSET D |-> IF s = {} THEN 0 ELSE Pick(s)[2] + f[s \ {Pick(s)}]]

\* Without one of its items a set is smaller by one.
LEMMA PickSmaller ==
  ASSUME NEW D, IsFiniteSet(D), NEW s \in SUBSET D, s # {}
  PROVE  /\ Pick(s) \in s /\ s \ {Pick(s)} \in SUBSET D
         /\ IsFiniteSet(s) /\ Cardinality(s) \in 1..Cardinality(D)
         /\ Cardinality(s \ {Pick(s)}) = Cardinality(s) - 1
  <1>1. Pick(s) \in s
    BY DEF Pick
  <1>2. /\ IsFiniteSet(s) /\ Cardinality(s) <= Cardinality(D)
        /\ Cardinality(s) \in Nat /\ Cardinality(D) \in Nat
    BY FS_Subset, FS_CardinalityType
  <1>3. Cardinality(s) # 0
    BY <1>2, FS_EmptySet
  <1>4. Cardinality(s \ {Pick(s)}) = Cardinality(s) - 1
    BY <1>1, <1>2, FS_RemoveElement
  <1>5. Cardinality(s) \in 1..Cardinality(D)
    BY <1>2, <1>3
  <1> QED BY <1>1, <1>2, <1>4, <1>5

\* The sums of a set of amounts.
LEMMA SumExists ==
  ASSUME NEW D, Amounts(D)
  PROVE  \E f \in [SUBSET D -> Int] : IsSum(f, D)
  <1> DEFINE N == Cardinality(D)
             V == [SUBSET D -> Int]
             Step(g) == [s \in SUBSET D |-> IF s = {} THEN 0 ELSE Pick(s)[2] + g[s \ {Pick(s)}]]
             zero == [s \in SUBSET D |-> 0]
             F == [x \in Nat \X V |-> Step(x[2])]
  <1>1. N \in Nat /\ IsFiniteSet(D) /\ \A d \in D : d[2] \in Int
    BY FS_CardinalityType DEF Amounts
  <1>2. ASSUME NEW s \in SUBSET D, s # {}
        PROVE  /\ Pick(s) \in s /\ s \ {Pick(s)} \in SUBSET D
               /\ IsFiniteSet(s) /\ Cardinality(s) \in 1..N
               /\ Cardinality(s \ {Pick(s)}) = Cardinality(s) - 1
    BY <1>1, <1>2, PickSmaller
  <1>3. \A g \in V : Step(g) \in V
    <2> SUFFICES ASSUME NEW g \in V, NEW s \in SUBSET D, s # {}
                 PROVE  Pick(s)[2] + g[s \ {Pick(s)}] \in Int
      OBVIOUS
    <2>1. Pick(s)[2] \in Int /\ g[s \ {Pick(s)}] \in Int
      BY <1>1, <1>2
    <2> QED BY <2>1
  <1>4. zero \in V /\ F \in [Nat \X V -> V]
    BY <1>3
  <1>5. \A g \in V, n \in Nat : F[<<n, g>>] = Step(g)
    <2> HIDE DEF V, Step
    <2> QED OBVIOUS
  <1>6. \A s \in SUBSET D, g \in V : Step(g)[s] = IF s = {} THEN 0 ELSE Pick(s)[2] + g[s \ {Pick(s)}]
    OBVIOUS
  <1>7. \A s \in SUBSET D : zero[s] = 0
    OBVIOUS
  <1>8. \A g \in V, s \in SUBSET D : g[s] \in Int
    OBVIOUS
  <1> HIDE DEF V, zero, F, N, Step
  <1>9. PICK h : IsLoop(h, V, zero, F, N)
    BY <1>1, <1>4, Recursion
  <1>10. \A n \in 0..N : h[n] \in V
    BY <1>9 DEF IsLoop
  <1>11. ASSUME NEW n \in 1..N PROVE h[n] = Step(h[n - 1]) /\ h[n - 1] \in V /\ h[n] \in V
    <2>1. n \in Nat /\ n - 1 \in 0..N /\ n \in 0..N
      BY <1>1
    <2>2. h[n] = F[<<n, h[n - 1]>>]
      BY <1>9 DEF IsLoop
    <2> QED BY <1>5, <1>10, <2>1, <2>2
  <1> DEFINE f == [s \in SUBSET D |-> IF s = {} THEN 0 ELSE h[Cardinality(s)][s]]
  <1>12. ASSUME NEW s \in SUBSET D, s # {}
         PROVE  f[s] = Pick(s)[2] + f[s \ {Pick(s)}] /\ f[s] \in Int
    <2> DEFINE n == Cardinality(s)
               r == s \ {Pick(s)}
    <2>1. n \in 1..N /\ Cardinality(r) = n - 1 /\ r \in SUBSET D
      BY <1>2, <1>12
    <2>2. h[n][s] = Pick(s)[2] + h[n - 1][r] /\ h[n][s] \in Int
      BY <1>6, <1>8, <1>11, <1>12, <2>1
    <2>3. f[r] = h[n - 1][r]
      <3>1. CASE r = {}
        <4>1. n - 1 = 0
          BY <2>1, <3>1, FS_EmptySet
        <4>2. h[n - 1] = zero
          BY <1>9, <4>1 DEF IsLoop
        <4>3. f[r] = 0
          BY <2>1, <3>1
        <4> HIDE DEF f
        <4> QED BY <1>7, <2>1, <4>2, <4>3
      <3>2. CASE r # {}
        BY <2>1, <3>2
      <3> QED BY <3>1, <3>2
    <2>4. f[s] = h[n][s]
      BY <1>12
    <2> HIDE DEF f, n
    <2> QED BY <2>2, <2>3, <2>4
  <1>13. f[{}] = 0
    OBVIOUS
  <1>14. f = [s \in SUBSET D |-> f[s]]
    OBVIOUS
  <1> HIDE DEF f
  <1>15. f \in [SUBSET D -> Int]
    <2>1. ASSUME NEW s \in SUBSET D PROVE f[s] \in Int
      <3>1. CASE s = {}
        BY <1>13, <3>1
      <3>2. CASE s # {}
        BY <1>12, <3>2
      <3> QED BY <3>1, <3>2
    <2> QED BY <1>14, <2>1
  <1>16. IsSum(f, D)
    BY <1>12, <1>13, <1>14 DEF IsSum
  <1> QED BY <1>15, <1>16

\* The sums of a part of D are those of D.
LEMMA SumSame ==
  ASSUME NEW D, IsFiniteSet(D), NEW E \in SUBSET D, NEW f, IsSum(f, D), NEW g, IsSum(g, E)
  PROVE  \A s \in SUBSET E : f[s] = g[s]
  <1> DEFINE T == {n \in Nat : \A s \in SUBSET E : Cardinality(s) = n => f[s] = g[s]}
  <1>1. ASSUME NEW s \in SUBSET E, s # {}
        PROVE  /\ f[s] = Pick(s)[2] + f[s \ {Pick(s)}] /\ g[s] = Pick(s)[2] + g[s \ {Pick(s)}]
               /\ s \ {Pick(s)} \in SUBSET E /\ Cardinality(s \ {Pick(s)}) = Cardinality(s) - 1
    <2>1. s \in SUBSET D
      OBVIOUS
    <2>2. f[s] = Pick(s)[2] + f[s \ {Pick(s)}]
      BY <1>1, <2>1 DEF IsSum
    <2>3. g[s] = Pick(s)[2] + g[s \ {Pick(s)}]
      BY <1>1 DEF IsSum
    <2> QED BY <1>1, <2>1, <2>2, <2>3, PickSmaller
  <1>2. f[{}] = 0 /\ g[{}] = 0
    <2>1. {} \in SUBSET D /\ {} \in SUBSET E
      OBVIOUS
    <2> QED BY <2>1 DEF IsSum
  <1>3. \A s \in SUBSET E : IsFiniteSet(s) /\ Cardinality(s) \in Nat
    <2> SUFFICES ASSUME NEW s \in SUBSET E PROVE IsFiniteSet(s) /\ Cardinality(s) \in Nat
      OBVIOUS
    <2>1. s \in SUBSET D
      OBVIOUS
    <2> QED BY <2>1, FS_Subset, FS_CardinalityType
  <1>4. 0 \in T
    BY <1>2, <1>3, FS_EmptySet
  <1>5. ASSUME NEW n \in T PROVE n + 1 \in T
    <2> SUFFICES ASSUME NEW s \in SUBSET E, Cardinality(s) = n + 1 PROVE f[s] = g[s]
      OBVIOUS
    <2>1. s # {}
      BY <1>3, FS_EmptySet
    <2>2. Cardinality(s \ {Pick(s)}) = n
      BY <1>1, <2>1
    <2> QED BY <1>1, <2>1, <2>2
  <1>6. T = Nat
    BY <1>4, <1>5, SetInduction
  <1> QED BY <1>3, <1>6

\* The sum of a set of amounts.
LEMMA SumOfIs ==
  ASSUME NEW D, Amounts(D)
  PROVE  \E f : IsSum(f, D) /\ SumOf(D) = f[D] /\ SumOf(D) \in Int
  <1>1. PICK f \in [SUBSET D -> Int] : IsSum(f, D)
    BY SumExists
  <1> DEFINE g == CHOOSE f_1 : IsSum(f_1, D)
  <1>2. IsSum(g, D)
    BY <1>1
  <1>3. SumOf(D) = g[D]
    BY DEF SumOf, MapThenSumSet, MapThenFoldSet, IsSum, Pick
  <1>4. g[D] = f[D]
    <2>1. D \in SUBSET D /\ IsFiniteSet(D)
      BY DEF Amounts
    <2> HIDE DEF g
    <2> QED BY <1>1, <1>2, <2>1, SumSame
  <1>5. f[D] \in Int
    BY <1>1
  <1> HIDE DEF g
  <1> QED BY <1>2, <1>3, <1>4, <1>5

\* Amounts are added one by one,
LEMMA SumPick ==
  ASSUME NEW D, Amounts(D)
  PROVE  /\ SumOf(D) \in Int
         /\ D = {} => SumOf(D) = 0
         /\ D # {} => /\ Pick(D) \in D /\ Amounts(D \ {Pick(D)})
                      /\ SumOf(D) = Pick(D)[2] + SumOf(D \ {Pick(D)})
  <1>1. PICK f : IsSum(f, D) /\ SumOf(D) = f[D] /\ SumOf(D) \in Int
    BY SumOfIs
  <1>2. D = {} => SumOf(D) = 0
    BY <1>1 DEF IsSum
  <1>3. ASSUME D # {}
        PROVE  /\ Pick(D) \in D /\ Amounts(D \ {Pick(D)})
               /\ SumOf(D) = Pick(D)[2] + SumOf(D \ {Pick(D)})
    <2> DEFINE E == D \ {Pick(D)}
    <2>1. Pick(D) \in D
      BY <1>3 DEF Pick
    <2>2. E \in SUBSET D /\ IsFiniteSet(D)
      BY DEF Amounts
    <2>3. Amounts(E)
      BY <2>2, FS_Subset DEF Amounts
    <2>4. PICK g : IsSum(g, E) /\ SumOf(E) = g[E]
      <3> HIDE DEF E
      <3> QED BY <2>3, SumOfIs
    <2>5. f[E] = g[E]
      <3> HIDE DEF E
      <3>1. E \in SUBSET E
        OBVIOUS
      <3> QED BY <1>1, <2>2, <2>4, <3>1, SumSame
    <2>6. f[D] = Pick(D)[2] + f[E]
      BY <1>1, <1>3 DEF IsSum
    <2> QED BY <1>1, <2>1, <2>3, <2>4, <2>5, <2>6
  <1> QED BY <1>1, <1>2, <1>3

\* in any order.
LEMMA SumAny ==
  ASSUME NEW D, Amounts(D), NEW d \in D
  PROVE  Amounts(D \ {d}) /\ SumOf(D) = d[2] + SumOf(D \ {d})
  <1> DEFINE T == {n \in Nat : \A s \in SUBSET D : Cardinality(s) = n =>
                     \A x \in s : SumOf(s) = x[2] + SumOf(s \ {x})}
  <1>1. ASSUME NEW s \in SUBSET D PROVE Amounts(s) /\ Cardinality(s) \in Nat
    BY FS_Subset, FS_CardinalityType DEF Amounts
  <1>2. 0 \in T
    <2>1. \A s \in SUBSET D : Cardinality(s) = 0 => s = {}
      BY <1>1, FS_EmptySet DEF Amounts
    <2> QED BY <2>1
  <1>3. ASSUME NEW n \in T PROVE n + 1 \in T
    <2> SUFFICES ASSUME NEW s \in SUBSET D, Cardinality(s) = n + 1, NEW x \in s
                 PROVE  SumOf(s) = x[2] + SumOf(s \ {x})
      OBVIOUS
    <2> DEFINE y == Pick(s)
               r == (s \ {x}) \ {y}
    <2>1. /\ y \in s /\ SumOf(s) = y[2] + SumOf(s \ {y})
      BY <1>1, SumPick
    <2>2. \A z \in s : s \ {z} \in SUBSET D /\ Cardinality(s \ {z}) = n
      <3> SUFFICES ASSUME NEW z \in s PROVE Cardinality(s \ {z}) = n
        OBVIOUS
      <3>1. Cardinality(s \ {z}) = Cardinality(s) - 1
        BY <1>1, FS_RemoveElement DEF Amounts
      <3> QED BY <3>1
    <2>3. CASE x # y
      <3>1. SumOf(s \ {y}) = x[2] + SumOf((s \ {y}) \ {x})
        BY <2>1, <2>2, <2>3
      <3>2. SumOf(s \ {x}) = y[2] + SumOf(r)
        BY <2>1, <2>2, <2>3
      <3>3. (s \ {y}) \ {x} = r
        OBVIOUS
      <3>4. x[2] \in Int /\ y[2] \in Int
        BY <2>1 DEF Amounts
      <3>5. SumOf(r) \in Int
        <4>1. r \in SUBSET D
          OBVIOUS
        <4> QED BY <1>1, <4>1, SumPick
      <3> HIDE DEF r, y
      <3>6. SumOf(s) = y[2] + (x[2] + SumOf(r))
        BY <2>1, <3>1, <3>3, Zenon
      <3>7. \A a, b, c \in Int : a + (b + c) = b + (a + c)
        OBVIOUS
      <3>8. y[2] + (x[2] + SumOf(r)) = x[2] + (y[2] + SumOf(r))
        BY <3>4, <3>5, <3>7, Zenon
      <3> QED BY <3>2, <3>6, <3>8, Zenon
    <2>4. CASE x = y
      <3>1. SumOf(s) = y[2] + SumOf(s \ {y})
        BY <2>1
      <3> HIDE DEF y
      <3> QED BY <2>4, <3>1
    <2> QED BY <2>3, <2>4
  <1>4. T = Nat
    BY <1>2, <1>3, SetInduction
  <1>5. D \in SUBSET D /\ D \ {d} \in SUBSET D
    OBVIOUS
  <1> QED BY <1>1, <1>4, <1>5

-----------------------------------------------------------------------------
(* What tests are worth.                                                    *)

Graded(t) ==
  /\ t.strength \in Strength
  /\ IF t.status = "SUCCEEDED" THEN t.outcome \in Outcome ELSE t.outcome = None
DeltaOf(t) == IF t.status = "SUCCEEDED" THEN Weight[t.outcome][t.strength] ELSE 0
\* The deltas of the tests K.
Deltas(tests, K) ==
  {<<i, Weight[tests[i].outcome][tests[i].strength]>> : i \in {k \in K : tests[k].status = "SUCCEEDED"}}

\* Weights are numbers, the better the outcome the higher.
LEMMA WeightsGrow ==
  /\ \A o \in Outcome, s \in Strength : Weight[o][s] \in Int
  /\ \A s \in Strength : /\ Weight["CONTRADICTED"][s] <= Weight["EXPECTED_EVIDENCE_MISSING"][s]
                         /\ Weight["EXPECTED_EVIDENCE_MISSING"][s] <= 0
                         /\ Weight["INCONCLUSIVE"][s] = 0 /\ 0 <= Weight["SURVIVED"][s]
  <1>1. ASSUME NEW s \in Strength
        PROVE  /\ \A o \in Outcome : Weight[o][s] \in Int
               /\ Weight["CONTRADICTED"][s] <= Weight["EXPECTED_EVIDENCE_MISSING"][s]
               /\ Weight["EXPECTED_EVIDENCE_MISSING"][s] <= 0
               /\ Weight["INCONCLUSIVE"][s] = 0 /\ 0 <= Weight["SURVIVED"][s]
    <2>1. CASE s = "LOW"
      BY <2>1 DEF Weight, Outcome
    <2>2. CASE s = "MEDIUM"
      BY <2>2 DEF Weight, Outcome
    <2>3. CASE s = "HIGH"
      BY <2>3 DEF Weight, Outcome
    <2> QED BY <2>1, <2>2, <2>3 DEF Strength
  <1> QED BY <1>1

\* The better its outcome the higher the delta of a test.
LEMMA DeltaGrows ==
  ASSUME NEW t, NEW u, Graded(t), Graded(u), t.strength = u.strength, Favour(t) <= Favour(u)
  PROVE  DeltaOf(t) <= DeltaOf(u)
  <1> DEFINE s == t.strength
  <1>1. s \in Strength /\ u.strength = s
    BY DEF Graded
  <1>2. ASSUME NEW v, Graded(v), v.strength = s
        PROVE  \/ Favour(v) = 0 /\ DeltaOf(v) = Weight["CONTRADICTED"][s]
               \/ Favour(v) = 1 /\ DeltaOf(v) = Weight["EXPECTED_EVIDENCE_MISSING"][s]
               \/ Favour(v) = 2 /\ DeltaOf(v) = 0
               \/ Favour(v) = 3 /\ DeltaOf(v) = Weight["SURVIVED"][s]
    <2>1. CASE v.status = "SUCCEEDED"
      <3>1. v.outcome \in Outcome /\ DeltaOf(v) = Weight[v.outcome][s]
        BY <1>2, <2>1 DEF Graded, DeltaOf
      <3>2. CASE v.outcome = "CONTRADICTED"
        BY <3>1, <3>2 DEF Favour
      <3>3. CASE v.outcome = "EXPECTED_EVIDENCE_MISSING"
        BY <3>1, <3>3 DEF Favour
      <3>4. CASE v.outcome = "SURVIVED"
        BY <3>1, <3>4 DEF Favour
      <3>5. CASE v.outcome = "INCONCLUSIVE"
        <4>1. Favour(v) = 2
          BY <3>5 DEF Favour
        <4> QED BY <1>1, <3>1, <3>5, <4>1, WeightsGrow
      <3> QED BY <3>1, <3>2, <3>3, <3>4, <3>5 DEF Outcome
    <2>2. CASE v.status # "SUCCEEDED"
      <3>1. v.outcome = None
        BY <1>2, <2>2 DEF Graded
      <3>2. Favour(v) = 2
        BY <3>1, HypothesesAssumption DEF Favour
      <3> QED BY <2>2, <3>2 DEF DeltaOf
    <2> QED BY <2>1, <2>2
  <1> DEFINE w(o) == Weight[o][s]
  <1>3. /\ w("CONTRADICTED") \in Int /\ w("EXPECTED_EVIDENCE_MISSING") \in Int /\ w("SURVIVED") \in Int
        /\ w("CONTRADICTED") <= w("EXPECTED_EVIDENCE_MISSING")
        /\ w("EXPECTED_EVIDENCE_MISSING") <= 0 /\ 0 <= w("SURVIVED")
    BY <1>1, WeightsGrow DEF Outcome
  <1>4. \A v \in {t, u} :
          \/ Favour(v) = 0 /\ DeltaOf(v) = w("CONTRADICTED")
          \/ Favour(v) = 1 /\ DeltaOf(v) = w("EXPECTED_EVIDENCE_MISSING")
          \/ Favour(v) = 2 /\ DeltaOf(v) = 0
          \/ Favour(v) = 3 /\ DeltaOf(v) = w("SURVIVED")
    BY <1>1, <1>2
  <1> HIDE DEF w, s
  <1> QED BY <1>3, <1>4

\* The worth of a test is what it adds.
LEMMA DeltasWith ==
  ASSUME NEW T, NEW K, IsFiniteSet(K), \A k \in K : Graded(T[k]), NEW k \in K
  PROVE  /\ Amounts(Deltas(T, K)) /\ DeltaOf(T[k]) \in Int
         /\ SumOf(Deltas(T, K)) = DeltaOf(T[k]) + SumOf(Deltas(T, K \ {k}))
  <1> DEFINE S == {i \in K : T[i].status = "SUCCEEDED"}
             w(i) == Weight[T[i].outcome][T[i].strength]
             f == [i \in S |-> <<i, w(i)>>]
             D == Deltas(T, K)
             E == Deltas(T, K \ {k})
  <1>1. \A i \in S : w(i) \in Int
    BY WeightsGrow DEF Graded
  <1>2. Amounts(D)
    <2>1. IsFiniteSet(S) /\ DOMAIN f = S
      BY FS_Subset
    <2>2. D = {f[i] : i \in S}
      BY DEF Deltas
    <2>3. IsFiniteSet({f[i] : i \in S})
      <3> HIDE DEF S, f
      <3> QED BY <2>1, ImageFinite
    <2>4. \A d \in D : d[2] \in Int
      BY <1>1 DEF Deltas
    <2> HIDE DEF D
    <2> QED BY <2>2, <2>3, <2>4 DEF Amounts
  <1>3. SumOf(D) \in Int
    BY <1>2, SumPick
  <1>4. CASE T[k].status = "SUCCEEDED"
    <2>1. <<k, w(k)>> \in D /\ E = D \ {<<k, w(k)>>}
      BY <1>4 DEF Deltas
    <2>2. DeltaOf(T[k]) = w(k) /\ w(k) \in Int
      BY <1>1, <1>4 DEF DeltaOf
    <2> HIDE DEF D, E, w
    <2>3. SumOf(D) = <<k, w(k)>>[2] + SumOf(D \ {<<k, w(k)>>})
      BY <1>2, <2>1, SumAny
    <2> QED BY <1>2, <2>1, <2>2, <2>3 DEF D, E
  <1>5. CASE T[k].status # "SUCCEEDED"
    <2>1. E = D /\ DeltaOf(T[k]) = 0
      BY <1>5 DEF Deltas, DeltaOf
    <2> HIDE DEF D, E
    <2> QED BY <1>2, <1>3, <2>1 DEF D, E
  <1> QED BY <1>4, <1>5

\* and what they add up to is a number.
LEMMA DeltasAdd ==
  ASSUME NEW T, NEW K, IsFiniteSet(K), \A k \in K : Graded(T[k])
  PROVE  SumOf(Deltas(T, K)) \in Int
  <1>1. Amounts(Deltas(T, K))
    <2>1. CASE K = {}
      <3>1. Deltas(T, K) = {}
        BY <2>1 DEF Deltas
      <3> QED BY <3>1, FS_EmptySet DEF Amounts
    <2>2. CASE K # {}
      BY <2>2, DeltasWith
    <2> QED BY <2>1, <2>2
  <1> QED BY <1>1, SumPick

\* Tests that are worth no less add up to no less.
LEMMA DeltasGrow ==
  ASSUME NEW T, NEW K \in SUBSET Int, NEW c \in Int, IsFiniteSet(K),
         \A k \in K : Graded(T[k]) /\ Graded(T[k + c]) /\ DeltaOf(T[k]) <= DeltaOf(T[k + c])
  PROVE  SumOf(Deltas(T, K)) <= SumOf(Deltas(T, {k + c : k \in K}))
  <1> DEFINE L(s) == {k + c : k \in s}
             G == {n \in Nat : \A s \in SUBSET K : Cardinality(s) = n =>
                     SumOf(Deltas(T, s)) <= SumOf(Deltas(T, L(s)))}
  <1>1. ASSUME NEW s \in SUBSET K PROVE IsFiniteSet(s) /\ Cardinality(s) \in Nat /\ IsFiniteSet(L(s))
    <2>1. IsFiniteSet(s) /\ Cardinality(s) \in Nat
      BY FS_Subset, FS_CardinalityType
    <2> DEFINE f == [k \in s |-> k + c]
    <2>2. L(s) = {f[k] : k \in s} /\ DOMAIN f = s
      OBVIOUS
    <2>3. IsFiniteSet({f[k] : k \in s})
      <3>1. DOMAIN f = s
        OBVIOUS
      <3> HIDE DEF f
      <3> QED BY <2>1, <3>1, ImageFinite
    <2> QED BY <2>1, <2>2, <2>3
  <1>2. 0 \in G
    <2> SUFFICES ASSUME NEW s \in SUBSET K, Cardinality(s) = 0
                 PROVE  SumOf(Deltas(T, s)) <= SumOf(Deltas(T, L(s)))
      OBVIOUS
    <2>1. s = {}
      BY <1>1, FS_EmptySet
    <2>2. Deltas(T, s) = {} /\ Deltas(T, L(s)) = {}
      BY <2>1 DEF Deltas
    <2>3. SumOf({}) = 0
      BY FS_EmptySet, SumPick DEF Amounts
    <2>4. SumOf(Deltas(T, s)) = 0 /\ SumOf(Deltas(T, L(s))) = 0
      BY <2>2, <2>3, Zenon
    <2> HIDE DEF L
    <2> QED BY <2>4
  <1>3. ASSUME NEW n \in G PROVE n + 1 \in G
    <2> SUFFICES ASSUME NEW s \in SUBSET K, Cardinality(s) = n + 1
                 PROVE  SumOf(Deltas(T, s)) <= SumOf(Deltas(T, L(s)))
      OBVIOUS
    <2>0. s # {}
      BY FS_EmptySet
    <2>1. PICK k \in s : TRUE
      BY <2>0
    <2>2. s \ {k} \in SUBSET K /\ Cardinality(s \ {k}) = n
      <3>1. Cardinality(s \ {k}) = Cardinality(s) - 1
        BY <1>1, FS_RemoveElement
      <3> QED BY <3>1
    <2>3. L(s \ {k}) = L(s) \ {k + c} /\ k + c \in L(s)
      OBVIOUS
    <2> DEFINE a == SumOf(Deltas(T, s \ {k}))
               b == SumOf(Deltas(T, L(s) \ {k + c}))
    <2>4. a <= b
      BY <2>2, <2>3
    <2> HIDE DEF L, G
    <2>5. (\A x \in L(s) : Graded(T[x])) /\ (\A x \in s : Graded(T[x]))
      BY DEF L
    <2>10. ASSUME NEW Q, IsFiniteSet(Q), \A x \in Q : Graded(T[x]), NEW q \in Q
           PROVE  /\ DeltaOf(T[q]) \in Int
                  /\ SumOf(Deltas(T, Q)) = DeltaOf(T[q]) + SumOf(Deltas(T, Q \ {q}))
      BY <2>10, DeltasWith
    <2>6. /\ SumOf(Deltas(T, s)) = DeltaOf(T[k]) + a /\ DeltaOf(T[k]) \in Int
      BY <1>1, <2>1, <2>5, <2>10
    <2>7. /\ SumOf(Deltas(T, L(s))) = DeltaOf(T[k + c]) + b /\ DeltaOf(T[k + c]) \in Int
      BY <1>1, <2>1, <2>3, <2>5, <2>10
    <2>8. a \in Int /\ b \in Int
      <3>1. IsFiniteSet(s \ {k}) /\ IsFiniteSet(L(s) \ {k + c})
        BY <1>1, FS_Subset
      <3>2. (\A x \in s \ {k} : Graded(T[x])) /\ (\A x \in L(s) \ {k + c} : Graded(T[x]))
        BY <2>5
      <3> QED BY <3>1, <3>2, DeltasAdd
    <2>9. DeltaOf(T[k]) <= DeltaOf(T[k + c])
      OBVIOUS
    <2> HIDE DEF a, b
    <2> QED BY <2>4, <2>6, <2>7, <2>8, <2>9
  <1>4. G = Nat
    BY <1>2, <1>3, SetInduction
  <1> QED BY <1>1, <1>4

\* Clamping keeps the order.
LEMMA ClampGrows ==
  ASSUME NEW x \in Int, NEW y \in Int, x <= y
  PROVE  Clamp(x) <= Clamp(y)
  <1>1. ASSUME NEW a \in Int, NEW b \in Int
        PROVE  Min({a, b}) = (IF a <= b THEN a ELSE b) /\ Max({a, b}) = (IF a >= b THEN a ELSE b)
    BY DEF Min, Max
  <1>2. ASSUME NEW z \in Int
        PROVE  Clamp(z) = IF z > 9500 THEN 9500 ELSE IF z < 500 THEN 500 ELSE z
    <2> DEFINE b == Min({9500, z})
    <2>1. b = IF 9500 <= z THEN 9500 ELSE z
      BY <1>1
    <2>2. Clamp(z) = Max({500, b})
      BY DEF Clamp
    <2> HIDE DEF b
    <2>3. b \in Int
      BY <2>1
    <2>4. Max({500, b}) = IF 500 >= b THEN 500 ELSE b
      BY <1>1, <2>3
    <2> QED BY <2>1, <2>2, <2>4
  <1> QED BY <1>2

-----------------------------------------------------------------------------
(* Confidence, as it follows from the tests.                                *)

TestsFor(p, h) == {i \in DOMAIN p.tests : p.tests[i].hypothesis = h}
TestsGraded(p) ==
  /\ IsFiniteSet(DOMAIN p.tests)
  /\ \A i \in DOMAIN p.tests : DOMAIN p.tests[i] = TestShape /\ Graded(p.tests[i])
\* A hypothesis keeps the confidence it starts with until it is revised, by what its tests are worth.
Begun(p) ==
  /\ AllSketched(p) /\ DOMAIN p.revisions \subseteq DOMAIN p.hypotheses
  /\ \A h \in DOMAIN p.hypotheses :
       /\ p.hypotheses[h].initial \in Int
       /\ h \notin DOMAIN p.revisions => p.hypotheses[h].confidence = p.hypotheses[h].initial
RevisedBy(p, h) == Clamp(p.hypotheses[h].initial + SumOf(Deltas(p.tests, TestsFor(p, h))))
RankInv(p) ==
  /\ DOMAIN p = Shape /\ TestsGraded(p) /\ Begun(p)
  /\ \A h \in DOMAIN p.revisions : p.revisions[h].after = RevisedBy(p, h)

\* Only a revision adds to the revisions.
LEMMA RevisionsStay ==
  ASSUME NEW p, NEW m, DOMAIN p = Shape,
         m.kind \in {"RECORD_CREATED", "HYPOTHESIS_CREATED", "CRITIQUE_CREATED", "TEST_CREATED",
                    "TEST_RESOLVED", "STATUS_CHANGED", "RETRIEVAL_COMPLETED", "COMPLETED"}
  PROVE  DOMAIN Applied(p, m) = Shape /\ Applied(p, m).revisions = p.revisions
  <1>1. CASE m.kind = "RECORD_CREATED"
    BY <1>1 DEF Applied, Shape
  <1>2. CASE m.kind = "HYPOTHESIS_CREATED"
    BY <1>2 DEF Applied, Shape
  <1>3. CASE m.kind = "CRITIQUE_CREATED"
    BY <1>3 DEF Applied, Shape
  <1>4. CASE m.kind = "TEST_CREATED"
    BY <1>4 DEF Applied, Shape
  <1>5. CASE m.kind = "TEST_RESOLVED"
    BY <1>5 DEF Applied, Shape
  <1>6. CASE m.kind = "STATUS_CHANGED"
    BY <1>6 DEF Applied, Shape
  <1>7. CASE m.kind = "RETRIEVAL_COMPLETED"
    BY <1>7 DEF Applied, Shape
  <1>8. CASE m.kind = "COMPLETED"
    BY <1>8 DEF Applied
  <1> QED BY <1>1, <1>2, <1>3, <1>4, <1>5, <1>6, <1>7, <1>8

\* The ranking is the same where hypotheses, tests and revisions are.
LEMMA RankSame ==
  ASSUME NEW p, NEW q, RankInv(p), DOMAIN q = Shape, q.tests = p.tests,
         q.hypotheses = p.hypotheses, q.revisions = p.revisions
  PROVE  RankInv(q)
  BY DEF RankInv, TestsGraded, Begun, AllSketched, RevisedBy, TestsFor

\* A hypothesis begins with a confidence and no revision.
LEMMA RankOpened ==
  ASSUME NEW p, NEW m, RankInv(p), m.kind = "HYPOTHESIS_CREATED", Accepts(p, m)
  PROVE  RankInv(Applied(p, m))
  <1> DEFINE q == Applied(p, m)
  <1>1. /\ DOMAIN p = Shape /\ AllSketched(p) /\ m.id \notin DOMAIN p.hypotheses
        /\ m.confidence \in Int
    <2>1. m.id \notin DOMAIN p.hypotheses /\ m.confidence \in InitialConfidence
      BY DEF Accepts
    <2> QED BY <2>1, PriorIsNumber DEF RankInv, Begun
  <1>2. /\ Same(p, q, {"tests"}) /\ q.revisions = p.revisions
        /\ q.hypotheses = Put(p.hypotheses, m.id, Opening(m))
    BY <1>1, HypothesisEffect, RevisionsStay DEF Same
  <1>3. /\ DOMAIN Opening(m) = {"initial", "confidence", "status"}
        /\ Opening(m).initial = m.confidence /\ Opening(m).confidence = m.confidence
    BY DEF Opening
  <1> HIDE DEF q
  <1>4. /\ DOMAIN q.hypotheses = DOMAIN p.hypotheses \cup {m.id}
        /\ q.hypotheses[m.id] = Opening(m)
        /\ \A h \in DOMAIN p.hypotheses : q.hypotheses[h] = p.hypotheses[h]
    BY <1>1, <1>2 DEF Put
  <1>5. AllSketched(q)
    BY <1>1, <1>3, <1>4 DEF AllSketched, Sketched
  <1>6. Begun(q)
    BY <1>1, <1>2, <1>3, <1>4, <1>5 DEF Begun, RankInv
  <1>7. ASSUME NEW h \in DOMAIN q.revisions PROVE q.revisions[h].after = RevisedBy(q, h)
    <2>1. h \in DOMAIN p.revisions /\ h \in DOMAIN p.hypotheses
      BY <1>2 DEF RankInv, Begun
    <2>2. RevisedBy(q, h) = RevisedBy(p, h)
      BY <1>2, <1>4, <2>1 DEF RevisedBy, TestsFor, Same
    <2> QED BY <1>2, <2>1, <2>2 DEF RankInv
  <1>8. TestsGraded(q) /\ DOMAIN q = Shape
    BY <1>2 DEF RankInv, TestsGraded, Same
  <1> QED BY <1>6, <1>7, <1>8 DEF RankInv, q

\* While nothing is revised a test may be added
LEMMA RankTested ==
  ASSUME NEW p, NEW m, RankInv(p), m.kind = "TEST_CREATED", Accepts(p, m),
         DOMAIN m.test = TestShape, DOMAIN p.revisions = {}
  PROVE  RankInv(Applied(p, m))
  <1> DEFINE q == Applied(p, m)
  <1>1. /\ m.id \notin DOMAIN p.tests /\ m.test.strength \in Strength
        /\ m.test.status = "PENDING" /\ m.test.outcome = None
    BY DEF Accepts
  <1>2. /\ Same(p, q, {"hypotheses"}) /\ q.revisions = p.revisions
        /\ q.tests = Put(p.tests, m.id, m.test)
    BY TestEffect, RevisionsStay DEF Same, RankInv, Shape
  <1> HIDE DEF q
  <1>3. /\ DOMAIN q.tests = DOMAIN p.tests \cup {m.id} /\ q.tests[m.id] = m.test
        /\ \A i \in DOMAIN p.tests : q.tests[i] = p.tests[i]
    BY <1>1, <1>2 DEF Put
  <1>4. Graded(m.test)
    BY <1>1 DEF Graded
  <1>5. IsFiniteSet(DOMAIN q.tests)
    BY <1>3, FS_AddElement DEF RankInv, TestsGraded
  <1>6. TestsGraded(q)
    BY <1>3, <1>4, <1>5 DEF TestsGraded, RankInv
  <1>7. Begun(q) /\ DOMAIN q = Shape
    BY <1>2 DEF Begun, AllSketched, Same, RankInv
  <1> QED BY <1>2, <1>6, <1>7 DEF RankInv, q

\* and resolved.
LEMMA RankResolved ==
  ASSUME NEW p, NEW m, RankInv(p), m.kind = "TEST_RESOLVED", Accepts(p, m), DOMAIN p.revisions = {}
  PROVE  RankInv(Applied(p, m))
  <1> DEFINE q == Applied(p, m)
             t == p.tests[m.id]
  <1>1. /\ m.id \in DOMAIN p.tests
        /\ m.status \in {"SUCCEEDED", "FAILED"} /\ m.outcome \in Outcome \cup {None}
        /\ m.status = "FAILED" <=> m.outcome = None
    BY DEF Accepts
  <1>2. /\ Same(p, q, {"hypotheses"}) /\ q.revisions = p.revisions
        /\ q.tests = [p.tests EXCEPT ![m.id] = Resolved(t, m)]
    BY ResolutionEffect, RevisionsStay DEF Same, RankInv, Shape
  <1>3. DOMAIN t = TestShape /\ Graded(t)
    BY <1>1 DEF RankInv, TestsGraded
  <1> HIDE DEF q, t
  <1>4. /\ DOMAIN Resolved(t, m) = TestShape /\ Resolved(t, m).strength = t.strength
        /\ Resolved(t, m).status = m.status /\ Resolved(t, m).outcome = m.outcome
    BY <1>3 DEF Resolved, TestShape
  <1>5. Graded(Resolved(t, m))
    BY <1>1, <1>3, <1>4 DEF Graded
  <1>6. /\ DOMAIN q.tests = DOMAIN p.tests /\ q.tests[m.id] = Resolved(t, m)
        /\ \A i \in DOMAIN p.tests : i # m.id => q.tests[i] = p.tests[i]
    BY <1>1, <1>2
  <1>7. TestsGraded(q)
    BY <1>4, <1>5, <1>6 DEF TestsGraded, RankInv
  <1>8. Begun(q) /\ DOMAIN q = Shape
    BY <1>2 DEF Begun, AllSketched, Same, RankInv
  <1> QED BY <1>2, <1>7, <1>8 DEF RankInv, q

\* A revision is by what the tests are worth.
LEMMA RankRevised ==
  ASSUME NEW p, NEW m, RankInv(p), m.kind = "CONFIDENCE_REVISED", Accepts(p, m)
  PROVE  RankInv(Applied(p, m))
  <1> DEFINE q == Applied(p, m)
             h == m.id
  <1>1. RevisionFits(p, m) /\ DOMAIN p = Shape
    BY DEF Accepts, RankInv
  <1>2. /\ h \in DOMAIN p.hypotheses /\ h \notin DOMAIN p.revisions
        /\ m.before = p.hypotheses[h].initial /\ m.after \in Int
        /\ m.after = Clamp(m.before + SumOf(m.deltas))
    BY <1>1, RevisedIsNumber DEF RevisionFits, SumOf, RankInv, Begun
  <1>3. m.deltas = Deltas(p.tests, TestsFor(p, h))
    BY <1>1 DEF RevisionFits, Deltas, TestsFor, TestsOf
  <1>4. m.after = RevisedBy(p, h)
    BY <1>2, <1>3 DEF RevisedBy
  <1>5. /\ Same(p, q, {"tests"})
        /\ q.hypotheses = [p.hypotheses EXCEPT ![h].confidence = m.after]
    BY <1>1, RevisionEffect DEF Same
  <1>6. q.revisions = Put(p.revisions, h, [before |-> m.before, delta |-> m.delta,
                                           after |-> m.after, deltas |-> m.deltas])
    BY <1>1 DEF Applied, Shape
  <1> HIDE DEF q, h
  <1>7. /\ DOMAIN q.hypotheses = DOMAIN p.hypotheses
        /\ \A g \in DOMAIN p.hypotheses : g # h => q.hypotheses[g] = p.hypotheses[g]
        /\ q.hypotheses[h] = [p.hypotheses[h] EXCEPT !.confidence = m.after]
    BY <1>2, <1>5
  <1>8. Sketched(p.hypotheses[h])
    BY <1>2 DEF RankInv, Begun, AllSketched
  <1>9. /\ q.hypotheses[h].initial = p.hypotheses[h].initial /\ Sketched(q.hypotheses[h])
    BY <1>2, <1>7, <1>8 DEF Sketched
  <1>10. /\ DOMAIN q.revisions = DOMAIN p.revisions \cup {h} /\ q.revisions[h].after = m.after
         /\ \A g \in DOMAIN p.revisions : q.revisions[g] = p.revisions[g]
    BY <1>2, <1>6 DEF Put
  <1>11. \A g \in DOMAIN p.hypotheses : q.hypotheses[g].initial = p.hypotheses[g].initial
    BY <1>7, <1>9
  <1>12. Begun(q)
    <2>1. AllSketched(q)
      BY <1>7, <1>9 DEF RankInv, Begun, AllSketched
    <2> QED BY <1>2, <1>7, <1>10, <1>11, <2>1 DEF RankInv, Begun
  <1>13. \A g \in DOMAIN p.hypotheses : RevisedBy(q, g) = RevisedBy(p, g)
    BY <1>5, <1>11 DEF RevisedBy, TestsFor, Same
  <1>14. \A g \in DOMAIN q.revisions : q.revisions[g].after = RevisedBy(q, g)
    BY <1>2, <1>4, <1>10, <1>13 DEF RankInv, Begun
  <1>15. TestsGraded(q) /\ DOMAIN q = Shape
    BY <1>5 DEF RankInv, TestsGraded, Same
  <1> QED BY <1>12, <1>14, <1>15 DEF RankInv, q

\* A change of status leaves all confidence as it is.
LEMMA RankStatus ==
  ASSUME NEW p, NEW m, RankInv(p), m.kind = "STATUS_CHANGED", Accepts(p, m)
  PROVE  RankInv(Applied(p, m))
  <1> DEFINE q == Applied(p, m)
             h == m.id
  <1>1. h \in DOMAIN p.hypotheses /\ DOMAIN p = Shape
    BY DEF Accepts, RankInv
  <1>2. /\ Same(p, q, {"tests"}) /\ q.revisions = p.revisions
        /\ q.hypotheses = [p.hypotheses EXCEPT ![h].status = m.after]
    BY <1>1, StatusEffect, RevisionsStay DEF Same
  <1> HIDE DEF q, h
  <1>3. \A g \in DOMAIN p.hypotheses : Sketched(p.hypotheses[g])
    BY DEF RankInv, Begun, AllSketched
  <1>4. /\ DOMAIN q.hypotheses = DOMAIN p.hypotheses
        /\ \A g \in DOMAIN p.hypotheses :
             /\ Sketched(q.hypotheses[g]) /\ q.hypotheses[g].initial = p.hypotheses[g].initial
             /\ q.hypotheses[g].confidence = p.hypotheses[g].confidence
    BY <1>1, <1>2, <1>3 DEF Sketched
  <1>5. Begun(q)
    BY <1>2, <1>4 DEF RankInv, Begun, AllSketched
  <1>6. \A g \in DOMAIN q.revisions : q.revisions[g].after = RevisedBy(q, g)
    <2>1. \A g \in DOMAIN p.hypotheses : RevisedBy(q, g) = RevisedBy(p, g)
      BY <1>2, <1>4 DEF RevisedBy, TestsFor, Same
    <2> QED BY <1>2, <2>1 DEF RankInv, Begun
  <1>7. TestsGraded(q) /\ DOMAIN q = Shape
    BY <1>2 DEF RankInv, TestsGraded, Same
  <1> QED BY <1>5, <1>6, <1>7 DEF RankInv, q

Unsettled == {"TEST_CREATED", "TEST_RESOLVED"}
\* Whatever is accepted.
LEMMA RankKept ==
  ASSUME NEW p, NEW m, RankInv(p), Accepts(p, m),
         m.kind \in {"RECORD_CREATED", "HYPOTHESIS_CREATED", "CRITIQUE_CREATED", "TEST_CREATED",
                    "TEST_RESOLVED", "CONFIDENCE_REVISED", "STATUS_CHANGED", "RETRIEVAL_COMPLETED",
                    "COMPLETED"},
         m.kind = "TEST_CREATED" => DOMAIN m.test = TestShape,
         m.kind \in Unsettled => DOMAIN p.revisions = {}
  PROVE  /\ RankInv(Applied(p, m))
         /\ m.kind # "CONFIDENCE_REVISED" => Applied(p, m).revisions = p.revisions
  <1> DEFINE q == Applied(p, m)
  <1>1. DOMAIN p = Shape
    BY DEF RankInv
  <1>2. m.kind # "CONFIDENCE_REVISED" => q.revisions = p.revisions /\ DOMAIN q = Shape
    BY <1>1, RevisionsStay
  <1>3. m.kind \in {"RECORD_CREATED", "CRITIQUE_CREATED", "RETRIEVAL_COMPLETED"} =>
          q.hypotheses = p.hypotheses /\ q.tests = p.tests
    <2>1. m.kind = "RECORD_CREATED" => q.hypotheses = p.hypotheses /\ q.tests = p.tests
      <3>1. m.kind = "RECORD_CREATED" => Same(p, q, Shape \ {"records"})
        BY <1>1, RecordEffect
      <3>2. "hypotheses" \in Shape \ {"records"} /\ "tests" \in Shape \ {"records"}
        BY DEF Shape
      <3> HIDE DEF q
      <3> QED BY <3>1, <3>2 DEF Same
    <2>2. m.kind = "CRITIQUE_CREATED" => q.hypotheses = p.hypotheses /\ q.tests = p.tests
      BY <1>1, CritiqueEffect DEF Same, Shape
    <2>3. m.kind = "RETRIEVAL_COMPLETED" => q.hypotheses = p.hypotheses /\ q.tests = p.tests
      BY <1>1, RetrievalEffect DEF Same
    <2> QED BY <2>1, <2>2, <2>3
  <1>4. CASE m.kind \in {"RECORD_CREATED", "CRITIQUE_CREATED", "RETRIEVAL_COMPLETED"}
    <2>1. /\ q.tests = p.tests /\ q.hypotheses = p.hypotheses
          /\ q.revisions = p.revisions /\ DOMAIN q = Shape
      BY <1>2, <1>3, <1>4
    <2> HIDE DEF q
    <2>2. RankInv(q)
      BY <2>1, RankSame
    <2> QED BY <2>1, <2>2 DEF q
  <1>5. CASE m.kind = "COMPLETED"
    BY <1>5, CompletionEffect
  <1> QED BY <1>2, <1>4, <1>5, RankOpened, RankTested, RankResolved, RankRevised, RankStatus
          DEF Unsettled

\* The events of the job of a stage.
LEMMA KindsAre ==
  ASSUME stage \in Stages, NEW k, NEW m, Attributed(k, m)
  PROVE  /\ m.kind \in {"RECORD_CREATED", "HYPOTHESIS_CREATED", "CRITIQUE_CREATED", "TEST_CREATED",
                        "TEST_RESOLVED", "CONFIDENCE_REVISED", "STATUS_CHANGED",
                        "RETRIEVAL_COMPLETED", "COMPLETED"}
         /\ m.kind = "TEST_CREATED" => stage = "DESIGN_FALSIFICATION_TESTS"
         /\ m.kind \in Unsettled => stage \notin AfterTests
         /\ m.kind = "CONFIDENCE_REVISED" => stage = "REVISE_CONFIDENCE"
  <1>1. CASE Promotes
    <2>1. stage \in {"PROMOTE_TIMELINE", "RESOLVE_ENTITIES", "PROMOTE_CLAIMS"}
      BY <1>1 DEF Promotes, KindOf
    <2>2. m.kind = "RECORD_CREATED"
      BY <1>1, <2>1 DEF Attributed, Searches
    <2> QED BY <2>2 DEF Unsettled
  <1>2. CASE stage = "GENERATE_HYPOTHESES"
    BY <1>2 DEF Attributed, Unsettled, Promotes, KindOf
  <1>3. CASE Searches
    <2>1. ~Promotes /\ stage \in {"SEARCH_SUPPORT", "SEARCH_CONTRADICTIONS"}
      BY <1>3 DEF Promotes, KindOf, Searches
    <2>2. m.kind = "RETRIEVAL_COMPLETED"
      BY <1>3, <2>1 DEF Attributed, Searches
    <2> QED BY <2>2 DEF Unsettled
  <1>4. CASE stage = "DESIGN_FALSIFICATION_TESTS"
    <2>1. ~Promotes /\ ~Searches /\ stage \notin AfterTests
      BY <1>4 DEF Promotes, KindOf, Searches, AfterTests, AfterRevision
    <2> QED BY <1>4, <2>1 DEF Attributed, Unsettled
  <1>5. CASE stage = "EXECUTE_FALSIFICATION_TESTS"
    <2>1. ~Promotes /\ ~Searches /\ stage \notin AfterTests
      BY <1>5 DEF Promotes, KindOf, Searches, AfterTests, AfterRevision
    <2> QED BY <1>5, <2>1 DEF Attributed, Unsettled
  <1>6. CASE stage = "REVISE_CONFIDENCE"
    BY <1>6 DEF Attributed, Unsettled, Promotes, KindOf, Searches
  <1>7. CASE stage = "VERIFY_REPLAY"
    BY <1>7 DEF Attributed, Promotes, KindOf, Searches
  <1>8. CASE stage = "COMPLETE"
    BY <1>8 DEF Attributed, Unsettled, Promotes, KindOf, Searches
  <1> QED BY <1>1, <1>2, <1>3, <1>4, <1>5, <1>6, <1>7, <1>8
          DEF Stages, StageOrder, Promotes, KindOf, Searches

Ranked == RankInv(replayed) /\ (stage \notin AfterRevision => DOMAIN replayed.revisions = {})

\* The results of a job.
LEMMA RankAfter ==
  ASSUME Ranked, NEW k, NEW s, NEW q, NEW ms, Accepted(k, s, q, ms)
  PROVE  RankInv(q) /\ (stage # "REVISE_CONFIDENCE" => q.revisions = replayed.revisions)
  <1> DEFINE n == Len(ms)
             Good(p) == RankInv(p) /\ (stage # "REVISE_CONFIDENCE" => p.revisions = replayed.revisions)
             G == {i \in Nat : Good(s[i])}
  <1>1. /\ n \in Nat /\ DOMAIN ms = 1..n /\ stage \in Stages
        /\ s[0] = replayed /\ s[n] = q
        /\ \A i \in 1..n : Accepts(s[i - 1], ms[i]) /\ s[i] = Applied(s[i - 1], ms[i])
    BY AcceptedIs DEF Accepted, Path
  <1>2. \A i \in 1..n : Attributed(k, ms[i])
    BY <1>1 DEF Accepted
  <1>3. \A i \in 1..n : ms[i].kind = "TEST_CREATED" => DOMAIN ms[i].test = TestShape
    <2> SUFFICES ASSUME NEW i \in 1..n, ms[i].kind = "TEST_CREATED" PROVE DOMAIN ms[i].test = TestShape
      OBVIOUS
    <2>1. stage = "DESIGN_FALSIFICATION_TESTS"
      BY <1>1, <1>2, KindsAre
    <2> QED BY <1>1, <2>1 DEF Accepted, Fits
  <1>4. 0 \in G
    BY <1>1 DEF Ranked
  <1>5. ASSUME NEW i \in 1..n, i - 1 \in G PROVE i \in G
    <2> DEFINE p == s[i - 1]
               m == ms[i]
    <2>1. RankInv(p) /\ (stage # "REVISE_CONFIDENCE" => p.revisions = replayed.revisions)
      BY <1>5
    <2>2. Accepts(p, m) /\ s[i] = Applied(p, m) /\ Attributed(k, m)
          /\ (m.kind = "TEST_CREATED" => DOMAIN m.test = TestShape)
      BY <1>1, <1>2, <1>3
    <2> HIDE DEF p, m
    <2>3. m.kind \in Unsettled => DOMAIN p.revisions = {}
      <3>1. m.kind \in Unsettled => stage \notin AfterTests
        BY <1>1, <2>2, KindsAre
      <3> QED BY <2>1, <3>1 DEF Ranked, AfterTests
    <2>4. /\ RankInv(Applied(p, m))
          /\ m.kind # "CONFIDENCE_REVISED" => Applied(p, m).revisions = p.revisions
      BY <1>1, <2>1, <2>2, <2>3, KindsAre, RankKept
    <2>5. m.kind = "CONFIDENCE_REVISED" => stage = "REVISE_CONFIDENCE"
      BY <1>1, <2>2, KindsAre
    <2>6. Good(s[i])
      BY <2>1, <2>2, <2>4, <2>5
    <2>7. i \in Nat
      BY <1>1
    <2> HIDE DEF Good
    <2> QED BY <2>6, <2>7
  <1> HIDE DEF G, n
  <1>6. n \in G
    BY <1>1, <1>4, <1>5, Along
  <1> QED BY <1>1, <1>6 DEF G

\* At the outset there is nothing to rank,
LEMMA InitRanked == Init => Ranked
  <1> SUFFICES ASSUME Init PROVE Ranked
    OBVIOUS
  <1>1. /\ DOMAIN replayed = Shape /\ DOMAIN replayed.hypotheses = {} /\ DOMAIN replayed.tests = {}
        /\ DOMAIN replayed.revisions = {}
    BY DEF Init, Stored, EmptyTables, Shape
  <1> QED BY <1>1, FS_EmptySet DEF Ranked, RankInv, TestsGraded, Begun, AllSketched

\* and each step keeps what there is.
LEMMA StepRanked == AssessInv /\ Ranked /\ [Next]_vars => Ranked'
  <1> SUFFICES ASSUME AssessInv, Ranked, [Next]_vars PROVE Ranked'
    OBVIOUS
  <1>1. ASSUME UNCHANGED <<stage, replayed>> PROVE Ranked'
    BY <1>1 DEF Ranked, RankInv, TestsGraded, Begun, AllSketched, RevisedBy, TestsFor
  <1>2. CASE UNCHANGED vars
    BY <1>1, <1>2 DEF vars
  <1>3. ASSUME NEW k \in WorkKeys, Answer(k) \/ Exhausted(k) \/ Unavailable(k) \/ Lost(k) PROVE Ranked'
    BY <1>1, <1>3 DEF Answer, Exhausted, Unavailable, Lost
  <1>5. CASE Reinterpret
    BY <1>1, <1>5 DEF Reinterpret
  <1>4. ASSUME NEW k \in WorkKeys, Persist(k) PROVE Ranked'
    <2>1. CASE ~Passes(k, answers[k])
      BY <1>1, <1>4, <2>1 DEF Persist
    <2>2. CASE Passes(k, answers[k])
      <3>1. PICK q : q = replayed'
        OBVIOUS
      <3>2. PICK s : Accepted(k, s, q, answers[k])
        BY <1>4, <2>2, <3>1, PersistedIs
      <3>3. RankInv(q) /\ (stage # "REVISE_CONFIDENCE" => q.revisions = replayed.revisions)
        BY <3>2, RankAfter
      <3>4. Finish(k) /\ stage \in Stages /\ done \subseteq WorkKeys
        BY <1>4, <2>2, PersistedIs DEF AssessInv, Stages
      <3>5. stage' \notin AfterRevision => stage \notin AfterTests
        <4>1. CASE stage' = stage /\ (done \cup {k} = WorkKeys => stage = "COMPLETE")
          <5>1. stage = "REVISE_CONFIDENCE" => WorkKeys = {CaseKey}
            BY KeysAre DEF AfterTests
          <5>2. stage # "REVISE_CONFIDENCE"
            BY <1>4, <3>4, <4>1, <5>1
          <5> QED BY <4>1, <5>2 DEF AfterTests
        <4>2. CASE Follows(stage, stage')
          BY <4>2, FollowsWhat DEF AfterTests, AfterRevision
        <4> QED BY <3>4, <4>1, <4>2, Finishes
      <3>6. stage' \notin AfterRevision => DOMAIN q.revisions = {}
        BY <3>3, <3>5 DEF Ranked, AfterTests
      <3>7. RankInv(replayed)'
        BY <3>1, <3>3 DEF RankInv, TestsGraded, Begun, AllSketched, RevisedBy, TestsFor
      <3> QED BY <3>1, <3>6, <3>7 DEF Ranked
    <2> QED BY <2>1, <2>2
  <1> QED BY <1>2, <1>3, <1>4, <1>5 DEF Next

\* Of two hypotheses the one whose tests are no worse is revised to no less.
LEMMA BetterFits == AssessInv /\ Ranked => BetterTestsNeverLower
  <1> SUFFICES ASSUME AssessInv, Ranked,
                      NEW g \in DOMAIN tables.revisions, NEW h \in DOMAIN tables.revisions, NoWorse(g, h)
               PROVE  tables.revisions[g].after <= tables.revisions[h].after
    BY DEF BetterTestsNeverLower
  <1> DEFINE p == replayed
             T == p.tests
             K(x) == TestsFor(p, x)
             c == 10 * (h - g)
  <1>1. /\ State = p /\ RankInv(p) /\ world \in World
        /\ DOMAIN p.hypotheses \subseteq DOMAIN world.ideas
        /\ \A i \in DOMAIN T : i \in Nat
    BY DEF AssessInv, Ranked, HypothesesInv, TestsInv
  <1>2. /\ DOMAIN p.revisions = DOMAIN tables.revisions
        /\ \A x \in DOMAIN p.revisions : p.revisions[x].after = tables.revisions[x].after
    BY <1>1 DEF State, Stored
  <1>3. /\ g \in DOMAIN p.hypotheses /\ h \in DOMAIN p.hypotheses
        /\ p.revisions[g].after = RevisedBy(p, g) /\ p.revisions[h].after = RevisedBy(p, h)
        /\ p.hypotheses[g].initial \in Int
    BY <1>1, <1>2 DEF RankInv, Begun
  <1>4. g \in Nat /\ h \in Nat
    BY <1>1, <1>3, IdeasFinite
  <1>5. \A x : DOMAIN TestsOf(p, x) = K(x)
    BY DEF TestsOf, TestsFor
  <1>6. /\ p.hypotheses[g].initial = p.hypotheses[h].initial
        /\ {k - 10 * g : k \in K(g)} = {k - 10 * h : k \in K(h)}
        /\ \A k \in K(g) : Draft(T[k]) = Draft(T[k + c]) /\ Favour(T[k]) <= Favour(T[k + c])
    BY <1>1, <1>5 DEF NoWorse, Test
  <1>7. \A x : K(x) \subseteq DOMAIN T /\ IsFiniteSet(K(x))
    BY <1>1, FS_Subset DEF RankInv, TestsGraded, TestsFor
  <1> HIDE DEF p, T, K
  <1>8. c \in Int /\ \A x : K(x) \in SUBSET Int
    BY <1>1, <1>4, <1>7
  <1>9. K(h) = {k + c : k \in K(g)}
    <2>1. ASSUME NEW k \in K(g) PROVE k + c \in K(h)
      <3>1. PICK j \in K(h) : k - 10 * g = j - 10 * h
        BY <1>6
      <3>2. j = k + c
        BY <1>4, <1>8, <3>1
      <3> QED BY <3>2
    <2>2. ASSUME NEW j \in K(h) PROVE \E k \in K(g) : j = k + c
      <3>1. PICK k \in K(g) : k - 10 * g = j - 10 * h
        BY <1>6
      <3>2. j = k + c
        BY <1>4, <1>8, <3>1
      <3> QED BY <3>2
    <2> HIDE DEF c
    <2> QED BY <2>1, <2>2
  <1> HIDE DEF c
  <1>10. ASSUME NEW k \in K(g)
         PROVE  Graded(T[k]) /\ Graded(T[k + c]) /\ DeltaOf(T[k]) <= DeltaOf(T[k + c])
    <2>1. k \in DOMAIN T /\ k + c \in DOMAIN T
      BY <1>7, <1>9
    <2>2. Graded(T[k]) /\ Graded(T[k + c])
      BY <1>1, <2>1 DEF RankInv, TestsGraded, T
    <2>3. T[k].strength = T[k + c].strength
      BY <1>6 DEF Draft
    <2> QED BY <1>6, <2>2, <2>3, DeltaGrows
  <1> DEFINE a == SumOf(Deltas(T, K(g)))
             b == SumOf(Deltas(T, K(h)))
             x == p.hypotheses[g].initial
  <1>11. a <= b
    BY <1>7, <1>8, <1>9, <1>10, DeltasGrow
  <1>12. a \in Int /\ b \in Int
    <2>1. ASSUME NEW S, IsFiniteSet(S), S \in SUBSET DOMAIN T PROVE SumOf(Deltas(T, S)) \in Int
      <3>1. \A i \in S : Graded(T[i])
        BY <1>1, <2>1 DEF RankInv, TestsGraded, T
      <3> QED BY <2>1, <3>1, DeltasAdd
    <2> QED BY <1>7, <2>1
  <1>13. p.revisions[g].after = Clamp(x + a) /\ p.revisions[h].after = Clamp(x + b)
    BY <1>3, <1>6 DEF RevisedBy, T, K
  <1>14. x \in Int
    BY <1>3
  <1> HIDE DEF a, b, x
  <1>15. x + a \in Int /\ x + b \in Int /\ x + a <= x + b
    BY <1>11, <1>12, <1>14
  <1>16. Clamp(x + a) <= Clamp(x + b)
    BY <1>15, ClampGrows
  <1> QED BY <1>2, <1>13, <1>16

\* A hypothesis whose tests went no worse than those of another ends no lower
\* (confidence.py test_delta and revise_confidence), in every world.
THEOREM BetterIsNeverLower == Spec => []BetterTestsNeverLower
  <1>1. Spec => []Ranked
    BY InitRanked, Assesses, StepRanked, PTL DEF Spec
  <1> QED BY <1>1, Assesses, BetterFits, PTL

-----------------------------------------------------------------------------
(* The tables and the state they are read back as.                          *)

\* The rows of a table name rows that are there.
TableShape == {"records", "candidateLinks", "evidenceLinks", "hypotheses", "claimLinks", "questions",
               "critiques", "tests", "revisions", "deltas", "queries", "results"}
Keyed(T) ==
  /\ DOMAIN T = TableShape
  /\ \A l \in T.candidateLinks \cup T.evidenceLinks : l[1] \in DOMAIN T.records
  /\ \A d \in T.deltas : d[1] \in DOMAIN T.revisions
  /\ \A r \in T.results : r[1] \in DOMAIN T.queries

\* A state is what its fields are.
Whole(p) == p = [x \in Shape |-> p[x]]

\* States that agree in every field are the same.
LEMMA WholeSame ==
  ASSUME NEW p, NEW q, Whole(p), Whole(q), \A x \in Shape : p[x] = q[x]
  PROVE  p = q
  BY DEF Whole

\* What the tables hold is a state.
LEMMA StoredWhole ==
  ASSUME NEW T
  PROVE  DOMAIN Stored(T) = Shape /\ Whole(Stored(T))
  BY DEF Stored, Whole, Shape

\* The fields of what is read back.
SourcesIn(T, id) == {l[2] : l \in {k \in T.candidateLinks : k[1] = id}}
RecordIn(T, id) == [says |-> T.records[id].says, names |-> T.records[id].names,
                    sources |-> SourcesIn(T, id), links |-> Links(T, id)]
ProposedIn(T, h) == {Draft(T.tests[i]) : i \in {j \in DOMAIN T.tests : T.tests[j].hypothesis = h}}
CritiqueIn(T, h) == [contradiction |-> T.critiques[h], tests |-> ProposedIn(T, h)]
DeltasIn(T, h) == {<<d[2], d[3]>> : d \in {c \in T.deltas : c[1] = h}}
RevisionIn(T, h) == [before |-> T.revisions[h].before, delta |-> T.revisions[h].delta,
                     after |-> T.revisions[h].after, deltas |-> DeltasIn(T, h)]
FoundIn(T, id) == {<<r[2], r[3]>> : r \in {k \in T.results : k[1] = id}}
RetrievalIn(T, id) == [query |-> T.queries[id], results |-> FoundIn(T, id)]

\* What is read back is, field by field, what the rows say.
LEMMA StoredIs ==
  ASSUME NEW T
  PROVE  /\ Stored(T).records = [id \in DOMAIN T.records |-> RecordIn(T, id)]
         /\ Stored(T).hypotheses = T.hypotheses /\ Stored(T).claimLinks = T.claimLinks
         /\ Stored(T).questions = T.questions /\ Stored(T).tests = T.tests
         /\ Stored(T).critiques = [h \in DOMAIN T.critiques |-> CritiqueIn(T, h)]
         /\ Stored(T).revisions = [h \in DOMAIN T.revisions |-> RevisionIn(T, h)]
         /\ Stored(T).retrievals = [id \in DOMAIN T.queries |-> RetrievalIn(T, id)]
  BY DEF Stored, RecordIn, SourcesIn, CritiqueIn, ProposedIn, RevisionIn, DeltasIn, RetrievalIn, FoundIn

\* What is read back has the ids of the rows.
LEMMA StoredIds ==
  ASSUME NEW T
  PROVE  /\ DOMAIN Stored(T).records = DOMAIN T.records
         /\ DOMAIN Stored(T).critiques = DOMAIN T.critiques
         /\ DOMAIN Stored(T).revisions = DOMAIN T.revisions
         /\ DOMAIN Stored(T).retrievals = DOMAIN T.queries
  <1>1. DOMAIN Stored(T).records = DOMAIN T.records
    <2>1. Stored(T).records = [id \in DOMAIN T.records |-> RecordIn(T, id)]
      BY StoredIs
    <2> QED BY <2>1
  <1>2. DOMAIN Stored(T).critiques = DOMAIN T.critiques
    <2>1. Stored(T).critiques = [id \in DOMAIN T.critiques |-> CritiqueIn(T, id)]
      BY StoredIs
    <2> QED BY <2>1
  <1>3. DOMAIN Stored(T).revisions = DOMAIN T.revisions
    <2>1. Stored(T).revisions = [id \in DOMAIN T.revisions |-> RevisionIn(T, id)]
      BY StoredIs
    <2> QED BY <2>1
  <1>4. DOMAIN Stored(T).retrievals = DOMAIN T.queries
    <2>1. Stored(T).retrievals = [id \in DOMAIN T.queries |-> RetrievalIn(T, id)]
      BY StoredIs
    <2> QED BY <2>1
  <1> QED BY <1>1, <1>2, <1>3, <1>4

\* An event keeps a state whole.
LEMMA AppliedWhole ==
  ASSUME NEW p, NEW m, DOMAIN p = Shape, Whole(p), 
         m.kind \in {"RECORD_CREATED", "HYPOTHESIS_CREATED", "CRITIQUE_CREATED", "TEST_CREATED",
                     "TEST_RESOLVED", "CONFIDENCE_REVISED", "STATUS_CHANGED", "RETRIEVAL_COMPLETED",
                     "COMPLETED"}
  PROVE  DOMAIN Applied(p, m) = Shape /\ Whole(Applied(p, m))
  <1> USE DEF Applied, Whole
  <1>1. CASE m.kind = "RECORD_CREATED" BY <1>1
  <1>2. CASE m.kind = "HYPOTHESIS_CREATED" BY <1>2
  <1>3. CASE m.kind = "CRITIQUE_CREATED" BY <1>3
  <1>4. CASE m.kind = "TEST_CREATED" BY <1>4
  <1>5. CASE m.kind = "TEST_RESOLVED" BY <1>5
  <1>6. CASE m.kind = "CONFIDENCE_REVISED" BY <1>6
  <1>7. CASE m.kind = "STATUS_CHANGED" BY <1>7
  <1>8. CASE m.kind = "RETRIEVAL_COMPLETED" BY <1>8
  <1>9. CASE m.kind = "COMPLETED" BY <1>9
  <1> QED BY <1>1, <1>2, <1>3, <1>4, <1>5, <1>6, <1>7, <1>8, <1>9

\* And so are states whose eight tables agree.
LEMMA StateSame ==
  ASSUME NEW p, NEW q, Whole(p), Whole(q), p.records = q.records, p.hypotheses = q.hypotheses,
         p.claimLinks = q.claimLinks, p.questions = q.questions, p.critiques = q.critiques,
         p.tests = q.tests, p.revisions = q.revisions, p.retrievals = q.retrievals
  PROVE  p = q
  <1>1. \A x \in Shape : p[x] = q[x]
    BY DEF Shape
  <1> QED BY <1>1, WholeSame

\* What is read from tables that stay as they are stays as it is.
LEMMA RecordsRead ==
  ASSUME NEW T, NEW W, W.records = T.records, W.candidateLinks = T.candidateLinks,
         W.evidenceLinks = T.evidenceLinks
  PROVE  Stored(W).records = Stored(T).records
  <1>1. \A id : RecordIn(W, id) = RecordIn(T, id)
    BY DEF RecordIn, SourcesIn, Links
  <1>2. Stored(W).records = [id \in DOMAIN W.records |-> RecordIn(W, id)]
    BY StoredIs
  <1>3. Stored(T).records = [id \in DOMAIN T.records |-> RecordIn(T, id)]
    BY StoredIs
  <1> QED BY <1>1, <1>2, <1>3

\* The critiques are read from their rows and from the tests they propose.
LEMMA CritiquesRead ==
  ASSUME NEW T, NEW W, W.critiques = T.critiques, W.tests = T.tests
  PROVE  Stored(W).critiques = Stored(T).critiques
  <1>1. \A id : CritiqueIn(W, id) = CritiqueIn(T, id)
    BY DEF CritiqueIn, ProposedIn
  <1>2. Stored(W).critiques = [id \in DOMAIN W.critiques |-> CritiqueIn(W, id)]
    BY StoredIs
  <1>3. Stored(T).critiques = [id \in DOMAIN T.critiques |-> CritiqueIn(T, id)]
    BY StoredIs
  <1> QED BY <1>1, <1>2, <1>3

\* The revisions are read from their rows and from their deltas.
LEMMA RevisionsRead ==
  ASSUME NEW T, NEW W, W.revisions = T.revisions, W.deltas = T.deltas
  PROVE  Stored(W).revisions = Stored(T).revisions
  <1>1. \A id : RevisionIn(W, id) = RevisionIn(T, id)
    BY DEF RevisionIn, DeltasIn
  <1>2. Stored(W).revisions = [id \in DOMAIN W.revisions |-> RevisionIn(W, id)]
    BY StoredIs
  <1>3. Stored(T).revisions = [id \in DOMAIN T.revisions |-> RevisionIn(T, id)]
    BY StoredIs
  <1> QED BY <1>1, <1>2, <1>3

\* The retrievals are read from their queries and their results.
LEMMA RetrievalsRead ==
  ASSUME NEW T, NEW W, W.queries = T.queries, W.results = T.results
  PROVE  Stored(W).retrievals = Stored(T).retrievals
  <1>1. \A id : RetrievalIn(W, id) = RetrievalIn(T, id)
    BY DEF RetrievalIn, FoundIn
  <1>2. Stored(W).retrievals = [id \in DOMAIN W.queries |-> RetrievalIn(W, id)]
    BY StoredIs
  <1>3. Stored(T).retrievals = [id \in DOMAIN T.queries |-> RetrievalIn(T, id)]
    BY StoredIs
  <1> QED BY <1>1, <1>2, <1>3

\* Creating a record.
LEMMA RecordWritten ==
  ASSUME NEW T, Keyed(T), NEW m, m.kind = "RECORD_CREATED", m.id \notin DOMAIN T.records,
         m.links \subseteq Nat \X Polarity
  PROVE  Keyed(Write(T, m)) /\ Stored(Write(T, m)) = Applied(Stored(T), m)
  <1> DEFINE W == Write(T, m)
             p == Stored(T)
             q == Applied(p, m)
             new == [says |-> m.says, names |-> m.names, sources |-> m.sources, links |-> m.links]
  <1>1. /\ DOMAIN W = TableShape
        /\ W.records = Put(T.records, m.id, [says |-> m.says, names |-> m.names])
        /\ W.candidateLinks = T.candidateLinks \cup ({m.id} \X m.sources)
        /\ W.evidenceLinks = T.evidenceLinks \cup {<<m.id, l[1], l[2]>> : l \in m.links}
        /\ W.hypotheses = T.hypotheses /\ W.claimLinks = T.claimLinks /\ W.questions = T.questions
        /\ W.critiques = T.critiques /\ W.tests = T.tests
        /\ W.revisions = T.revisions /\ W.deltas = T.deltas
        /\ W.queries = T.queries /\ W.results = T.results
    BY DEF Write, Keyed, TableShape
  <1> HIDE DEF W
  <1>2. DOMAIN W.records = DOMAIN T.records \cup {m.id}
    BY <1>1 DEF Put
  <1>3. Keyed(W)
    <2>1. \A l \in W.candidateLinks \cup W.evidenceLinks : l[1] \in DOMAIN W.records
      BY <1>1, <1>2 DEF Keyed
    <2> QED BY <1>1, <2>1 DEF Keyed
  <1>4. ASSUME NEW id \in DOMAIN T.records PROVE RecordIn(W, id) = RecordIn(T, id)
    <2>1. id # m.id /\ W.records[id] = T.records[id]
      BY <1>1 DEF Put
    <2>2. {k \in W.candidateLinks : k[1] = id} = {k \in T.candidateLinks : k[1] = id}
      BY <1>1, <2>1
    <2>3. {k \in W.evidenceLinks : k[1] = id} = {k \in T.evidenceLinks : k[1] = id}
      BY <1>1, <2>1
    <2>4. SourcesIn(W, id) = SourcesIn(T, id) /\ Links(W, id) = Links(T, id)
      BY <2>2, <2>3 DEF SourcesIn, Links
    <2> QED BY <2>1, <2>4 DEF RecordIn
  <1>5. RecordIn(W, m.id) = new
    <2>1. W.records[m.id] = [says |-> m.says, names |-> m.names]
      BY <1>1 DEF Put
    <2>2. SourcesIn(W, m.id) = m.sources
      <3>1. {k \in W.candidateLinks : k[1] = m.id} = {m.id} \X m.sources
        BY <1>1 DEF Keyed
      <3>2. {l[2] : l \in {m.id} \X m.sources} = m.sources
        <4>1. ASSUME NEW c \in m.sources PROVE \E l \in {m.id} \X m.sources : l[2] = c
          <5>1. <<m.id, c>> \in {m.id} \X m.sources /\ <<m.id, c>>[2] = c
            OBVIOUS
          <5> QED BY <5>1
        <4> QED BY <4>1
      <3> QED BY <3>1, <3>2 DEF SourcesIn
    <2>3. Links(W, m.id) = m.links
      <3> DEFINE R == {<<m.id, l[1], l[2]>> : l \in m.links}
      <3>1. {k \in W.evidenceLinks : k[1] = m.id} = R
        BY <1>1 DEF Keyed
      <3>2. \A l \in m.links : l = <<l[1], l[2]>>
        OBVIOUS
      <3>3. {<<l[2], l[3]>> : l \in R} = m.links
        <4>1. ASSUME NEW l \in m.links PROVE \E r \in R : <<r[2], r[3]>> = l
          <5>1. <<m.id, l[1], l[2]>> \in R
            OBVIOUS
          <5> QED BY <3>2, <5>1
        <4>2. ASSUME NEW r \in R PROVE <<r[2], r[3]>> \in m.links
          BY <3>2
        <4> HIDE DEF R
        <4> QED BY <4>1, <4>2
      <3> HIDE DEF R
      <3> QED BY <3>1, <3>3 DEF Links
    <2> QED BY <2>1, <2>2, <2>3 DEF RecordIn
  <1>6. Stored(W).records = Put(p.records, m.id, new)
    <2>1. Stored(W).records = [id \in DOMAIN W.records |-> RecordIn(W, id)]
      BY StoredIs
    <2>2. p.records = [id \in DOMAIN T.records |-> RecordIn(T, id)]
      BY StoredIs
    <2> HIDE DEF p, new
    <2>3. DOMAIN p.records = DOMAIN T.records /\ \A id \in DOMAIN T.records : p.records[id] = RecordIn(T, id)
      BY <2>2
    <2>4. \A id \in DOMAIN W.records :
            RecordIn(W, id) = IF id = m.id THEN new ELSE p.records[id]
      BY <1>2, <1>4, <1>5, <2>3
    <2> QED BY <1>2, <2>1, <2>3, <2>4 DEF Put
  <1>7. /\ q.records = Put(p.records, m.id, new)
        /\ q.hypotheses = p.hypotheses /\ q.claimLinks = p.claimLinks /\ q.questions = p.questions
        /\ q.critiques = p.critiques /\ q.tests = p.tests /\ q.revisions = p.revisions
        /\ q.retrievals = p.retrievals
    BY StoredWhole DEF Applied, Shape
  <1>8. Whole(Stored(W)) /\ Whole(q)
    BY StoredWhole, AppliedWhole
  <1> HIDE DEF q, p, new
  <1>9. Stored(W) = q
    <2>1. Stored(W).critiques = p.critiques
      BY <1>1, CritiquesRead DEF p
    <2>2. Stored(W).revisions = p.revisions
      BY <1>1, RevisionsRead DEF p
    <2>3. Stored(W).retrievals = p.retrievals
      BY <1>1, RetrievalsRead DEF p
    <2>4. /\ Stored(W).hypotheses = p.hypotheses /\ Stored(W).claimLinks = p.claimLinks
          /\ Stored(W).questions = p.questions /\ Stored(W).tests = p.tests
      BY <1>1, StoredIs DEF p
    <2> QED BY <1>6, <1>7, <1>8, <2>1, <2>2, <2>3, <2>4, StateSame
  <1> QED BY <1>3, <1>9 DEF W, p, q

\* Opening a hypothesis.
LEMMA HypothesisWritten ==
  ASSUME NEW T, Keyed(T), NEW m, m.kind = "HYPOTHESIS_CREATED"
  PROVE  Keyed(Write(T, m)) /\ Stored(Write(T, m)) = Applied(Stored(T), m)
  <1> DEFINE W == Write(T, m)
             p == Stored(T)
             q == Applied(p, m)
  <1>1. /\ DOMAIN W = TableShape
        /\ W.hypotheses = Put(T.hypotheses, m.id, Opening(m))
        /\ W.claimLinks = T.claimLinks \cup ClaimLinks(m)
        /\ W.questions = T.questions \cup ({m.id} \X m.questions)
        /\ W.records = T.records /\ W.candidateLinks = T.candidateLinks
        /\ W.evidenceLinks = T.evidenceLinks
        /\ W.critiques = T.critiques /\ W.tests = T.tests
        /\ W.revisions = T.revisions /\ W.deltas = T.deltas
        /\ W.queries = T.queries /\ W.results = T.results
    BY DEF Write, Keyed, TableShape
  <1> HIDE DEF W
  <1>2. Keyed(W)
    BY <1>1 DEF Keyed
  <1>3. /\ q.hypotheses = Put(p.hypotheses, m.id, Opening(m))
        /\ q.claimLinks = p.claimLinks \cup ClaimLinks(m)
        /\ q.questions = p.questions \cup ({m.id} \X m.questions)
        /\ q.records = p.records /\ q.critiques = p.critiques /\ q.tests = p.tests
        /\ q.revisions = p.revisions /\ q.retrievals = p.retrievals
    BY StoredWhole DEF Applied, Shape
  <1>4. Whole(Stored(W)) /\ Whole(q)
    BY StoredWhole, AppliedWhole
  <1> HIDE DEF q, p
  <1>5. Stored(W) = q
    <2>1. Stored(W).critiques = p.critiques
      BY <1>1, CritiquesRead DEF p
    <2>2. Stored(W).revisions = p.revisions
      BY <1>1, RevisionsRead DEF p
    <2>3. Stored(W).retrievals = p.retrievals
      BY <1>1, RetrievalsRead DEF p
    <2>4. Stored(W).records = p.records
      BY <1>1, RecordsRead DEF p
    <2>5. /\ Stored(W).hypotheses = W.hypotheses /\ Stored(W).claimLinks = W.claimLinks
          /\ Stored(W).questions = W.questions /\ Stored(W).tests = W.tests
      BY StoredIs
    <2>6. /\ p.hypotheses = T.hypotheses /\ p.claimLinks = T.claimLinks
          /\ p.questions = T.questions /\ p.tests = T.tests
      BY StoredIs DEF p
    <2>7. /\ Stored(W).hypotheses = q.hypotheses /\ Stored(W).claimLinks = q.claimLinks
          /\ Stored(W).questions = q.questions /\ Stored(W).tests = q.tests
      BY <1>1, <1>3, <2>5, <2>6
    <2> QED BY <1>3, <1>4, <2>1, <2>2, <2>3, <2>4, <2>7, StateSame
  <1> QED BY <1>2, <1>5 DEF W, p, q

\* Resolving a test that is pending.
LEMMA ResolutionWritten ==
  ASSUME NEW T, Keyed(T), NEW m, m.kind = "TEST_RESOLVED", m.id \in DOMAIN T.tests,
         T.tests[m.id].status = "PENDING", DOMAIN T.tests[m.id] = TestShape
  PROVE  Keyed(Write(T, m)) /\ Stored(Write(T, m)) = Applied(Stored(T), m)
  <1> DEFINE W == Write(T, m)
             p == Stored(T)
             q == Applied(p, m)
             t == Resolved(T.tests[m.id], m)
  <1>1. /\ DOMAIN W = TableShape
        /\ W.tests = [T.tests EXCEPT ![m.id] = t]
        /\ W.hypotheses = T.hypotheses /\ W.claimLinks = T.claimLinks /\ W.questions = T.questions
        /\ W.records = T.records /\ W.candidateLinks = T.candidateLinks
        /\ W.evidenceLinks = T.evidenceLinks
        /\ W.critiques = T.critiques
        /\ W.revisions = T.revisions /\ W.deltas = T.deltas
        /\ W.queries = T.queries /\ W.results = T.results
    BY DEF Write, Keyed, TableShape
  <1> HIDE DEF W
  <1>2. Keyed(W)
    BY <1>1 DEF Keyed
  <1>3. /\ q.tests = [p.tests EXCEPT ![m.id] = Resolved(p.tests[m.id], m)]
        /\ q.hypotheses = p.hypotheses /\ q.claimLinks = p.claimLinks /\ q.questions = p.questions
        /\ q.records = p.records /\ q.critiques = p.critiques
        /\ q.revisions = p.revisions /\ q.retrievals = p.retrievals
    BY StoredWhole DEF Applied, Shape
  <1>4. Whole(Stored(W)) /\ Whole(q)
    BY StoredWhole, AppliedWhole
  <1>5. Draft(t) = Draft(T.tests[m.id]) /\ t.hypothesis = T.tests[m.id].hypothesis
    BY DEF Resolved, Draft, TestShape
  <1> HIDE DEF q, p, t
  <1>6. Stored(W).critiques = p.critiques
    <2>1. DOMAIN W.tests = DOMAIN T.tests
      BY <1>1
    <2>2. ASSUME NEW i \in DOMAIN T.tests
          PROVE  Draft(W.tests[i]) = Draft(T.tests[i]) /\ W.tests[i].hypothesis = T.tests[i].hypothesis
      BY <1>1, <1>5
    <2>3. ASSUME NEW h PROVE ProposedIn(W, h) = ProposedIn(T, h)
      <3>1. {j \in DOMAIN W.tests : W.tests[j].hypothesis = h} = {j \in DOMAIN T.tests : T.tests[j].hypothesis = h}
        BY <2>1, <2>2
      <3> QED BY <2>2, <3>1 DEF ProposedIn
    <2>4. \A h : CritiqueIn(W, h) = CritiqueIn(T, h)
      BY <1>1, <2>3 DEF CritiqueIn
    <2>5. Stored(W).critiques = [h \in DOMAIN W.critiques |-> CritiqueIn(W, h)]
      BY StoredIs
    <2>6. p.critiques = [h \in DOMAIN T.critiques |-> CritiqueIn(T, h)]
      BY StoredIs DEF p
    <2> QED BY <1>1, <2>4, <2>5, <2>6
  <1>7. Stored(W) = q
    <2>2. Stored(W).revisions = p.revisions
      BY <1>1, RevisionsRead DEF p
    <2>3. Stored(W).retrievals = p.retrievals
      BY <1>1, RetrievalsRead DEF p
    <2>4. Stored(W).records = p.records
      BY <1>1, RecordsRead DEF p
    <2>5. /\ Stored(W).hypotheses = W.hypotheses /\ Stored(W).claimLinks = W.claimLinks
          /\ Stored(W).questions = W.questions /\ Stored(W).tests = W.tests
      BY StoredIs
    <2>6. /\ p.hypotheses = T.hypotheses /\ p.claimLinks = T.claimLinks
          /\ p.questions = T.questions /\ p.tests = T.tests
      BY StoredIs DEF p
    <2>7. q.tests = W.tests
      BY <1>1, <1>3, <2>6 DEF t
    <2> QED BY <1>1, <1>3, <1>4, <1>6, <2>2, <2>3, <2>4, <2>5, <2>6, <2>7, StateSame
  <1> QED BY <1>2, <1>7 DEF W, p, q

\* Revising a confidence: the revision, its deltas and the hypothesis.
LEMMA RevisionWritten ==
  ASSUME NEW T, Keyed(T), NEW m, m.kind = "CONFIDENCE_REVISED", m.id \notin DOMAIN T.revisions,
         \A d \in m.deltas : d = <<d[1], d[2]>>
  PROVE  Keyed(Write(T, m)) /\ Stored(Write(T, m)) = Applied(Stored(T), m)
  <1> DEFINE W == Write(T, m)
             p == Stored(T)
             q == Applied(p, m)
             row == [before |-> m.before, delta |-> m.delta, after |-> m.after]
             new == [before |-> m.before, delta |-> m.delta, after |-> m.after, deltas |-> m.deltas]
  <1>1. /\ DOMAIN W = TableShape
        /\ W.revisions = Put(T.revisions, m.id, row)
        /\ W.deltas = T.deltas \cup {<<m.id, d[1], d[2]>> : d \in m.deltas}
        /\ W.hypotheses = [T.hypotheses EXCEPT ![m.id].confidence = m.after]
        /\ W.claimLinks = T.claimLinks /\ W.questions = T.questions
        /\ W.records = T.records /\ W.candidateLinks = T.candidateLinks
        /\ W.evidenceLinks = T.evidenceLinks
        /\ W.critiques = T.critiques /\ W.tests = T.tests
        /\ W.queries = T.queries /\ W.results = T.results
    BY DEF Write, WriteRevision, WriteRevisionAlone, Keyed, TableShape
  <1> HIDE DEF W
  <1>2. DOMAIN W.revisions = DOMAIN T.revisions \cup {m.id}
    BY <1>1 DEF Put
  <1>3. Keyed(W)
    BY <1>1, <1>2 DEF Keyed
  <1>4. ASSUME NEW h \in DOMAIN T.revisions PROVE RevisionIn(W, h) = RevisionIn(T, h)
    <2>1. h # m.id /\ W.revisions[h] = T.revisions[h]
      BY <1>1 DEF Put
    <2>2. {c \in W.deltas : c[1] = h} = {c \in T.deltas : c[1] = h}
      BY <1>1, <2>1
    <2>3. DeltasIn(W, h) = DeltasIn(T, h)
      BY <2>2 DEF DeltasIn
    <2> QED BY <2>1, <2>3 DEF RevisionIn
  <1>5. RevisionIn(W, m.id) = new
    <2>1. W.revisions[m.id] = row
      BY <1>1 DEF Put
    <2>2. DeltasIn(W, m.id) = m.deltas
      <3> DEFINE R == {<<m.id, d[1], d[2]>> : d \in m.deltas}
      <3>1. {c \in W.deltas : c[1] = m.id} = R
        BY <1>1 DEF Keyed
      <3>2. ASSUME NEW d \in m.deltas PROVE \E r \in R : <<r[2], r[3]>> = d
        <4>1. <<m.id, d[1], d[2]>> \in R
          OBVIOUS
        <4> QED BY <4>1
      <3>3. ASSUME NEW r \in R PROVE <<r[2], r[3]>> \in m.deltas
        OBVIOUS
      <3> HIDE DEF R
      <3>4. {<<r[2], r[3]>> : r \in R} = m.deltas
        BY <3>2, <3>3
      <3> QED BY <3>1, <3>4 DEF DeltasIn
    <2> QED BY <2>1, <2>2 DEF RevisionIn
  <1>6. Stored(W).revisions = Put(p.revisions, m.id, new)
    <2>1. Stored(W).revisions = [h \in DOMAIN W.revisions |-> RevisionIn(W, h)]
      BY StoredIs
    <2>2. p.revisions = [h \in DOMAIN T.revisions |-> RevisionIn(T, h)]
      BY StoredIs
    <2> HIDE DEF p, new
    <2>3. DOMAIN p.revisions = DOMAIN T.revisions /\ \A h \in DOMAIN T.revisions : p.revisions[h] = RevisionIn(T, h)
      BY <2>2
    <2>4. \A h \in DOMAIN W.revisions :
            RevisionIn(W, h) = IF h = m.id THEN new ELSE p.revisions[h]
      BY <1>2, <1>4, <1>5, <2>3
    <2> QED BY <1>2, <2>1, <2>3, <2>4 DEF Put
  <1>7. /\ q.revisions = Put(p.revisions, m.id, new)
        /\ q.hypotheses = [p.hypotheses EXCEPT ![m.id].confidence = m.after]
        /\ q.claimLinks = p.claimLinks /\ q.questions = p.questions
        /\ q.records = p.records /\ q.critiques = p.critiques /\ q.tests = p.tests
        /\ q.retrievals = p.retrievals
    BY StoredWhole DEF Applied, Shape
  <1>8. Whole(Stored(W)) /\ Whole(q)
    BY StoredWhole, AppliedWhole
  <1> HIDE DEF q, p, new, row
  <1>9. Stored(W) = q
    <2>1. Stored(W).critiques = p.critiques
      BY <1>1, CritiquesRead DEF p
    <2>3. Stored(W).retrievals = p.retrievals
      BY <1>1, RetrievalsRead DEF p
    <2>4. Stored(W).records = p.records
      BY <1>1, RecordsRead DEF p
    <2>5. /\ Stored(W).hypotheses = W.hypotheses /\ Stored(W).claimLinks = W.claimLinks
          /\ Stored(W).questions = W.questions /\ Stored(W).tests = W.tests
      BY StoredIs
    <2>6. /\ p.hypotheses = T.hypotheses /\ p.claimLinks = T.claimLinks
          /\ p.questions = T.questions /\ p.tests = T.tests
      BY StoredIs DEF p
    <2>7. q.hypotheses = W.hypotheses
      BY <1>1, <1>7, <2>6
    <2> QED BY <1>1, <1>6, <1>7, <1>8, <2>1, <2>3, <2>4, <2>5, <2>6, <2>7, StateSame
  <1> QED BY <1>3, <1>9 DEF W, p, q

\* Changing a status.
LEMMA StatusWritten ==
  ASSUME NEW T, Keyed(T), NEW m, m.kind = "STATUS_CHANGED"
  PROVE  Keyed(Write(T, m)) /\ Stored(Write(T, m)) = Applied(Stored(T), m)
  <1> DEFINE W == Write(T, m)
             p == Stored(T)
             q == Applied(p, m)
  <1>1. /\ DOMAIN W = TableShape
        /\ W.hypotheses = [T.hypotheses EXCEPT ![m.id].status = m.after]
        /\ W.claimLinks = T.claimLinks /\ W.questions = T.questions
        /\ W.records = T.records /\ W.candidateLinks = T.candidateLinks
        /\ W.evidenceLinks = T.evidenceLinks
        /\ W.critiques = T.critiques /\ W.tests = T.tests
        /\ W.revisions = T.revisions /\ W.deltas = T.deltas
        /\ W.queries = T.queries /\ W.results = T.results
    BY DEF Write, Keyed, TableShape
  <1> HIDE DEF W
  <1>2. Keyed(W)
    BY <1>1 DEF Keyed
  <1>3. /\ q.hypotheses = [p.hypotheses EXCEPT ![m.id].status = m.after]
        /\ q.claimLinks = p.claimLinks /\ q.questions = p.questions
        /\ q.records = p.records /\ q.critiques = p.critiques /\ q.tests = p.tests
        /\ q.revisions = p.revisions /\ q.retrievals = p.retrievals
    BY StoredWhole DEF Applied, Shape
  <1>4. Whole(Stored(W)) /\ Whole(q)
    BY StoredWhole, AppliedWhole
  <1> HIDE DEF q, p
  <1>5. Stored(W) = q
    <2>1. Stored(W).critiques = p.critiques
      BY <1>1, CritiquesRead DEF p
    <2>2. Stored(W).revisions = p.revisions
      BY <1>1, RevisionsRead DEF p
    <2>3. Stored(W).retrievals = p.retrievals
      BY <1>1, RetrievalsRead DEF p
    <2>4. Stored(W).records = p.records
      BY <1>1, RecordsRead DEF p
    <2>5. /\ Stored(W).hypotheses = W.hypotheses /\ Stored(W).claimLinks = W.claimLinks
          /\ Stored(W).questions = W.questions /\ Stored(W).tests = W.tests
      BY StoredIs
    <2>6. /\ p.hypotheses = T.hypotheses /\ p.claimLinks = T.claimLinks
          /\ p.questions = T.questions /\ p.tests = T.tests
      BY StoredIs DEF p
    <2>7. q.hypotheses = W.hypotheses
      BY <1>1, <1>3, <2>6
    <2> QED BY <1>1, <1>3, <1>4, <2>1, <2>2, <2>3, <2>4, <2>5, <2>6, <2>7, StateSame
  <1> QED BY <1>2, <1>5 DEF W, p, q

\* Recording a search.
LEMMA RetrievalWritten ==
  ASSUME NEW T, Keyed(T), NEW m, m.kind = "RETRIEVAL_COMPLETED", m.id \notin DOMAIN T.queries
  PROVE  Keyed(Write(T, m)) /\ Stored(Write(T, m)) = Applied(Stored(T), m)
  <1> DEFINE W == Write(T, m)
             p == Stored(T)
             q == Applied(p, m)
             new == [query |-> m.query, results |-> {<<m.results[n], n>> : n \in DOMAIN m.results}]
  <1>1. /\ DOMAIN W = TableShape
        /\ W.queries = Put(T.queries, m.id, m.query)
        /\ W.results = T.results \cup {<<m.id, m.results[n], n>> : n \in DOMAIN m.results}
        /\ W.questions = T.questions \cup ({m.id[2]} \X m.questions)
        /\ W.hypotheses = T.hypotheses /\ W.claimLinks = T.claimLinks
        /\ W.records = T.records /\ W.candidateLinks = T.candidateLinks
        /\ W.evidenceLinks = T.evidenceLinks
        /\ W.critiques = T.critiques /\ W.tests = T.tests
        /\ W.revisions = T.revisions /\ W.deltas = T.deltas
    BY DEF Write, Keyed, TableShape
  <1> HIDE DEF W
  <1>2. DOMAIN W.queries = DOMAIN T.queries \cup {m.id}
    BY <1>1 DEF Put
  <1>3. Keyed(W)
    BY <1>1, <1>2 DEF Keyed
  <1>4. ASSUME NEW id \in DOMAIN T.queries PROVE RetrievalIn(W, id) = RetrievalIn(T, id)
    <2>1. id # m.id /\ W.queries[id] = T.queries[id]
      BY <1>1 DEF Put
    <2>2. {k \in W.results : k[1] = id} = {k \in T.results : k[1] = id}
      BY <1>1, <2>1
    <2>3. FoundIn(W, id) = FoundIn(T, id)
      BY <2>2 DEF FoundIn
    <2> QED BY <2>1, <2>3 DEF RetrievalIn
  <1>5. RetrievalIn(W, m.id) = new
    <2>1. W.queries[m.id] = m.query
      BY <1>1 DEF Put
    <2>2. FoundIn(W, m.id) = {<<m.results[n], n>> : n \in DOMAIN m.results}
      <3> DEFINE R == {<<m.id, m.results[n], n>> : n \in DOMAIN m.results}
                 Q == {<<m.results[n], n>> : n \in DOMAIN m.results}
      <3>1. {k \in W.results : k[1] = m.id} = R
        BY <1>1 DEF Keyed
      <3>2. ASSUME NEW d \in Q PROVE \E r \in R : <<r[2], r[3]>> = d
        <4>1. PICK n \in DOMAIN m.results : d = <<m.results[n], n>>
          OBVIOUS
        <4>2. <<m.id, m.results[n], n>> \in R
          OBVIOUS
        <4> QED BY <4>1, <4>2
      <3>3. ASSUME NEW r \in R PROVE <<r[2], r[3]>> \in Q
        OBVIOUS
      <3> HIDE DEF R, Q
      <3>4. {<<r[2], r[3]>> : r \in R} = Q
        BY <3>2, <3>3
      <3>5. FoundIn(W, m.id) = Q
        BY <3>1, <3>4 DEF FoundIn
      <3> QED BY <3>5 DEF Q
    <2> QED BY <2>1, <2>2 DEF RetrievalIn
  <1>6. Stored(W).retrievals = Put(p.retrievals, m.id, new)
    <2>1. Stored(W).retrievals = [h \in DOMAIN W.queries |-> RetrievalIn(W, h)]
      BY StoredIs
    <2>2. p.retrievals = [h \in DOMAIN T.queries |-> RetrievalIn(T, h)]
      BY StoredIs
    <2> HIDE DEF p, new
    <2>3. DOMAIN p.retrievals = DOMAIN T.queries /\ \A h \in DOMAIN T.queries : p.retrievals[h] = RetrievalIn(T, h)
      BY <2>2
    <2>4. \A h \in DOMAIN W.queries :
            RetrievalIn(W, h) = IF h = m.id THEN new ELSE p.retrievals[h]
      BY <1>2, <1>4, <1>5, <2>3
    <2> QED BY <1>2, <2>1, <2>3, <2>4 DEF Put
  <1>7. /\ q.retrievals = Put(p.retrievals, m.id, new)
        /\ q.questions = p.questions \cup ({m.id[2]} \X m.questions)
        /\ q.hypotheses = p.hypotheses /\ q.claimLinks = p.claimLinks
        /\ q.records = p.records /\ q.critiques = p.critiques /\ q.tests = p.tests
        /\ q.revisions = p.revisions
    BY StoredWhole DEF Applied, Shape
  <1>8. Whole(Stored(W)) /\ Whole(q)
    BY StoredWhole, AppliedWhole
  <1> HIDE DEF q, p, new
  <1>9. Stored(W) = q
    <2>1. Stored(W).critiques = p.critiques
      BY <1>1, CritiquesRead DEF p
    <2>2. Stored(W).revisions = p.revisions
      BY <1>1, RevisionsRead DEF p
    <2>4. Stored(W).records = p.records
      BY <1>1, RecordsRead DEF p
    <2>5. /\ Stored(W).hypotheses = W.hypotheses /\ Stored(W).claimLinks = W.claimLinks
          /\ Stored(W).questions = W.questions /\ Stored(W).tests = W.tests
      BY StoredIs
    <2>6. /\ p.hypotheses = T.hypotheses /\ p.claimLinks = T.claimLinks
          /\ p.questions = T.questions /\ p.tests = T.tests
      BY StoredIs DEF p
    <2>7. q.questions = W.questions
      BY <1>1, <1>7, <2>6
    <2> QED BY <1>1, <1>6, <1>7, <1>8, <2>1, <2>2, <2>4, <2>5, <2>6, <2>7, StateSame
  <1> QED BY <1>3, <1>9 DEF W, p, q

\* The deltas of a revision that fits are pairs.
LEMMA DeltasPaired ==
  ASSUME NEW p, NEW m, RevisionFits(p, m)
  PROVE  \A d \in m.deltas : d = <<d[1], d[2]>>
  <1>1. m.deltas = Deltas(p.tests, TestsFor(p, m.id))
    BY DEF RevisionFits, Deltas, TestsFor, TestsOf
  <1> HIDE DEF RevisionFits
  <1> QED BY <1>1 DEF Deltas

\* An event of those that each read back as what replay makes of them: all but a critique and its tests.
Plain(m) ==
  /\ m.kind \in {"RECORD_CREATED", "HYPOTHESIS_CREATED", "TEST_RESOLVED", "CONFIDENCE_REVISED",
                 "STATUS_CHANGED", "RETRIEVAL_COMPLETED", "COMPLETED"}
  /\ m.kind = "RECORD_CREATED" => m.links \subseteq Nat \X Polarity
AllShaped(p) == \A i \in DOMAIN p.tests : DOMAIN p.tests[i] = TestShape

\* An event that brings no test is written as replay applies it.
LEMMA PlainWritten ==
  ASSUME NEW T, Keyed(T), NEW m, Plain(m), Accepts(Stored(T), m), AllShaped(Stored(T))
  PROVE  Keyed(Write(T, m)) /\ Stored(Write(T, m)) = Applied(Stored(T), m)
  <1>1. CASE m.kind = "RECORD_CREATED"
    <2>1. m.id \notin DOMAIN T.records
      BY <1>1, StoredIs DEF Accepts
    <2> QED BY <1>1, <2>1, RecordWritten DEF Plain
  <1>2. CASE m.kind = "HYPOTHESIS_CREATED"
    BY <1>2, HypothesisWritten
  <1>3. CASE m.kind = "TEST_RESOLVED"
    <2>1. m.id \in DOMAIN T.tests /\ T.tests[m.id].status = "PENDING"
      BY <1>3, StoredIs DEF Accepts
    <2>2. DOMAIN T.tests[m.id] = TestShape
      BY <2>1, StoredIs DEF AllShaped
    <2> QED BY <1>3, <2>1, <2>2, ResolutionWritten
  <1>4. CASE m.kind = "CONFIDENCE_REVISED"
    <2>1. RevisionFits(Stored(T), m)
      BY <1>4 DEF Accepts
    <2>2. m.id \notin DOMAIN Stored(T).revisions
      BY <2>1 DEF RevisionFits
    <2>3. m.id \notin DOMAIN T.revisions
      BY <2>2, StoredIds
    <2> QED BY <1>4, <2>1, <2>3, DeltasPaired, RevisionWritten
  <1>5. CASE m.kind = "STATUS_CHANGED"
    BY <1>5, StatusWritten
  <1>6. CASE m.kind = "RETRIEVAL_COMPLETED"
    <2>1. m.id \notin DOMAIN Stored(T).retrievals
      BY <1>6 DEF Accepts
    <2>2. m.id \notin DOMAIN T.queries
      BY <2>1, StoredIds
    <2> QED BY <1>6, <2>2, RetrievalWritten
  <1>7. CASE m.kind = "COMPLETED"
    BY <1>7 DEF Write, Applied
  <1> QED BY <1>1, <1>2, <1>3, <1>4, <1>5, <1>6, <1>7 DEF Plain

\* The tests of a state keep their shape.
LEMMA ShapeStays ==
  ASSUME NEW p, DOMAIN p = Shape, AllShaped(p), NEW m, Plain(m), Accepts(p, m)
  PROVE  DOMAIN Applied(p, m) = Shape /\ AllShaped(Applied(p, m))
  <1>1. CASE m.kind = "TEST_RESOLVED"
    <2>1. /\ DOMAIN Applied(p, m) = Shape
          /\ Applied(p, m).tests = [p.tests EXCEPT ![m.id] = Resolved(p.tests[m.id], m)]
      BY <1>1, ResolutionEffect DEF Same
    <2>2. DOMAIN Resolved(p.tests[m.id], m) = DOMAIN p.tests[m.id]
      BY DEF Resolved
    <2> QED BY <2>1, <2>2 DEF AllShaped
  <1>2. CASE m.kind # "TEST_RESOLVED"
    <2> DEFINE q == Applied(p, m)
    <2>1. CASE m.kind = "RECORD_CREATED"
      <3>1. Same(p, q, Shape \ {"records"}) /\ "tests" \in Shape \ {"records"}
        BY <2>1, RecordEffect DEF Shape
      <3> QED BY <3>1 DEF Same, AllShaped
    <2>2. CASE m.kind = "HYPOTHESIS_CREATED"
      BY <2>2, HypothesisEffect DEF Same, Shape, AllShaped
    <2>3. CASE m.kind = "CONFIDENCE_REVISED"
      <3>1. Same(p, q, {"records", "tests", "retrievals"})
        BY <2>3, RevisionEffect
      <3> QED BY <3>1 DEF Same, AllShaped
    <2>4. CASE m.kind = "STATUS_CHANGED"
      <3>1. Same(p, q, {"records", "tests", "retrievals"})
        BY <2>4, StatusEffect
      <3> QED BY <3>1 DEF Same, AllShaped
    <2>5. CASE m.kind = "RETRIEVAL_COMPLETED"
      BY <2>5, RetrievalEffect DEF Same, Shape, AllShaped
    <2>6. CASE m.kind = "COMPLETED"
      BY <2>6, CompletionEffect
    <2> QED BY <1>2, <2>1, <2>2, <2>3, <2>4, <2>5, <2>6 DEF Plain
  <1> QED BY <1>1, <1>2

-----------------------------------------------------------------------------
(* A result is written and replayed event by event.                         *)

IsWriting(w, ms, n) == w = [i \in 0..n |-> IF i = 0 THEN tables ELSE Write(w[i - 1], ms[i])]

\* Each round of the writing writes one event.
LEMMA WritingRound ==
  ASSUME NEW w, NEW ms, NEW n \in Nat, IsWriting(w, ms, n), NEW i \in 1..n
  PROVE  w[i] = Write(w[i - 1], ms[i])
  <1>1. i \in 0..n /\ i # 0
    OBVIOUS
  <1> QED BY <1>1 DEF IsWriting

\* However many events there are, there are the tables after each of them.
LEMMA WritingExists ==
  ASSUME NEW ms, NEW n \in Nat
  PROVE  \E w : IsWriting(w, ms, n)
  <1> DEFINE T == {m \in Nat : \E w : IsWriting(w, ms, m)}
  <1>1. 0 \in T
    <2> DEFINE w == [i \in 0..0 |-> tables]
    <2>1. IsWriting(w, ms, 0)
      BY DEF IsWriting
    <2> QED BY <2>1
  <1>2. ASSUME NEW m \in T PROVE m + 1 \in T
    <2>1. PICK w : IsWriting(w, ms, m)
      OBVIOUS
    <2> DEFINE g == [i \in 0..(m + 1) |-> IF i <= m THEN w[i] ELSE Write(w[m], ms[m + 1])]
    <2>2. ASSUME NEW i \in 0..(m + 1)
          PROVE  g[i] = IF i = 0 THEN tables ELSE Write(g[i - 1], ms[i])
      <3>1. CASE i = 0
        BY <2>1, <3>1 DEF IsWriting
      <3>2. CASE i # 0 /\ i <= m
        <4>1. w[i] = Write(w[i - 1], ms[i])
          BY <2>1, <3>2, WritingRound
        <4>2. g[i] = w[i] /\ g[i - 1] = w[i - 1]
          BY <3>2
        <4> QED BY <3>2, <4>1, <4>2
      <3>3. CASE i = m + 1
        <4>1. g[i - 1] = w[m] /\ i - 1 = m
          BY <3>3
        <4>2. g[i] = Write(w[m], ms[m + 1])
          BY <3>3
        <4> QED BY <3>3, <4>1, <4>2
      <3> QED BY <3>1, <3>2, <3>3
    <2> HIDE DEF g
    <2>3. DOMAIN g = 0..(m + 1) /\ g = [i \in 0..(m + 1) |-> g[i]]
      BY DEF g
    <2>4. IsWriting(g, ms, m + 1)
      BY <2>2, <2>3 DEF IsWriting
    <2> QED BY <2>4
  <1>3. T = Nat
    BY <1>1, <1>2, SetInduction
  <1> QED BY <1>3

\* The tables after each event of a result.
Writes(w, ms) ==
  /\ w[0] = tables /\ w[Len(ms)] = Written(ms)
  /\ \A i \in 1..Len(ms) : w[i] = Write(w[i - 1], ms[i])

\* The events of a job are written one after the other.
LEMMA WritesExist ==
  ASSUME NEW ms, Len(ms) \in Nat
  PROVE  \E w : Writes(w, ms)
  <1> DEFINE n == Len(ms)
  <1>1. \E w : IsWriting(w, ms, n)
    BY WritingExists
  <1>2. PICK w : IsWriting(w, ms, n) /\ Written(ms) = w[n]
    BY <1>1 DEF Written, IsWriting
  <1> HIDE DEF n
  <1>3. n \in Nat
    BY DEF n
  <1>4. w[0] = tables
    BY <1>2, <1>3 DEF IsWriting
  <1>5. \A i \in 1..n : w[i] = Write(w[i - 1], ms[i])
    BY <1>2, <1>3, WritingRound
  <1> QED BY <1>2, <1>4, <1>5 DEF Writes, n

\* The verdicts of a replay after each event of a result.
Run(f, p, ms) ==
  /\ f[0] = [ok |-> TRUE, state |-> p] /\ f[Len(ms)] = Replay(p, ms)
  /\ \A i \in 1..Len(ms) : f[i] = Replayed(f[i - 1], ms[i])

\* The events of a job are replayed one after the other.
LEMMA RunExists ==
  ASSUME NEW p, NEW ms, Len(ms) \in Nat
  PROVE  \E f : Run(f, p, ms)
  <1> DEFINE n == Len(ms)
  <1>1. \E f : IsReplay(f, p, ms, n)
    BY ReplayExists
  <1>2. PICK f : IsReplay(f, p, ms, n) /\ Replay(p, ms) = f[n]
    BY <1>1 DEF Replay, IsReplay
  <1> HIDE DEF n
  <1>3. n \in Nat
    BY DEF n
  <1>4. f[0] = [ok |-> TRUE, state |-> p]
    BY <1>2, <1>3 DEF IsReplay
  <1>5. \A i \in 1..n : f[i] = Replayed(f[i - 1], ms[i])
    BY <1>2, <1>3, ReplayRound
  <1> QED BY <1>2, <1>4, <1>5 DEF Run, n

\* A replay goes on while what it keeps, G, lets it accept the next event.
LEMMA RunGoes ==
  ASSUME NEW p, NEW ms, Len(ms) \in Nat, NEW f, Run(f, p, ms), NEW G, 0 \in G,
         \A i \in 1..Len(ms) : i - 1 \in G =>
           /\ Accepts(f[i - 1].state, ms[i])
           /\ f[i].state = Applied(f[i - 1].state, ms[i]) => i \in G
  PROVE  LET s == [i \in 0..Len(ms) |-> f[i].state] IN
         /\ Replay(p, ms).ok /\ Path(s, p, Replay(p, ms).state, ms)
         /\ Len(ms) \in G
  <1> DEFINE n == Len(ms)
             s == [i \in 0..n |-> f[i].state]
             T == {m \in Nat : m <= n => m \in G /\ f[m].ok}
  <1>1. 0 \in T
    BY DEF Run
  <1>2. ASSUME NEW m \in T PROVE m + 1 \in T
    <2> SUFFICES ASSUME m + 1 <= n PROVE m + 1 \in G /\ f[m + 1].ok
      OBVIOUS
    <2>1. m \in G /\ f[m].ok /\ m + 1 \in 1..n /\ (m + 1) - 1 = m
      OBVIOUS
    <2>2. Accepts(f[m].state, ms[m + 1]) /\ f[m + 1] = Replayed(f[m], ms[m + 1])
      BY <2>1 DEF Run
    <2>3. f[m + 1] = [ok |-> TRUE, state |-> Applied(f[m].state, ms[m + 1])]
      BY <2>1, <2>2 DEF Replayed
    <2>4. f[m + 1].ok /\ f[m + 1].state = Applied(f[m].state, ms[m + 1])
      BY <2>3
    <2> HIDE DEF T
    <2> QED BY <2>1, <2>4
  <1>3. T = Nat
    <2> HIDE DEF T
    <2> QED BY <1>1, <1>2, SetInduction DEF T
  <1>4. \A i \in 0..n : i \in G /\ f[i].ok
    <2>1. ASSUME NEW i \in 0..n PROVE i \in G /\ f[i].ok
      <3>1. i \in T /\ i <= n
        BY <1>3
      <3> QED BY <3>1
    <2> QED BY <2>1
  <1>5. ASSUME NEW i \in 1..n
        PROVE  Accepts(s[i - 1], ms[i]) /\ s[i] = Applied(s[i - 1], ms[i])
    <2>1. i - 1 \in 0..n /\ i \in 0..n
      OBVIOUS
    <2>2. s[i - 1] = f[i - 1].state /\ s[i] = f[i].state
      BY <2>1
    <2>3. f[i - 1].ok /\ Accepts(f[i - 1].state, ms[i]) /\ f[i] = Replayed(f[i - 1], ms[i])
      BY <1>4, <2>1 DEF Run
    <2> QED BY <2>2, <2>3 DEF Replayed
  <1>6. s[0] = p /\ s[n] = Replay(p, ms).state /\ Replay(p, ms).ok
    <2>1. 0 \in 0..n /\ n \in 0..n
      OBVIOUS
    <2> QED BY <1>4, <2>1 DEF Run
  <1> HIDE DEF s
  <1>7. Path(s, p, Replay(p, ms).state, ms)
    BY <1>5, <1>6 DEF Path
  <1> QED BY <1>4, <1>6, <1>7 DEF s

\* Events that each read back as what replay makes of them do so together.
LEMMA PlainPersists ==
  ASSUME NEW ms, Len(ms) \in Nat, NEW s, NEW q, Path(s, State, q, ms), Keyed(tables), AllShaped(State),
         \A i \in 1..Len(ms) : Plain(ms[i])
  PROVE  Keyed(Written(ms)) /\ Stored(Written(ms)) = q
  <1>1. PICK w : Writes(w, ms)
    BY WritesExist
  <1> DEFINE G == {i \in 0..Len(ms) : Keyed(w[i]) /\ Stored(w[i]) = s[i] /\ AllShaped(s[i])}
  <1>2. 0 \in G
    BY <1>1 DEF Writes, Path, State
  <1>3. ASSUME NEW i \in 1..Len(ms), i - 1 \in G PROVE i \in G
    <2>1. Keyed(w[i - 1]) /\ Stored(w[i - 1]) = s[i - 1] /\ AllShaped(s[i - 1])
      BY <1>3
    <2>2. w[i] = Write(w[i - 1], ms[i]) /\ Accepts(s[i - 1], ms[i]) /\ s[i] = Applied(s[i - 1], ms[i])
      BY <1>1 DEF Writes, Path
    <2>3. Plain(ms[i]) /\ DOMAIN s[i - 1] = Shape
      BY <2>1, StoredWhole
    <2>4. Keyed(w[i]) /\ Stored(w[i]) = s[i]
      BY <2>1, <2>2, <2>3, PlainWritten
    <2>5. AllShaped(s[i])
      BY <2>1, <2>2, <2>3, ShapeStays
    <2> QED BY <2>4, <2>5
  <1> HIDE DEF G
  <1>4. Len(ms) \in G
    BY <1>2, <1>3, Along
  <1> QED BY <1>1, <1>4 DEF G, Writes, Path

\* A critique of h and its tests, which the critique names.
CritiqueOf(h, ms) ==
  /\ Numbered(ms) /\ Len(ms) > 0
  /\ ms[1].kind = "CRITIQUE_CREATED" /\ ms[1].id = h
  /\ \A i \in 2..Len(ms) : ms[i].kind = "TEST_CREATED" /\ ms[i].test.hypothesis = h
  /\ ms[1].tests = {Draft(ms[i].test) : i \in 2..Len(ms)}

\* The tables after a critique and some of its tests: only critiques and tests have rows that are new.
Critiqued(W, r, h, m) ==
  LET T == tables
      p == State
  IN /\ DOMAIN W = TableShape /\ DOMAIN r = Shape /\ Whole(r)
     /\ W.records = T.records /\ W.candidateLinks = T.candidateLinks
     /\ W.evidenceLinks = T.evidenceLinks
     /\ W.hypotheses = T.hypotheses /\ W.claimLinks = T.claimLinks /\ W.questions = T.questions
     /\ W.revisions = T.revisions /\ W.deltas = T.deltas
     /\ W.queries = T.queries /\ W.results = T.results
     /\ W.critiques = Put(T.critiques, h, m.contradiction) /\ W.tests = r.tests
     /\ r.records = p.records /\ r.hypotheses = p.hypotheses /\ r.claimLinks = p.claimLinks
     /\ r.questions = p.questions /\ r.revisions = p.revisions /\ r.retrievals = p.retrievals
     /\ r.critiques = Put(p.critiques, h, [contradiction |-> m.contradiction, tests |-> m.tests])

\* The critique comes first.
LEMMA CritiqueFirst ==
  ASSUME Keyed(tables), NEW m, m.kind = "CRITIQUE_CREATED"
  PROVE  Critiqued(Write(tables, m), Applied(State, m), m.id, m)
  <1> DEFINE T == tables
             W == Write(T, m)
             p == State
             q == Applied(p, m)
  <1>1. /\ DOMAIN W = TableShape
        /\ W.critiques = Put(T.critiques, m.id, m.contradiction)
        /\ W.hypotheses = T.hypotheses /\ W.claimLinks = T.claimLinks /\ W.questions = T.questions
        /\ W.records = T.records /\ W.candidateLinks = T.candidateLinks
        /\ W.evidenceLinks = T.evidenceLinks /\ W.tests = T.tests
        /\ W.revisions = T.revisions /\ W.deltas = T.deltas
        /\ W.queries = T.queries /\ W.results = T.results
    BY DEF Write, Keyed, TableShape
  <1>2. DOMAIN p = Shape /\ Whole(p) /\ p.tests = T.tests
    BY StoredWhole, StoredIs DEF State
  <1>3. DOMAIN q = Shape /\ Whole(q)
    <2> HIDE DEF p
    <2> QED BY <1>2, AppliedWhole
  <1>4. /\ q.critiques = Put(p.critiques, m.id, [contradiction |-> m.contradiction, tests |-> m.tests])
        /\ q.hypotheses = p.hypotheses /\ q.claimLinks = p.claimLinks /\ q.questions = p.questions
        /\ q.records = p.records /\ q.tests = p.tests
        /\ q.revisions = p.revisions /\ q.retrievals = p.retrievals
    <2> HIDE DEF p
    <2> QED BY <1>2 DEF Applied, Shape
  <1> HIDE DEF W, q
  <1>5. Critiqued(W, q, m.id, m)
    BY <1>1, <1>2, <1>3, <1>4 DEF Critiqued
  <1> QED BY <1>5 DEF W, q

\* A test is added to both.
LEMMA TestNext ==
  ASSUME NEW W, NEW r, NEW h, NEW m, Critiqued(W, r, h, m), NEW t, t.kind = "TEST_CREATED"
  PROVE  Critiqued(Write(W, t), Applied(r, t), h, m)
  <1> DEFINE V == Write(W, t)
             q == Applied(r, t)
  <1>1. DOMAIN W = TableShape /\ DOMAIN r = Shape /\ Whole(r) /\ W.tests = r.tests
    BY DEF Critiqued
  <1>2. /\ DOMAIN V = TableShape
        /\ V.tests = Put(W.tests, t.id, t.test)
        /\ V.hypotheses = W.hypotheses /\ V.claimLinks = W.claimLinks /\ V.questions = W.questions
        /\ V.records = W.records /\ V.candidateLinks = W.candidateLinks
        /\ V.evidenceLinks = W.evidenceLinks /\ V.critiques = W.critiques
        /\ V.revisions = W.revisions /\ V.deltas = W.deltas
        /\ V.queries = W.queries /\ V.results = W.results
    BY <1>1 DEF Write, TableShape
  <1>3. DOMAIN q = Shape /\ Whole(q)
    BY <1>1, AppliedWhole
  <1>4. /\ q.tests = Put(r.tests, t.id, t.test)
        /\ q.hypotheses = r.hypotheses /\ q.claimLinks = r.claimLinks /\ q.questions = r.questions
        /\ q.records = r.records /\ q.critiques = r.critiques
        /\ q.revisions = r.revisions /\ q.retrievals = r.retrievals
    BY <1>1 DEF Applied, Shape
  <1> HIDE DEF V, q
  <1>5. Critiqued(V, q, h, m)
    BY <1>1, <1>2, <1>3, <1>4 DEF Critiqued
  <1> QED BY <1>5 DEF V, q

\* When all of its tests are there the critique reads back as what replay makes of it.
LEMMA CritiqueRead ==
  ASSUME Keyed(tables), NEW W, NEW q, NEW h, NEW m, Critiqued(W, q, h, m),
         ProposedIn(W, h) = m.tests, \A g : g # h => ProposedIn(W, g) = ProposedIn(tables, g)
  PROVE  Keyed(W) /\ Stored(W) = q
  <1> DEFINE T == tables
             p == Stored(T)
             new == [contradiction |-> m.contradiction, tests |-> m.tests]
  <1>1. /\ DOMAIN W = TableShape /\ DOMAIN q = Shape /\ Whole(q)
        /\ W.records = T.records /\ W.candidateLinks = T.candidateLinks
        /\ W.evidenceLinks = T.evidenceLinks
        /\ W.hypotheses = T.hypotheses /\ W.claimLinks = T.claimLinks /\ W.questions = T.questions
        /\ W.revisions = T.revisions /\ W.deltas = T.deltas
        /\ W.queries = T.queries /\ W.results = T.results
        /\ W.critiques = Put(T.critiques, h, m.contradiction) /\ W.tests = q.tests
        /\ q.records = p.records /\ q.hypotheses = p.hypotheses /\ q.claimLinks = p.claimLinks
        /\ q.questions = p.questions /\ q.revisions = p.revisions /\ q.retrievals = p.retrievals
        /\ q.critiques = Put(p.critiques, h, new)
    BY DEF Critiqued, State
  <1>2. Keyed(W)
    BY <1>1 DEF Keyed
  <1>3. Stored(W).critiques = q.critiques
    <2>1. DOMAIN W.critiques = DOMAIN T.critiques \cup {h}
      BY <1>1 DEF Put
    <2>2. CritiqueIn(W, h) = new
      <3>1. W.critiques[h] = m.contradiction
        BY <1>1 DEF Put
      <3> QED BY <3>1 DEF CritiqueIn
    <2>3. ASSUME NEW g \in DOMAIN T.critiques, g # h PROVE CritiqueIn(W, g) = CritiqueIn(T, g)
      <3>1. W.critiques[g] = T.critiques[g]
        BY <1>1, <2>3 DEF Put
      <3> QED BY <2>3, <3>1 DEF CritiqueIn
    <2>4. Stored(W).critiques = [g \in DOMAIN W.critiques |-> CritiqueIn(W, g)]
      BY StoredIs
    <2>5. p.critiques = [g \in DOMAIN T.critiques |-> CritiqueIn(T, g)]
      BY StoredIs
    <2> HIDE DEF p, new
    <2>6. DOMAIN p.critiques = DOMAIN T.critiques /\ \A g \in DOMAIN T.critiques : p.critiques[g] = CritiqueIn(T, g)
      BY <2>5
    <2>7. \A g \in DOMAIN W.critiques : CritiqueIn(W, g) = IF g = h THEN new ELSE p.critiques[g]
      BY <2>1, <2>2, <2>3, <2>6
    <2> QED BY <1>1, <2>1, <2>4, <2>6, <2>7 DEF Put
  <1>4. Stored(W) = q
    <2> HIDE DEF new
    <2>2. Stored(W).revisions = p.revisions
      BY <1>1, RevisionsRead
    <2>3. Stored(W).retrievals = p.retrievals
      BY <1>1, RetrievalsRead
    <2>4. Stored(W).records = p.records
      BY <1>1, RecordsRead
    <2>5. /\ Stored(W).hypotheses = W.hypotheses /\ Stored(W).claimLinks = W.claimLinks
          /\ Stored(W).questions = W.questions /\ Stored(W).tests = W.tests /\ Whole(Stored(W))
      BY StoredIs, StoredWhole
    <2>6. /\ p.hypotheses = T.hypotheses /\ p.claimLinks = T.claimLinks
          /\ p.questions = T.questions
      BY StoredIs
    <2> HIDE DEF p
    <2> QED BY <1>1, <1>3, <2>2, <2>3, <2>4, <2>5, <2>6, StateSame
  <1> QED BY <1>2, <1>4

\* A critique and its tests are read back together.
LEMMA CritiquePersists ==
  ASSUME NEW h, NEW ms, CritiqueOf(h, ms), NEW s, NEW q, Path(s, State, q, ms), Keyed(tables),
         \A i \in DOMAIN State.tests : State.tests[i].hypothesis # h
  PROVE  Keyed(Written(ms)) /\ Stored(Written(ms)) = q
  <1> DEFINE m == ms[1]
             n == Len(ms)
  <1>0. n \in Nat /\ n > 0 /\ 1 \in 1..n
    BY DEF CritiqueOf, Numbered
  <1>1. PICK w : Writes(w, ms)
    BY <1>0, WritesExist
  <1> DEFINE G == {i \in 0..n : i > 0 => Critiqued(w[i], s[i], h, m)}
  <1>2. 0 \in G
    BY <1>0
  <1>3. ASSUME NEW i \in 1..n, i - 1 \in G PROVE i \in G
    <2>1. w[i] = Write(w[i - 1], ms[i]) /\ s[i] = Applied(s[i - 1], ms[i])
      BY <1>1 DEF Writes, Path
    <2>2. CASE i = 1
      <3>1. w[0] = tables /\ s[0] = State
        BY <1>1 DEF Writes, Path
      <3>2. m.kind = "CRITIQUE_CREATED" /\ m.id = h
        BY DEF CritiqueOf
      <3>3. w[1] = Write(tables, m) /\ s[1] = Applied(State, m)
        BY <2>1, <2>2, <3>1
      <3> HIDE DEF m
      <3>4. Critiqued(w[1], s[1], h, m)
        BY <3>2, <3>3, CritiqueFirst
      <3> QED BY <2>2, <3>4
    <2>3. CASE i # 1
      <3>1. i \in 2..n /\ i - 1 > 0
        BY <2>3
      <3>2. ms[i].kind = "TEST_CREATED" /\ Critiqued(w[i - 1], s[i - 1], h, m)
        BY <1>3, <3>1 DEF CritiqueOf
      <3> HIDE DEF m
      <3>3. Critiqued(w[i], s[i], h, m)
        BY <2>1, <3>2, TestNext
      <3> QED BY <3>3
    <2> QED BY <2>2, <2>3
  <1>4. Critiqued(Written(ms), q, h, m)
    <2>1. n \in G
      <3> HIDE DEF G
      <3> QED BY <1>0, <1>2, <1>3, Along
    <2> QED BY <1>0, <1>1, <2>1 DEF Writes, Path
  <1>5. Designs(State, q, ms) /\ \A i \in 1..n : ms[i].kind = "TEST_CREATED" =>
          ms[i].id \in DOMAIN q.tests /\ q.tests[ms[i].id] = ms[i].test
    <2>1. DOMAIN State = Shape
      BY StoredWhole DEF State
    <2>2. \A i \in 1..n : ms[i].kind \in {"CRITIQUE_CREATED", "TEST_CREATED"}
      <3> SUFFICES ASSUME NEW i \in 1..n PROVE ms[i].kind \in {"CRITIQUE_CREATED", "TEST_CREATED"}
        OBVIOUS
      <3>1. i = 1 \/ i \in 2..n
        OBVIOUS
      <3> QED BY <3>1 DEF CritiqueOf
    <2> QED BY <1>0, <2>1, <2>2, TestsDesigned
  <1> DEFINE W == Written(ms)
  <1>6. W.tests = q.tests /\ State.tests = tables.tests
    BY <1>4, StoredIs DEF Critiqued, State
  <1> HIDE DEF W
  <1>7. ASSUME NEW j \in DOMAIN q.tests, q.tests[j].hypothesis # h
        PROVE  j \in DOMAIN State.tests /\ q.tests[j] = State.tests[j]
    <2>1. CASE j \notin DOMAIN State.tests
      <3>1. PICK i \in 1..n : ms[i].kind = "TEST_CREATED" /\ q.tests[j] = ms[i].test
        BY <1>5, <2>1 DEF Designs
      <3>2. i \in 2..n
        BY <1>0, <3>1 DEF CritiqueOf
      <3> QED BY <1>7, <3>1, <3>2 DEF CritiqueOf
    <2>2. CASE j \in DOMAIN State.tests
      BY <1>5, <2>2 DEF Designs
    <2> QED BY <2>1, <2>2
  <1>8. ASSUME NEW g, g # h PROVE ProposedIn(W, g) = ProposedIn(tables, g)
    <2>1. \A j \in DOMAIN State.tests : j \in DOMAIN q.tests /\ q.tests[j] = State.tests[j]
      BY <1>5 DEF Designs
    <2>2. {j \in DOMAIN q.tests : q.tests[j].hypothesis = g} = {j \in DOMAIN State.tests : State.tests[j].hypothesis = g}
      BY <1>7, <1>8, <2>1
    <2> QED BY <1>6, <2>1, <2>2 DEF ProposedIn
  <1>9. ProposedIn(W, h) = m.tests
    <2> DEFINE J == {j \in DOMAIN q.tests : q.tests[j].hypothesis = h}
    <2>1. ASSUME NEW j \in J PROVE \E i \in 2..n : q.tests[j] = ms[i].test
      <3>1. j \notin DOMAIN State.tests
        BY <1>5 DEF Designs
      <3>2. PICK i \in 1..n : ms[i].kind = "TEST_CREATED" /\ q.tests[j] = ms[i].test
        BY <1>5, <3>1 DEF Designs
      <3>3. i \in 2..n
        BY <1>0, <3>2 DEF CritiqueOf
      <3> QED BY <3>2, <3>3
    <2>2. ASSUME NEW i \in 2..n PROVE ms[i].id \in J /\ q.tests[ms[i].id] = ms[i].test
      <3>1. i \in 1..n /\ ms[i].kind = "TEST_CREATED" /\ ms[i].test.hypothesis = h
        BY DEF CritiqueOf
      <3> QED BY <1>5, <3>1
    <2>3. {Draft(q.tests[j]) : j \in J} = {Draft(ms[i].test) : i \in 2..n}
      <3> HIDE DEF J, n
      <3> QED BY <2>1, <2>2
    <2>4. ProposedIn(W, h) = {Draft(q.tests[j]) : j \in J}
      BY <1>6 DEF ProposedIn
    <2> QED BY <2>3, <2>4 DEF CritiqueOf
  <1> HIDE DEF m
  <1>10. Keyed(W) /\ Stored(W) = q
    BY <1>4, <1>8, <1>9, CritiqueRead DEF W
  <1> QED BY <1>10 DEF W

-----------------------------------------------------------------------------
(* What replay accepts: the results of each stage, for a state that has     *)
(* nothing of them yet.                                                     *)

\* Records for candidates of which there are none yet.
LEMMA RecordsAccepted ==
  ASSUME NEW p, DOMAIN p = Shape, NEW evidence, NEW kind, NEW B, NEW ms,
         RecordsHold(evidence, kind, B, ms),
         \A id \in DOMAIN p.records : id[1] = kind => id[2] \notin B
  PROVE  Replay(p, ms).ok
  <1> DEFINE n == Len(ms)
  <1>1. n \in Nat /\ DOMAIN ms = 1..n
    BY DEF RecordsHold, Numbered
  <1>2. PICK f : Run(f, p, ms)
    BY <1>1, RunExists
  <1> DEFINE K(i, r) == DOMAIN r = Shape /\ DOMAIN r.records = DOMAIN p.records \cup {ms[j].id : j \in 1..i}
             G == {i \in 0..n : K(i, f[i].state)}
  <1>3. 0 \in G
    BY <1>1, <1>2 DEF Run
  <1>4. ASSUME NEW i \in 1..n, i - 1 \in G
        PROVE  /\ Accepts(f[i - 1].state, ms[i])
               /\ f[i].state = Applied(f[i - 1].state, ms[i]) => i \in G
    <2> DEFINE r == f[i - 1].state
               m == ms[i]
    <2>1. K(i - 1, r)
      BY <1>4
    <2>2. /\ m.kind = "RECORD_CREATED" /\ m.id[1] = kind /\ m.id[2] \in m.sources /\ m.links # {}
          /\ m.sources \subseteq B
      BY <1>1 DEF RecordsHold
    <2>3. ASSUME NEW j \in 1..(i - 1) PROVE ms[j].id # m.id
      <3>1. j \in DOMAIN ms /\ j # i /\ i \in DOMAIN ms
        BY <1>1
      <3>2. ms[j].id[2] \in ms[j].sources /\ ms[j].sources \cap m.sources = {}
        BY <3>1 DEF RecordsHold
      <3> QED BY <2>2, <3>2
    <2>4. m.id \notin DOMAIN p.records
      BY <2>2
    <2>5. m.id \notin DOMAIN r.records
      BY <2>1, <2>3, <2>4
    <2>6. Accepts(r, m)
      BY <2>2, <2>5 DEF Accepts
    <2>7. K(i, Applied(r, m))
      <3> HIDE DEF r, m
      <3> DEFINE q == Applied(r, m)
      <3>4. /\ DOMAIN q = Shape
            /\ q.records = Put(r.records, m.id, [says |-> m.says, names |-> m.names,
                                                sources |-> m.sources, links |-> m.links])
        BY <2>1, <2>2, RecordEffect DEF Same
      <3> HIDE DEF q
      <3>5. DOMAIN q.records = DOMAIN r.records \cup {m.id}
        BY <3>4 DEF Put
      <3>1. DOMAIN Applied(r, m) = Shape /\ DOMAIN Applied(r, m).records = DOMAIN r.records \cup {m.id}
        BY <3>4, <3>5 DEF q
      <3>2. \A j : j \in 1..i <=> j \in 1..(i - 1) \/ j = i
        BY <1>1
      <3>3. {ms[j].id : j \in 1..i} = {ms[j].id : j \in 1..(i - 1)} \cup {m.id}
        BY <3>2 DEF m
      <3> QED BY <2>1, <3>1, <3>3
    <2> QED BY <2>6, <2>7
  <1> HIDE DEF G
  <1> QED BY <1>1, <1>2, <1>3, <1>4, RunGoes

\* Hypotheses where there are none.
LEMMA HypothesesAccepted ==
  ASSUME NEW p, DOMAIN p = Shape, NEW ms, HypothesesHold(Ids(p, "claim"), ms), DOMAIN p.hypotheses = {}
  PROVE  Replay(p, ms).ok
  <1> DEFINE n == Len(ms)
  <1>1. n \in Nat /\ DOMAIN ms = 1..n
    BY DEF HypothesesHold, Numbered
  <1>2. PICK f : Run(f, p, ms)
    BY <1>1, RunExists
  <1> DEFINE K(i, r) == DOMAIN r = Shape /\ r.records = p.records /\ DOMAIN r.hypotheses = {ms[j].id : j \in 1..i}
             G == {i \in 0..n : K(i, f[i].state)}
  <1>3. 0 \in G
    BY <1>1, <1>2 DEF Run
  <1>4. ASSUME NEW i \in 1..n, i - 1 \in G
        PROVE  /\ Accepts(f[i - 1].state, ms[i])
               /\ f[i].state = Applied(f[i - 1].state, ms[i]) => i \in G
    <2> DEFINE r == f[i - 1].state
               m == ms[i]
    <2>1. K(i - 1, r)
      BY <1>4
    <2>2. /\ m.kind = "HYPOTHESIS_CREATED" /\ m.confidence \in InitialConfidence
          /\ m.supporting \cup m.contradicting # {}
          /\ m.supporting \cup m.contradicting \subseteq Ids(p, "claim")
      BY <1>1 DEF HypothesesHold
    <2>3. ASSUME NEW j \in 1..(i - 1) PROVE ms[j].id # m.id
      <3>1. j \in DOMAIN ms /\ j # i /\ i \in DOMAIN ms
        BY <1>1
      <3> QED BY <3>1 DEF HypothesesHold
    <2>4. m.id \notin DOMAIN r.hypotheses
      BY <2>1, <2>3
    <2>5. Ids(r, "claim") = Ids(p, "claim")
      BY <2>1 DEF Ids
    <2>6. Accepts(r, m)
      BY <2>2, <2>4, <2>5 DEF Accepts
    <2>7. K(i, Applied(r, m))
      <3> HIDE DEF r, m
      <3> DEFINE q == Applied(r, m)
      <3>4. /\ DOMAIN q = Shape /\ q.records = r.records
            /\ q.hypotheses = Put(r.hypotheses, m.id, Opening(m))
        BY <2>1, <2>2, HypothesisEffect DEF Same
      <3> HIDE DEF q
      <3>5. DOMAIN q.hypotheses = DOMAIN r.hypotheses \cup {m.id}
        BY <3>4 DEF Put
      <3>1. /\ DOMAIN Applied(r, m) = Shape /\ Applied(r, m).records = r.records
            /\ DOMAIN Applied(r, m).hypotheses = DOMAIN r.hypotheses \cup {m.id}
        BY <3>4, <3>5 DEF q
      <3>2. \A j : j \in 1..i <=> j \in 1..(i - 1) \/ j = i
        BY <1>1
      <3>3. {ms[j].id : j \in 1..i} = {ms[j].id : j \in 1..(i - 1)} \cup {m.id}
        BY <3>2 DEF m
      <3> QED BY <2>1, <3>1, <3>3
    <2> QED BY <2>6, <2>7
  <1> HIDE DEF G
  <1> QED BY <1>1, <1>2, <1>3, <1>4, RunGoes

\* A single event.
LEMMA OneAccepted ==
  ASSUME NEW p, NEW ms, Len(ms) = 1, Accepts(p, ms[1])
  PROVE  Replay(p, ms).ok
  <1>1. PICK f : Run(f, p, ms)
    BY RunExists
  <1>2. f[0].state = p
    BY <1>1 DEF Run
  <1> DEFINE G == 0..1
  <1>3. ASSUME NEW i \in 1..Len(ms) PROVE Accepts(f[i - 1].state, ms[i]) /\ i \in G
    <2>1. i = 1 /\ i - 1 = 0
      OBVIOUS
    <2> QED BY <1>2, <2>1
  <1>4. 0 \in G /\ Len(ms) \in Nat
    OBVIOUS
  <1> HIDE DEF G
  <1> QED BY <1>1, <1>3, <1>4, RunGoes

\* No event.
LEMMA NoneAccepted ==
  ASSUME NEW p, NEW ms, Len(ms) = 0
  PROVE  Replay(p, ms).ok
  <1>1. Len(ms) \in Nat
    OBVIOUS
  <1>2. PICK f : Run(f, p, ms)
    BY <1>1, RunExists
  <1> QED BY <1>2 DEF Run

\* A search for k: a page of evidence, in which each item comes once.
SearchHolds(evidence, intent, k, ms) ==
  /\ Numbered(ms) /\ Len(ms) = 1
  /\ LET m == ms[1] IN
     /\ m.kind = "RETRIEVAL_COMPLETED" /\ m.id = <<intent, k>>
     /\ m.query.intent = intent /\ m.query.entities = {}
     /\ Len(m.results) <= m.query.limit /\ IsInjective(m.results)
     /\ \A n \in DOMAIN m.results : m.results[n] \in evidence

\* Replay accepts a search of a hypothesis that was not searched before.
LEMMA SearchAccepted ==
  ASSUME NEW p, NEW evidence, NEW intent, NEW k, NEW ms, SearchHolds(evidence, intent, k, ms),
         <<intent, k>> \notin DOMAIN p.retrievals, k \in DOMAIN p.hypotheses
  PROVE  Replay(p, ms).ok
  <1>1. Accepts(p, ms[1])
    BY DEF Accepts, SearchHolds
  <1> QED BY <1>1, OneAccepted DEF SearchHolds

\* What a search without filters finds.
LEMMA SearchesHold ==
  ASSUME world \in World, eligible \subseteq Pinned, NEW h, NEW ms \in Retrievals(h)
  PROVE  SearchHolds(Pinned, Intent, h, ms)
  <1>1. PICK text \in DOMAIN world.ranks : \E asked :
          ms = <<[kind |-> "RETRIEVAL_COMPLETED", id |-> <<Intent, h>>, query |-> Query(text),
                  results |-> Search(Query(text), Evidence, world.ranks[text], State.records),
                  questions |-> asked]>>
    BY DEF Retrievals
  <1> DEFINE q == Query(text)
             fts == world.ranks[text]
             S == {e \in DOMAIN Evidence : Matches(q, Evidence, fts, State.records, e)}
             found == Search(q, Evidence, fts, State.records)
  <1>2. /\ q.limit = PageSize /\ q.entities = {} /\ q.types = {} /\ q.timed = FALSE /\ q.intent = Intent
    BY DEF Query
  <1>3. /\ IsFiniteSet(DOMAIN Evidence) /\ DOMAIN Evidence \subseteq Nat
        /\ \A e \in DOMAIN Evidence : fts[e] \in Nat
    BY EvidenceIs
  <1> HIDE DEF q, fts
  <1>4. IsFiniteSet(S) /\ S \in SUBSET Int /\ S \subseteq DOMAIN Evidence
    BY <1>3, FS_Subset
  <1>5. RankedIn(q, S, fts, State.records)
    <2> HIDE DEF S
    <2>1. ASSUME NEW e \in S
          PROVE  /\ fts[e] \in Int /\ EntityScore(q, State.records, e) = 0
                 /\ TimeScore(q, State.records, e) = 0
      BY <1>2, <1>3, <1>4 DEF EntityScore, TimeScore
    <2>2. ASSUME NEW e \in S PROVE Total(q, fts, State.records, e) \in Int
      BY <1>2, <2>1 DEF Total
    <2> QED BY <2>1, <2>2 DEF RankedIn
  <1>6. q.limit \in Nat
    BY <1>2, PageAssumption
  <1>7. found = Page(q, S, fts, State.records)
    BY DEF Search
  <1> HIDE DEF S, found
  <1>8. BestOf(found, q, S, fts, State.records)
    BY <1>4, <1>5, <1>6, <1>7, PageIs
  <1>9. /\ ms[1].kind = "RETRIEVAL_COMPLETED" /\ ms[1].id = <<Intent, h>> /\ ms[1].query = q
        /\ ms[1].results = found /\ Numbered(ms) /\ Len(ms) = 1
    <2>1. PICK asked : ms = <<[kind |-> "RETRIEVAL_COMPLETED", id |-> <<Intent, h>>, query |-> q,
                              results |-> found, questions |-> asked]>>
      BY <1>1 DEF q, found, fts
    <2> QED BY <2>1 DEF Numbered
  <1>10. \A n \in DOMAIN found : found[n] \in Pinned
    BY <1>4, <1>8, EvidenceIs DEF BestOf
  <1> QED BY <1>2, <1>8, <1>9, <1>10 DEF SearchHolds, BestOf

\* The resolution of test t, number k.
ResolutionHolds(evidence, t, k, ms) ==
  /\ Numbered(ms) /\ Len(ms) = 1
  /\ LET m == ms[1] IN
     /\ m.kind = "TEST_RESOLVED" /\ m.id = k /\ m.draft = Draft(t)
     /\ m.status \in {"SUCCEEDED", "FAILED"} /\ m.outcome \in Outcome \cup {None}
     /\ m.status = "FAILED" <=> m.outcome = None
     /\ m.cited \subseteq evidence

\* Replay accepts the verdict on a test that is pending.
LEMMA ResolutionAccepted ==
  ASSUME NEW p, NEW evidence, NEW k \in DOMAIN p.tests, NEW ms,
         ResolutionHolds(evidence, p.tests[k], k, ms), p.tests[k].status = "PENDING"
  PROVE  Replay(p, ms).ok
  <1>1. Accepts(p, ms[1])
    BY DEF Accepts, ResolutionHolds
  <1> QED BY <1>1, OneAccepted DEF ResolutionHolds

\* execute_test comes to an outcome from the evidence of the test's scope.
LEMMA OutcomeIs ==
  ASSUME NEW t, t.type \in TestType, ~UsesModel(t), NEW evidence, NEW records
  PROVE  LET v == ExecuteTest(t, evidence, records) IN
         v.outcome \in Outcome /\ v.cited \subseteq Scope(t, evidence)
  <1>1. CASE t.type = "EVIDENCE_PRESENCE"
    <2>1. ExecuteTest(t, evidence, records) = EvidencePresence(t, evidence)
      BY <1>1 DEF ExecuteTest
    <2> QED BY <2>1 DEF EvidencePresence, Verdict, Outcome
  <1>2. CASE t.type = "TEMPORAL_CONSISTENCY"
    <2>1. ExecuteTest(t, evidence, records) = TemporalConsistency(t, evidence, records)
      BY <1>2 DEF ExecuteTest
    <2> DEFINE scope == Scope(t, evidence)
               cited == Cites(records[t.params.before], "CITED", scope)
                          \cup Cites(records[t.params.after], "CITED", scope)
    <2>2. cited \subseteq scope
      BY DEF Cites
    <2>3. TemporalConsistency(t, evidence, records) \in {Verdict(o, cited) : o \in Outcome}
      BY DEF TemporalConsistency, Outcome
    <2> QED BY <2>1, <2>2, <2>3 DEF Verdict
  <1>3. CASE t.type = "CLAIM_CONTRADICTION"
    <2>1. ExecuteTest(t, evidence, records) = ClaimContradiction(t, evidence, records)
      BY <1>3 DEF ExecuteTest
    <2> DEFINE scope == Scope(t, evidence)
               cited == UNION {Cites(records[c], "SUPPORTING", scope)
                                 \cup Cites(records[c], "CONTRADICTING", scope) : c \in t.claims}
    <2>2. cited \subseteq scope
      BY DEF Cites
    <2>3. ClaimContradiction(t, evidence, records) \in {Verdict(o, cited) : o \in Outcome}
      BY DEF ClaimContradiction, Outcome
    <2> QED BY <2>1, <2>2, <2>3 DEF Verdict
  <1> QED BY <1>1, <1>2, <1>3 DEF TestType, UsesModel

\* What the execution of a test may end with.
LEMMA ResolutionsHold ==
  ASSUME world \in World, eligible \subseteq Pinned,
         NEW k, State.tests[k].type \in TestType, State.tests[k].evidence \subseteq Pinned,
         NEW ms \in Executions(k)
  PROVE  ResolutionHolds(Pinned, State.tests[k], k, ms)
  <1> DEFINE t == Test(k)
  <1>1. t = State.tests[k]
    BY DEF Test
  <1>2. None \notin Outcome
    BY HypothesesAssumption DEF Outcome
  <1>3. Scope(t, Evidence) \subseteq Pinned
    BY <1>1, EvidenceIs DEF Scope
  <1>4. \E st, v : /\ ms = Resolution(k, st, v) /\ v.cited \subseteq Pinned
                   /\ \/ st = "SUCCEEDED" /\ v.outcome \in Outcome
                      \/ st = "FAILED" /\ v.outcome = None
    <2>1. CASE UsesModel(t)
      <3>1. CASE \E v \in SemanticVerdicts(t, Evidence) : ms = Resolution(k, "SUCCEEDED", v)
        <4>1. PICK v \in SemanticVerdicts(t, Evidence) : ms = Resolution(k, "SUCCEEDED", v)
          BY <3>1
        <4>2. v.outcome \in Outcome /\ v.cited \subseteq Pinned
          BY <1>3 DEF SemanticVerdicts
        <4> QED BY <4>1, <4>2
      <3>2. CASE ms = Resolution(k, "FAILED", Verdict(None, {}))
        BY <3>2 DEF Verdict
      <3> QED BY <2>1, <3>1, <3>2 DEF Executions
    <2>2. CASE ~UsesModel(t)
      <3> DEFINE v == ExecuteTest(t, Evidence, State.records)
      <3>1. ms = Resolution(k, "SUCCEEDED", v)
        BY <2>2 DEF Executions
      <3>2. v.outcome \in Outcome /\ v.cited \subseteq Scope(t, Evidence)
        BY <1>1, <2>2, OutcomeIs
      <3> HIDE DEF v
      <3> QED BY <1>3, <3>1, <3>2
    <2> QED BY <2>1, <2>2
  <1>5. PICK st, v : /\ ms = Resolution(k, st, v) /\ v.cited \subseteq Pinned
                     /\ \/ st = "SUCCEEDED" /\ v.outcome \in Outcome
                        \/ st = "FAILED" /\ v.outcome = None
    BY <1>4
  <1>6. /\ Numbered(ms) /\ Len(ms) = 1 /\ ms[1].kind = "TEST_RESOLVED" /\ ms[1].id = k
        /\ ms[1].draft = Draft(t) /\ ms[1].status = st /\ ms[1].outcome = v.outcome /\ ms[1].cited = v.cited
    BY <1>5 DEF Resolution, Numbered
  <1> QED BY <1>1, <1>2, <1>5, <1>6 DEF ResolutionHolds

\* A critique of h with at most nine tests, each proposed once, about records and evidence that are there.
TestProposed(evidence, p, h, m, i) ==
  /\ m.id = 10 * h + (i - 1) /\ i - 1 \in 1..9
  /\ DOMAIN m.test = TestShape /\ m.test.strength \in Strength /\ m.test.type \in TestType
  /\ m.test.status = "PENDING" /\ m.test.outcome = None /\ m.test.cited = {}
  /\ m.test.evidence \subseteq evidence /\ Resolvable(p, m.test)
CritiqueHolds(evidence, p, h, ms) ==
  /\ CritiqueOf(h, ms)
  /\ \A i \in 2..Len(ms) : TestProposed(evidence, p, h, ms[i], i)
  /\ \A i, j \in 2..Len(ms) : i # j => Draft(ms[i].test) # Draft(ms[j].test)

\* What a test refers to is in its draft.
LEMMA DraftResolvable ==
  ASSUME NEW p, NEW t
  PROVE  Resolvable(p, Draft(t)) <=> Resolvable(p, t)
  BY DEF Resolvable, Draft

\* Whether a test can be resolved depends on the records alone.
LEMMA RecordsResolve ==
  ASSUME NEW p, NEW q, q.records = p.records, NEW t
  PROVE  Resolvable(q, t) <=> Resolvable(p, t)
  BY DEF Resolvable, Ids

\* After the critique and its tests up to i.
Underway(p, r, h, ms, i) ==
  /\ DOMAIN r = Shape /\ r.records = p.records /\ r.hypotheses = p.hypotheses
  /\ i = 0 => r = p
  /\ i > 0 => h \in DOMAIN r.critiques /\ r.critiques[h].tests = ms[1].tests
  /\ DOMAIN r.tests = DOMAIN p.tests \cup {ms[j].id : j \in 2..i}
  /\ \A x \in DOMAIN p.tests : r.tests[x] = p.tests[x]
  /\ \A j \in 2..i : r.tests[ms[j].id] = ms[j].test

\* The critique itself.
LEMMA CritiqueTaken ==
  ASSUME NEW p, DOMAIN p = Shape, NEW evidence, NEW h \in DOMAIN p.hypotheses \ DOMAIN p.critiques, NEW ms,
         CritiqueHolds(evidence, p, h, ms)
  PROVE  Accepts(p, ms[1]) /\ Underway(p, Applied(p, ms[1]), h, ms, 1)
  <1> DEFINE m == ms[1]
             r == Applied(p, m)
  <1>1. m.kind = "CRITIQUE_CREATED" /\ m.id = h /\ m.tests = {Draft(ms[i].test) : i \in 2..Len(ms)}
    BY DEF CritiqueHolds, CritiqueOf
  <1>2. ASSUME NEW i \in 2..Len(ms) PROVE Resolvable(p, Draft(ms[i].test))
    BY DraftResolvable DEF CritiqueHolds, TestProposed
  <1>3. \A t \in m.tests : Resolvable(p, t)
    BY <1>1, <1>2
  <1>4. Accepts(p, m)
    BY <1>1, <1>3 DEF Accepts
  <1>5. /\ DOMAIN r = Shape /\ r.records = p.records /\ r.hypotheses = p.hypotheses /\ r.tests = p.tests
        /\ r.critiques = Put(p.critiques, h, [contradiction |-> m.contradiction, tests |-> m.tests])
    BY <1>1 DEF Applied, Shape
  <1> HIDE DEF r, m
  <1>6. h \in DOMAIN r.critiques /\ r.critiques[h].tests = m.tests
    BY <1>5 DEF Put
  <1>7. \A j : j \notin 2..1
    OBVIOUS
  <1>8. Underway(p, r, h, ms, 1)
    BY <1>5, <1>6, <1>7 DEF Underway, m
  <1> QED BY <1>4, <1>8 DEF r, m

\* Each of its tests.
LEMMA TestTaken ==
  ASSUME NEW p, DOMAIN p = Shape, NEW evidence, NEW h \in DOMAIN p.hypotheses, h \in Nat, NEW ms,
         CritiqueHolds(evidence, p, h, ms), NEW i \in 2..Len(ms), NEW r, Underway(p, r, h, ms, i - 1),
         \A x \in DOMAIN p.tests : p.tests[x].hypothesis # h /\ x \notin (10 * h + 1)..(10 * h + 9)
  PROVE  Accepts(r, ms[i]) /\ Underway(p, Applied(r, ms[i]), h, ms, i)
  <1> DEFINE m == ms[i]
             q == Applied(r, m)
  <1>1. Len(ms) \in Nat /\ i \in Nat /\ i - 1 > 0
    BY DEF CritiqueHolds, CritiqueOf, Numbered
  <1>2. ASSUME NEW j \in 2..Len(ms)
        PROVE  /\ ms[j].kind = "TEST_CREATED" /\ ms[j].test.hypothesis = h
               /\ TestProposed(evidence, p, h, ms[j], j) /\ ms[j].id = 10 * h + (j - 1)
               /\ ms[j].id \in (10 * h + 1)..(10 * h + 9) /\ ms[j].id \notin DOMAIN p.tests
    <2>1. ms[j].kind = "TEST_CREATED" /\ ms[j].test.hypothesis = h /\ TestProposed(evidence, p, h, ms[j], j)
      BY DEF CritiqueHolds, CritiqueOf
    <2>2. ms[j].id = 10 * h + (j - 1) /\ j - 1 \in 1..9
      BY <2>1 DEF TestProposed
    <2>3. ms[j].id \in (10 * h + 1)..(10 * h + 9)
      BY <2>2
    <2> QED BY <2>1, <2>2, <2>3
  <1>3. ASSUME NEW j \in 2..(i - 1)
        PROVE  j \in 2..Len(ms) /\ ms[j].id # m.id /\ Draft(ms[j].test) # Draft(m.test)
    <2>1. j \in 2..Len(ms) /\ j # i
      BY <1>1
    <2>2. ms[j].id = 10 * h + (j - 1) /\ m.id = 10 * h + (i - 1)
      BY <1>2, <2>1
    <2>3. ms[j].id # m.id
      BY <1>1, <2>1, <2>2
    <2> QED BY <2>1, <2>3 DEF CritiqueHolds
  <1>4. m.id \notin DOMAIN r.tests
    BY <1>2, <1>3 DEF Underway
  <1>5. \A x \in DOMAIN TestsOf(r, h) : Draft(r.tests[x]) # Draft(m.test)
    <2>1. ASSUME NEW x \in DOMAIN TestsOf(r, h) PROVE Draft(r.tests[x]) # Draft(m.test)
      <3>1. x \in DOMAIN r.tests /\ r.tests[x].hypothesis = h
        BY DEF TestsOf
      <3>2. x \notin DOMAIN p.tests
        BY <3>1 DEF Underway
      <3>3. PICK j \in 2..(i - 1) : x = ms[j].id
        BY <3>1, <3>2 DEF Underway
      <3>4. r.tests[x] = ms[j].test
        BY <3>3 DEF Underway
      <3> QED BY <1>3, <3>4
    <2> QED BY <2>1
  <1>6. Draft(m.test) \in r.critiques[h].tests /\ h \in DOMAIN r.critiques
    <2>1. ms[1].tests = {Draft(ms[j].test) : j \in 2..Len(ms)}
      BY DEF CritiqueHolds, CritiqueOf
    <2>2. Draft(m.test) \in ms[1].tests
      BY <2>1
    <2> QED BY <1>1, <2>2 DEF Underway
  <1>7. Resolvable(r, m.test)
    BY <1>2, RecordsResolve DEF TestProposed, Underway
  <1>8. Accepts(r, m)
    BY <1>2, <1>4, <1>5, <1>6, <1>7 DEF Accepts, TestProposed, Underway
  <1>9. /\ DOMAIN q = Shape /\ q.records = r.records /\ q.hypotheses = r.hypotheses
        /\ q.critiques = r.critiques /\ q.tests = Put(r.tests, m.id, m.test)
    BY <1>2 DEF Applied, Shape, Underway
  <1> HIDE DEF q
  <1>10. /\ DOMAIN q.tests = DOMAIN r.tests \cup {m.id} /\ q.tests[m.id] = m.test
         /\ \A x \in DOMAIN r.tests : q.tests[x] = r.tests[x]
    BY <1>4, <1>9 DEF Put
  <1>11. \A j : j \in 2..i <=> j \in 2..(i - 1) \/ j = i
    BY <1>1
  <1>12. {ms[j].id : j \in 2..i} = {ms[j].id : j \in 2..(i - 1)} \cup {m.id}
    BY <1>11
  <1>13. DOMAIN q.tests = DOMAIN p.tests \cup {ms[j].id : j \in 2..i}
    BY <1>10, <1>12 DEF Underway
  <1>14. ASSUME NEW j \in 2..i PROVE q.tests[ms[j].id] = ms[j].test
    <2>1. CASE j = i
      BY <1>10, <2>1
    <2>2. CASE j \in 2..(i - 1)
      <3>1. ms[j].id \in DOMAIN r.tests /\ r.tests[ms[j].id] = ms[j].test
        BY <2>2 DEF Underway
      <3> QED BY <1>10, <3>1
    <2> QED BY <1>11, <2>1, <2>2
  <1>15. \A x \in DOMAIN p.tests : q.tests[x] = p.tests[x]
    BY <1>10 DEF Underway
  <1>16. Underway(p, q, h, ms, i)
    BY <1>1, <1>9, <1>13, <1>14, <1>15 DEF Underway
  <1> QED BY <1>8, <1>16 DEF q

\* Replay accepts the critique of a hypothesis that has none, with the tests that it proposes.
LEMMA CritiqueAccepted ==
  ASSUME NEW p, DOMAIN p = Shape, NEW evidence, NEW h \in DOMAIN p.hypotheses \ DOMAIN p.critiques, h \in Nat,
         NEW ms, CritiqueHolds(evidence, p, h, ms),
         \A x \in DOMAIN p.tests : p.tests[x].hypothesis # h /\ x \notin (10 * h + 1)..(10 * h + 9)
  PROVE  Replay(p, ms).ok
  <1> DEFINE n == Len(ms)
  <1>1. n \in Nat /\ n > 0
    BY DEF CritiqueHolds, CritiqueOf, Numbered
  <1>2. PICK f : Run(f, p, ms)
    BY <1>1, RunExists
  <1> DEFINE G == {i \in 0..n : Underway(p, f[i].state, h, ms, i)}
  <1>3. 0 \in G
    <2>1. f[0].state = p /\ 0 \in 0..n /\ \A j : j \notin 2..0
      BY <1>1, <1>2 DEF Run
    <2> QED BY <2>1 DEF Underway
  <1>4. ASSUME NEW i \in 1..n, i - 1 \in G
        PROVE  /\ Accepts(f[i - 1].state, ms[i])
               /\ f[i].state = Applied(f[i - 1].state, ms[i]) => i \in G
    <2> DEFINE r == f[i - 1].state
    <2>1. Underway(p, r, h, ms, i - 1) /\ i \in 0..n
      BY <1>1, <1>4
    <2>2. CASE i = 1
      <3>1. r = p
        BY <2>1, <2>2 DEF Underway
      <3> QED BY <2>1, <2>2, <3>1, CritiqueTaken
    <2>3. CASE i \in 2..n
      <3>1. Accepts(r, ms[i]) /\ Underway(p, Applied(r, ms[i]), h, ms, i)
        BY <2>1, <2>3, TestTaken
      <3> QED BY <2>1, <3>1
    <2> QED BY <1>1, <2>2, <2>3
  <1> HIDE DEF G
  <1> QED BY <1>1, <1>2, <1>3, <1>4, RunGoes

\* What the critic may answer: tests about what it was shown.
LEMMA CritiquesHold ==
  ASSUME world \in World, NEW h \in Nat, NEW ms \in Critiques(h), Relevant(h) \subseteq Pinned
  PROVE  CritiqueHolds(Pinned, State, h, ms)
  <1> DEFINE Create(c, i) == [kind |-> "TEST_CREATED", id |-> 10 * h + i,
                              test |-> Proposed(h, c.tests[i])]
             Review(c) == [kind |-> "CRITIQUE_CREATED", id |-> h, contradiction |-> c.contradiction,
                           tests |-> ToSet(c.tests)]
  <1>1. PICK c \in world.critiques :
              /\ Citable(c, Relevant(h), Ids(State, "claim"), Ids(State, "timeline"))
              /\ ms = <<Review(c)>> \o [i \in DOMAIN c.tests |-> Create(c, i)]
    BY DEF Critiques
  <1> DEFINE n == Len(c.tests)
             b == [i \in DOMAIN c.tests |-> Create(c, i)]
  <1>2. /\ n \in Nat /\ DOMAIN c.tests = 1..n
        /\ \A i \in 1..n : /\ c.tests[i] = Draft(c.tests[i]) /\ c.tests[i].type \in TestType
                           /\ c.tests[i].strength \in Strength
    BY WorldAssumption DEF Numbered
  <1>3. n \in 1..9
    <2>1. n \in 1..MaxTests
      BY <1>1 DEF Citable
    <2>2. MaxTests \in 1..9
      BY HypothesesAssumption
    <2> HIDE DEF n
    <2> QED BY <2>1, <2>2
  <1> HIDE DEF n
  <1>4. /\ Numbered(ms) /\ Len(ms) = n + 1 /\ ms[1] = Review(c)
        /\ \A i \in 2..(n + 1) : ms[i] = Create(c, i - 1)
    <2> DEFINE M == {Review(c)} \cup {Create(c, i) : i \in 1..n}
               a == <<Review(c)>>
    <2>1. a \in Seq(M) /\ b \in Seq(M) /\ Len(a) = 1 /\ Len(b) = n /\ a[1] = Review(c)
      BY <1>2 DEF n
    <2>2. \A i \in 1..n : b[i] = Create(c, i)
      BY <1>2
    <2>3. ms = a \o b
      BY <1>1
    <2> HIDE DEF M, a, b
    <2>4. /\ Numbered(ms) /\ Len(ms) = n + 1 /\ ms[1] = a[1]
          /\ \A i \in 2..(n + 1) : ms[i] = b[i - 1]
      <3>0. /\ a \o b \in Seq(M) /\ Len(a \o b) = Len(a) + Len(b)
            /\ \A i \in 1..(Len(a) + Len(b)) : (a \o b)[i] = IF i <= Len(a) THEN a[i] ELSE b[i - Len(a)]
        BY <2>1, ConcatProperties
      <3>1. ms \in Seq(M) /\ Len(ms) = 1 + n
        BY <2>1, <2>3, <3>0, Zenon
      <3>2. Len(ms) = n + 1 /\ DOMAIN ms = 1..Len(ms) /\ Len(ms) \in Nat
        BY <1>3, <3>1
      <3>3. \A i \in 1..(1 + n) : ms[i] = IF i <= 1 THEN a[i] ELSE b[i - 1]
        BY <2>1, <2>3, <3>0, Zenon
      <3> QED BY <1>3, <3>2, <3>3 DEF Numbered
    <2>5. \A i \in 2..(n + 1) : i - 1 \in 1..n
      BY <1>3
    <2> QED BY <2>1, <2>2, <2>4, <2>5
  <1>5. ASSUME NEW i \in 2..(n + 1)
        PROVE  /\ ms[i].kind = "TEST_CREATED" /\ ms[i].id = 10 * h + (i - 1)
               /\ ms[i].test = Proposed(h, c.tests[i - 1]) /\ i - 1 \in 1..n
               /\ Draft(ms[i].test) = c.tests[i - 1]
    <2>0. i - 1 \in 1..n
      BY <1>3
    <2>1. ms[i] = Create(c, i - 1) /\ i - 1 \in 1..n
      BY <1>4, <2>0, Zenon
    <2>2. ms[i].test = Proposed(h, c.tests[i - 1])
      BY <2>1
    <2>3. Draft(Proposed(h, c.tests[i - 1])) = Draft(c.tests[i - 1])
      BY DEF Draft, Proposed
    <2> QED BY <1>2, <2>1, <2>2, <2>3
  <1>6. ms[1].kind = "CRITIQUE_CREATED" /\ ms[1].id = h /\ ms[1].tests = {c.tests[i] : i \in 1..n}
    BY <1>2, <1>4 DEF ToSet, n
  <1> HIDE DEF b, Create, Review
  <1>7. ms[1].tests = {Draft(ms[i].test) : i \in 2..Len(ms)}
    <2>1. ASSUME NEW i \in 1..n PROVE \E j \in 2..Len(ms) : c.tests[i] = Draft(ms[j].test)
      <3>1. i + 1 \in 2..(n + 1) /\ (i + 1) - 1 = i
        BY <1>3
      <3> QED BY <1>4, <1>5, <3>1
    <2>2. ASSUME NEW j \in 2..Len(ms) PROVE \E i \in 1..n : c.tests[i] = Draft(ms[j].test)
      BY <1>4, <1>5
    <2> QED BY <1>6, <2>1, <2>2
  <1>8. \A i \in 2..Len(ms) : ms[i].kind = "TEST_CREATED" /\ ms[i].test.hypothesis = h
    <2> SUFFICES ASSUME NEW i \in 2..Len(ms) PROVE ms[i].kind = "TEST_CREATED" /\ ms[i].test.hypothesis = h
      OBVIOUS
    <2>1. i \in 2..(n + 1)
      BY <1>4
    <2>2. ms[i].kind = "TEST_CREATED" /\ ms[i].test = Proposed(h, c.tests[i - 1])
      BY <1>5, <2>1
    <2> QED BY <2>2 DEF Proposed
  <1>12. Len(ms) > 0
    BY <1>3, <1>4
  <1>9. CritiqueOf(h, ms)
    BY <1>4, <1>6, <1>7, <1>8, <1>12 DEF CritiqueOf
  <1>10. ASSUME NEW i \in 2..Len(ms) PROVE TestProposed(Pinned, State, h, ms[i], i)
    <2> DEFINE t == c.tests[i - 1]
    <2>1. /\ ms[i].id = 10 * h + (i - 1) /\ ms[i].test = Proposed(h, t) /\ i - 1 \in 1..n
          /\ t.type \in TestType /\ t.strength \in Strength
      BY <1>2, <1>4, <1>5
    <2>2. KnownReferences(t, Relevant(h), Ids(State, "claim"), Ids(State, "timeline"))
      BY <1>1, <1>2, <2>1 DEF Citable, n
    <2> HIDE DEF t
    <2>3. /\ t.evidence \subseteq Pinned /\ t.claims \subseteq Ids(State, "claim")
          /\ t.type = "TEMPORAL_CONSISTENCY" =>
               {t.params.before, t.params.after} \subseteq Ids(State, "timeline")
      BY <2>2 DEF KnownReferences, KnownEvents
    <2>4. i - 1 \in 1..9
      BY <1>3, <2>1
    <2> QED BY <2>1, <2>3, <2>4 DEF TestProposed, Proposed, TestShape, Resolvable
  <1>11. ASSUME NEW i \in 2..Len(ms), NEW j \in 2..Len(ms), i # j PROVE Draft(ms[i].test) # Draft(ms[j].test)
    <2>1. i - 1 \in 1..n /\ j - 1 \in 1..n /\ i - 1 # j - 1
      <3>1. i \in 2..(n + 1) /\ j \in 2..(n + 1)
        BY <1>4
      <3> QED BY <1>3, <1>11, <3>1
    <2>2. c.tests[i - 1] # c.tests[j - 1]
      BY <1>1, <1>2, <2>1 DEF Citable
    <2> QED BY <1>4, <1>5, <2>2
  <1> QED BY <1>9, <1>10, <1>11 DEF CritiqueHolds

\* What the critic is shown is pinned.
LEMMA RelevantPinned ==
  ASSUME NEW h, <<"CONTRADICT", h>> \in DOMAIN State.retrievals,
         \A id \in DOMAIN State.records : EvidenceOf(State.records[id].links) \subseteq Pinned,
         \A l \in State.claimLinks : l[2] \in DOMAIN State.records,
         \A id \in DOMAIN State.retrievals : \A r \in State.retrievals[id].results : r[1] \in Pinned
  PROVE  Relevant(h) \subseteq Pinned
  <1> DEFINE claims == {l[2] : l \in {k \in State.claimLinks : k[1] = h}}
  <1>1. claims \cup Ids(State, "timeline") \subseteq DOMAIN State.records
    BY DEF Ids
  <1>2. UNION {EvidenceOf(State.records[id].links) : id \in claims \cup Ids(State, "timeline")} \subseteq Pinned
    BY <1>1
  <1>3. {r[1] : r \in State.retrievals[<<"CONTRADICT", h>>].results} \subseteq Pinned
    OBVIOUS
  <1> QED BY <1>2, <1>3 DEF Relevant

-----------------------------------------------------------------------------
(* The revision.                                                            *)

\* The ids of a set from the lowest.
LEMMA AscendingIs ==
  ASSUME NEW S \in SUBSET Int, IsFiniteSet(S)
  PROVE  LET c == Ascending(S) IN
         /\ Len(c) \in Nat /\ DOMAIN c = 1..Len(c) /\ \A n \in DOMAIN c : c[n] \in S
         /\ IsInjective(c) /\ \A i \in S : \E n \in DOMAIN c : c[n] = i
  <1> DEFINE R == {p \in S \X S : p[1] < p[2]}
             N == Cardinality(S)
             Rank(i) == Cardinality({j \in S : j < i})
             c == Ascending(S)
  <1>1. \A a, b \in S : <<a, b>> \in R <=> a < b
    OBVIOUS
  <1> HIDE DEF R
  <1>2. StrictOrder(S, R)
    BY <1>1 DEF StrictOrder
  <1>3. \A i \in S : {j \in S : j < i} = {x \in S : <<x, i>> \in R}
    BY <1>1
  <1>4. \A i \in S : RankIn(S, R, i) = Rank(i)
    BY <1>3 DEF RankIn
  <1>5. /\ \A i \in S : Rank(i) \in 0..N - 1
        /\ \A a, b \in S : <<a, b>> \in R => Rank(a) < Rank(b)
        /\ \A n \in 0..N - 1 : \E i \in S : Rank(i) = n
    <2>1. RanksAre(S, R)
      BY <1>2, RanksFill
    <2> HIDE DEF Rank
    <2> QED BY <1>4, <2>1 DEF RanksAre
  <1>6. N \in Nat
    BY FS_CardinalityType
  <1>7. c = [n \in 1..N |-> CHOOSE i \in S : Rank(i) = n - 1]
    BY DEF Ascending
  <1> HIDE DEF N, Rank, c
  <1>8. ASSUME NEW n \in 1..N PROVE c[n] \in S /\ Rank(c[n]) = n - 1
    <2>1. n - 1 \in 0..N - 1
      BY <1>6
    <2>2. \E i \in S : Rank(i) = n - 1
      BY <1>5, <2>1
    <2> QED BY <1>7, <2>2
  <1>9. DOMAIN c = 1..N /\ Len(c) = N
    BY <1>6, <1>7
  <1>10. IsInjective(c)
    <2> SUFFICES ASSUME NEW i \in 1..N, NEW j \in 1..N, c[i] = c[j] PROVE i = j
      BY <1>9 DEF IsInjective
    <2>1. i - 1 = j - 1 /\ i \in Int /\ j \in Int
      BY <1>6, <1>8
    <2> QED BY <2>1
  <1>11. ASSUME NEW i \in S PROVE \E n \in 1..N : c[n] = i
    <2>1. Rank(i) + 1 \in 1..N /\ (Rank(i) + 1) - 1 = Rank(i)
      BY <1>5, <1>6
    <2>2. c[Rank(i) + 1] \in S /\ Rank(c[Rank(i) + 1]) = Rank(i)
      BY <1>8, <2>1
    <2>3. c[Rank(i) + 1] = i
      <3> SUFFICES ASSUME c[Rank(i) + 1] # i PROVE FALSE
        OBVIOUS
      <3>1. Rank(i) < Rank(i)
        BY <1>2, <1>5, <2>2 DEF StrictOrder
      <3> QED BY <1>5, <3>1
    <2> QED BY <2>1, <2>3
  <1> QED BY <1>6, <1>8, <1>9, <1>10, <1>11 DEF c

IsTotal(f, ds) == f = [n \in 0..Len(ds) |-> IF n = 0 THEN 0 ELSE f[n - 1] + ds[n]]

\* A sum of a sequence of integers is reached in as many rounds as it has terms, each an integer.
LEMMA TotalExists ==
  ASSUME NEW ds, Len(ds) \in Nat, \A n \in 1..Len(ds) : ds[n] \in Int
  PROVE  \E f \in [0..Len(ds) -> Int] : IsTotal(f, ds) /\ Sum(ds) = f[Len(ds)]
  <1> DEFINE N == Len(ds)
             F == [x \in Nat \X Int |-> x[2] + (IF x[1] \in 1..N THEN ds[x[1]] ELSE 0)]
  <1>1. F \in [Nat \X Int -> Int]
    OBVIOUS
  <1>2. PICK f : IsLoop(f, Int, 0, F, N)
    <2>1. N \in Nat /\ 0 \in Int
      OBVIOUS
    <2> HIDE DEF F, N
    <2> QED BY <1>1, <2>1, Recursion
  <1>3. f \in [0..N -> Int] /\ f[0] = 0 /\ \A n \in 1..N : f[n] = F[<<n, f[n - 1]>>]
    BY <1>2 DEF IsLoop
  <1>4. ASSUME NEW n \in 1..N PROVE f[n] = f[n - 1] + ds[n]
    <2>1. n - 1 \in 0..N
      OBVIOUS
    <2>2. <<n, f[n - 1]>> \in Nat \X Int
      BY <1>3, <2>1
    <2> QED BY <1>3, <2>2
  <1>5. \A n \in 0..N : n = 0 \/ n \in 1..N
    OBVIOUS
  <1> HIDE DEF F
  <1>6. IsTotal(f, ds)
    BY <1>3, <1>4, <1>5 DEF IsTotal
  <1>7. \E g : IsTotal(g, ds)
    BY <1>6
  <1> DEFINE g == CHOOSE g : IsTotal(g, ds)
  <1>8. IsTotal(g, ds) /\ Sum(ds) = g[N]
    BY <1>7 DEF Sum, IsTotal
  <1> HIDE DEF g
  <1>9. \A n \in 0..N : g[n] \in Int
    <2>1. g[0] = 0 /\ \A n \in 1..N : g[n] = g[n - 1] + ds[n]
      <3>1. \A n \in 0..N : g[n] = IF n = 0 THEN 0 ELSE g[n - 1] + ds[n]
        BY <1>8 DEF IsTotal
      <3> QED BY <3>1
    <2>2. Stays(g, Int, N)
      BY <2>1 DEF Stays
    <2> HIDE DEF N
    <2> QED BY <2>2, LoopStays DEF N
  <1>10. g \in [0..N -> Int]
    BY <1>8, <1>9 DEF IsTotal
  <1> QED BY <1>8, <1>10

\* Amounts that are added one after the other add up to their sum.
LEMMA SumIs ==
  ASSUME NEW ds, Len(ds) \in Nat, \A n \in 1..Len(ds) : ds[n] \in Int,
         NEW c, DOMAIN c = 1..Len(ds), IsInjective(c)
  PROVE  Sum(ds) = SumOf({<<c[n], ds[n]>> : n \in 1..Len(ds)}) /\ Sum(ds) \in Int
  <1> DEFINE N == Len(ds)
             D(m) == {<<c[n], ds[n]>> : n \in 1..m}
  <1>1. PICK f \in [0..N -> Int] : IsTotal(f, ds) /\ Sum(ds) = f[N]
    BY TotalExists
  <1>2. f[0] = 0 /\ \A n \in 1..N : f[n] = f[n - 1] + ds[n]
    <2>1. \A n \in 0..N : f[n] = IF n = 0 THEN 0 ELSE f[n - 1] + ds[n]
      BY <1>1 DEF IsTotal
    <2> QED BY <2>1
  <1>3. ASSUME NEW m \in 0..N PROVE Amounts(D(m))
    <2> DEFINE g == [n \in 1..m |-> <<c[n], ds[n]>>]
    <2>1. IsFiniteSet(1..m)
      BY FS_Interval
    <2>2. IsFiniteSet({g[n] : n \in 1..m})
      BY <2>1, ImageFinite
    <2>3. D(m) = {g[n] : n \in 1..m}
      OBVIOUS
    <2>4. \A d \in D(m) : d[2] \in Int
      OBVIOUS
    <2> QED BY <2>2, <2>3, <2>4 DEF Amounts
  <1> DEFINE T == {m \in Nat : m <= N => f[m] = SumOf(D(m))}
  <1>4. 0 \in T
    <2>1. D(0) = {} /\ Amounts(D(0))
      BY <1>3
    <2> QED BY <1>2, <2>1, SumPick
  <1>5. ASSUME NEW m \in T PROVE m + 1 \in T
    <2> SUFFICES ASSUME m + 1 <= N PROVE f[m + 1] = SumOf(D(m + 1))
      OBVIOUS
    <2> DEFINE d == <<c[m + 1], ds[m + 1]>>
    <2>1. m + 1 \in 1..N /\ m + 1 \in 0..N /\ (m + 1) - 1 = m /\ f[m] = SumOf(D(m))
      OBVIOUS
    <2>2. d \in D(m + 1) /\ d[2] = ds[m + 1]
      OBVIOUS
    <2>3. D(m + 1) \ {d} = D(m)
      <3>1. ASSUME NEW n \in 1..m PROVE n \in 1..(m + 1) /\ <<c[n], ds[n]>> # d
        <4>1. n \in 1..N /\ n # m + 1
          BY <2>1
        <4>2. c[n] # c[m + 1]
          BY <2>1, <4>1 DEF IsInjective
        <4> QED BY <4>2
      <3>2. ASSUME NEW n \in 1..(m + 1) PROVE n \in 1..m \/ <<c[n], ds[n]>> = d
        OBVIOUS
      <3> QED BY <3>1, <3>2
    <2>4. Amounts(D(m + 1))
      BY <1>3, <2>1
    <2> HIDE DEF d, D
    <2>5. SumOf(D(m + 1)) = d[2] + SumOf(D(m))
      BY <2>2, <2>3, <2>4, SumAny
    <2>6. f[m + 1] = f[m] + ds[m + 1] /\ f[m] \in Int /\ ds[m + 1] \in Int
      BY <1>1, <1>2, <2>1
    <2> QED BY <2>1, <2>2, <2>5, <2>6
  <1>6. T = Nat
    <2> HIDE DEF T
    <2> QED BY <1>4, <1>5, SetInduction DEF T
  <1>7. N \in T
    BY <1>6
  <1> HIDE DEF D
  <1>8. Sum(ds) = SumOf(D(N))
    BY <1>1, <1>7
  <1> QED BY <1>1, <1>8 DEF D

\* A confidence that is clamped is one that a revision may leave.
LEMMA ClampIn ==
  ASSUME NEW x \in Int
  PROVE  Clamp(x) \in RevisedConfidence
  <1>1. ASSUME NEW a \in Int, NEW b \in Int
        PROVE  Min({a, b}) = (IF a <= b THEN a ELSE b) /\ Max({a, b}) = (IF a >= b THEN a ELSE b)
    BY DEF Min, Max
  <1>2. Clamp(x) = IF x > 9500 THEN 9500 ELSE IF x < 500 THEN 500 ELSE x
    BY <1>1 DEF Clamp
  <1> QED BY <1>2 DEF RevisedConfidence

\* revise_confidence: the deltas of the tests that succeeded, their sum, and what it leaves.
LEMMA RevisionCounts ==
  ASSUME NEW tests, NEW K \in SUBSET Int, IsFiniteSet(K), DOMAIN tests = K, \A k \in K : Graded(tests[k]),
         NEW before \in Int
  PROVE  LET r == ReviseConfidence(before, tests) IN
         /\ DOMAIN r = {"before", "delta", "after", "deltas"}
         /\ r.before = before /\ r.deltas = Deltas(tests, K) /\ r.delta = SumOf(Deltas(tests, K))
         /\ r.after = Clamp(before + SumOf(Deltas(tests, K)))
  <1> DEFINE S == {i \in DOMAIN tests : tests[i].status = "SUCCEEDED"}
             c == Ascending(S)
             worth(i) == Weight[tests[i].outcome][tests[i].strength]
             ds == [n \in DOMAIN c |-> worth(c[n])]
             r == ReviseConfidence(before, tests)
  <1>1. S \in SUBSET Int /\ IsFiniteSet(S) /\ S = {k \in K : tests[k].status = "SUCCEEDED"}
    <2>1. S \subseteq K
      OBVIOUS
    <2> QED BY <2>1, FS_Subset
  <1>2. \A i \in S : worth(i) \in Int
    BY WeightsGrow DEF Graded
  <1>3. /\ DOMAIN r = {"before", "delta", "after", "deltas"}
        /\ r.before = before /\ r.delta = Sum(ds) /\ r.after = Clamp(before + Sum(ds))
        /\ r.deltas = {<<c[n], ds[n]>> : n \in DOMAIN c}
    BY DEF ReviseConfidence, ClampedSum
  <1> HIDE DEF S, c, worth, r
  <1>4. /\ Len(c) \in Nat /\ DOMAIN c = 1..Len(c) /\ \A n \in DOMAIN c : c[n] \in S
        /\ IsInjective(c) /\ \A i \in S : \E n \in DOMAIN c : c[n] = i
    BY <1>1, AscendingIs DEF c
  <1>5. Len(ds) = Len(c) /\ \A n \in 1..Len(ds) : ds[n] = worth(c[n]) /\ ds[n] \in Int
    <2>1. DOMAIN ds = 1..Len(c) /\ \A n \in 1..Len(c) : ds[n] = worth(c[n])
      BY <1>4
    <2>2. Len(ds) = Len(c)
      BY <1>4
    <2> QED BY <1>2, <1>4, <2>1, <2>2
  <1> HIDE DEF ds
  <1>6. Sum(ds) = SumOf({<<c[n], ds[n]>> : n \in 1..Len(ds)})
    BY <1>4, <1>5, SumIs
  <1>7. {<<c[n], ds[n]>> : n \in 1..Len(ds)} = {<<i, worth(i)>> : i \in S}
    <2>1. ASSUME NEW n \in 1..Len(ds) PROVE \E i \in S : <<c[n], ds[n]>> = <<i, worth(i)>>
      BY <1>4, <1>5
    <2>2. ASSUME NEW i \in S PROVE \E n \in 1..Len(ds) : <<c[n], ds[n]>> = <<i, worth(i)>>
      <3>1. PICK n \in DOMAIN c : c[n] = i
        BY <1>4
      <3> QED BY <1>4, <1>5, <3>1
    <2> DEFINE A == {<<c[n], ds[n]>> : n \in 1..Len(ds)}
               B == {<<i, worth(i)>> : i \in S}
    <2>3. ASSUME NEW x \in A PROVE x \in B
      BY <2>1
    <2>4. ASSUME NEW x \in B PROVE x \in A
      BY <2>2
    <2> HIDE DEF A, B
    <2>5. A = B
      BY <2>3, <2>4
    <2> QED BY <2>5 DEF A, B
  <1>8. {<<i, worth(i)>> : i \in S} = Deltas(tests, K)
    BY <1>1 DEF Deltas, worth
  <1>9. r.deltas = Deltas(tests, K)
    BY <1>3, <1>4, <1>5, <1>7, <1>8
  <1>10. Sum(ds) = SumOf(Deltas(tests, K))
    BY <1>6, <1>7, <1>8
  <1> QED BY <1>3, <1>9, <1>10 DEF r

\* What the tests leave of each confidence, and the statuses that follow.
Final(p) == [h \in DOMAIN p.hypotheses |->
               Clamp(p.hypotheses[h].confidence + SumOf(Deltas(p.tests, TestsFor(p, h))))]
Assigned(p) == AssignStatuses(Final(p))

Revises(p, m) ==
  /\ m.kind = "CONFIDENCE_REVISED" /\ m.id \in DOMAIN p.hypotheses
  /\ m.before = p.hypotheses[m.id].confidence
  /\ m.deltas = Deltas(p.tests, TestsFor(p, m.id)) /\ m.delta = SumOf(m.deltas)
  /\ m.after = Final(p)[m.id]
Changes(p, m) ==
  /\ m.kind = "STATUS_CHANGED" /\ m.id \in DOMAIN p.hypotheses
  /\ m.before = p.hypotheses[m.id].status /\ m.after = Assigned(p)[m.id] /\ m.before # m.after

Bears(ms, a, b, h) == \E j \in a..b : ms[j].id = h
Apart(ms, a, b) == \A i, j \in a..b : i # j => ms[i].id # ms[j].id
\* First n revisions, one of each hypothesis, and then the changes of status that they call for.
IsRevision(p, ms, n) ==
  /\ \A i \in 1..n : Revises(p, ms[i])
  /\ \A i \in (n + 1)..Len(ms) : Changes(p, ms[i])
  /\ Apart(ms, 1, n) /\ Apart(ms, n + 1, Len(ms))
  /\ \A h \in DOMAIN p.hypotheses :
       /\ Bears(ms, 1, n, h)
       /\ Assigned(p)[h] # p.hypotheses[h].status => Bears(ms, n + 1, Len(ms), h)
RevisionHolds(p, ms) == Numbered(ms) /\ \E n \in 0..Len(ms) : IsRevision(p, ms, n)

\* After i revisions; after all of them, and the changes of status up to i.
RevisedUpTo(p, r, ms, i) ==
  /\ DOMAIN r = Shape /\ r.tests = p.tests /\ DOMAIN r.hypotheses = DOMAIN p.hypotheses /\ AllSketched(r)
  /\ DOMAIN r.revisions = {ms[j].id : j \in 1..i}
  /\ \A h \in DOMAIN p.hypotheses :
       /\ r.hypotheses[h].confidence = IF h \in DOMAIN r.revisions THEN Final(p)[h]
                                                                   ELSE p.hypotheses[h].confidence
       /\ r.hypotheses[h].status = p.hypotheses[h].status
ChangedUpTo(p, r, ms, n, i) ==
  /\ DOMAIN r = Shape /\ DOMAIN r.hypotheses = DOMAIN p.hypotheses /\ AllSketched(r)
  /\ DOMAIN r.revisions = DOMAIN p.hypotheses
  /\ \A h \in DOMAIN p.hypotheses :
       /\ r.hypotheses[h].confidence = Final(p)[h]
       /\ r.hypotheses[h].status = IF Bears(ms, n + 1, i, h) THEN Assigned(p)[h] ELSE p.hypotheses[h].status

\* A hypothesis is revised once.
LEMMA RevisionTaken ==
  ASSUME NEW p, NEW r, NEW ms, NEW i \in Nat, i > 0, RevisedUpTo(p, r, ms, i - 1), Revises(p, ms[i]),
         \A j \in 1..(i - 1) : ms[j].id # ms[i].id, Final(p)[ms[i].id] \in RevisedConfidence
  PROVE  Accepts(r, ms[i]) /\ RevisedUpTo(p, Applied(r, ms[i]), ms, i)
  <1> DEFINE m == ms[i]
             h == m.id
             q == Applied(r, m)
  <1>1. h \notin DOMAIN r.revisions /\ h \in DOMAIN r.hypotheses /\ h \in DOMAIN p.hypotheses
    BY DEF RevisedUpTo, Revises
  <1>2. m.before = r.hypotheses[h].confidence
    BY <1>1 DEF RevisedUpTo, Revises
  <1>3. m.deltas = Deltas(r.tests, TestsFor(r, h)) /\ m.delta = SumOf(m.deltas)
    BY DEF RevisedUpTo, Revises, TestsFor
  <1>4. m.after = Clamp(m.before + m.delta) /\ m.after \in RevisedConfidence
    BY <1>1 DEF Revises, Final
  <1>5. RevisionFits(r, m)
    <2>1. m.deltas = {<<x, Weight[r.tests[x].outcome][r.tests[x].strength]>> :
                        x \in {y \in DOMAIN TestsOf(r, h) : r.tests[y].status = "SUCCEEDED"}}
      BY <1>3 DEF Deltas, TestsFor, TestsOf
    <2> QED BY <1>1, <1>2, <1>3, <1>4, <2>1 DEF RevisionFits, SumOf
  <1>6. m.kind = "CONFIDENCE_REVISED"
    BY DEF Revises
  <1>7. Accepts(r, m)
    BY <1>5, <1>6 DEF Accepts
  <1>8. /\ DOMAIN q = Shape /\ q.tests = r.tests
        /\ q.hypotheses = [r.hypotheses EXCEPT ![h].confidence = m.after]
        /\ q.revisions = Put(r.revisions, h, [before |-> m.before, delta |-> m.delta,
                                              after |-> m.after, deltas |-> m.deltas])
    BY <1>6 DEF Applied, Shape, RevisedUpTo
  <1>9. Sketched(r.hypotheses[h]) /\ m.after = Final(p)[h] /\ m.after \in Int
    BY <1>1, <1>4, RevisedIsNumber DEF RevisedUpTo, AllSketched, Revises
  <1> HIDE DEF q, m
  <1>10. /\ DOMAIN q.hypotheses = DOMAIN r.hypotheses
         /\ \A g \in DOMAIN r.hypotheses : g # h => q.hypotheses[g] = r.hypotheses[g]
         /\ q.hypotheses[h] = [r.hypotheses[h] EXCEPT !.confidence = m.after]
    BY <1>1, <1>8
  <1>11. /\ q.hypotheses[h].confidence = Final(p)[h] /\ q.hypotheses[h].status = r.hypotheses[h].status
         /\ Sketched(q.hypotheses[h])
    BY <1>9, <1>10 DEF Sketched
  <1>12. AllSketched(q)
    BY <1>10, <1>11 DEF RevisedUpTo, AllSketched
  <1>13. DOMAIN q.revisions = DOMAIN r.revisions \cup {h}
    BY <1>8 DEF Put
  <1>14. DOMAIN q.revisions = {ms[j].id : j \in 1..i}
    <2>1. \A j : j \in 1..i <=> j \in 1..(i - 1) \/ j = i
      OBVIOUS
    <2>2. {ms[j].id : j \in 1..i} = {ms[j].id : j \in 1..(i - 1)} \cup {h}
      BY <2>1 DEF m
    <2> QED BY <1>13, <2>2 DEF RevisedUpTo
  <1>15. ASSUME NEW g \in DOMAIN p.hypotheses
         PROVE  /\ q.hypotheses[g].confidence = IF g \in DOMAIN q.revisions THEN Final(p)[g]
                                                                            ELSE p.hypotheses[g].confidence
                /\ q.hypotheses[g].status = p.hypotheses[g].status
    <2>1. CASE g = h
      BY <1>1, <1>11, <1>13, <2>1 DEF RevisedUpTo
    <2>2. CASE g # h
      BY <1>10, <1>13, <2>2 DEF RevisedUpTo
    <2> QED BY <2>1, <2>2
  <1>16. RevisedUpTo(p, q, ms, i)
    BY <1>8, <1>10, <1>12, <1>14, <1>15 DEF RevisedUpTo
  <1> QED BY <1>7, <1>16 DEF q, m

\* The last revision leaves the statuses to be changed.
LEMMA AllRevised ==
  ASSUME NEW p, NEW r, NEW ms, NEW n \in Nat, IsRevision(p, ms, n), RevisedUpTo(p, r, ms, n)
  PROVE  ChangedUpTo(p, r, ms, n, n)
  <1>1. DOMAIN r.revisions = DOMAIN p.hypotheses
    <2>1. \A j \in 1..n : ms[j].id \in DOMAIN p.hypotheses
      BY DEF IsRevision, Revises
    <2>2. \A h \in DOMAIN p.hypotheses : \E j \in 1..n : ms[j].id = h
      BY DEF IsRevision, Bears
    <2> QED BY <2>1, <2>2 DEF RevisedUpTo
  <1>2. \A h : ~Bears(ms, n + 1, n, h)
    BY DEF Bears
  <1> QED BY <1>1, <1>2 DEF RevisedUpTo, ChangedUpTo

\* A status is changed once.
LEMMA ChangeTaken ==
  ASSUME NEW p, NEW r, NEW ms, NEW n \in Nat, NEW i \in Nat, i > n, ChangedUpTo(p, r, ms, n, i - 1),
         Changes(p, ms[i]), \A j \in (n + 1)..(i - 1) : ms[j].id # ms[i].id
  PROVE  Accepts(r, ms[i]) /\ ChangedUpTo(p, Applied(r, ms[i]), ms, n, i)
  <1> DEFINE m == ms[i]
             h == m.id
             q == Applied(r, m)
  <1>1. /\ m.kind = "STATUS_CHANGED" /\ h \in DOMAIN p.hypotheses /\ h \in DOMAIN r.hypotheses
        /\ m.before = p.hypotheses[h].status /\ m.after = Assigned(p)[h] /\ m.before # m.after
    BY DEF Changes, ChangedUpTo
  <1>2. ~Bears(ms, n + 1, i - 1, h)
    BY DEF Bears
  <1>3. r.hypotheses[h].status = m.before
    BY <1>1, <1>2 DEF ChangedUpTo
  <1>4. Confidences(r) = Final(p)
    BY DEF Confidences, ChangedUpTo, Final
  <1>5. AssignStatuses(Confidences(r))[h] = m.after
    BY <1>1, <1>4 DEF Assigned
  <1>6. Accepts(r, m)
    BY <1>1, <1>3, <1>5 DEF Accepts
  <1>7. /\ DOMAIN q = Shape /\ q.revisions = r.revisions
        /\ q.hypotheses = [r.hypotheses EXCEPT ![h].status = m.after]
    BY <1>1 DEF Applied, Shape, ChangedUpTo
  <1>8. Sketched(r.hypotheses[h])
    BY <1>1 DEF ChangedUpTo, AllSketched
  <1> HIDE DEF q, m
  <1>9. /\ DOMAIN q.hypotheses = DOMAIN r.hypotheses
        /\ \A g \in DOMAIN r.hypotheses : g # h => q.hypotheses[g] = r.hypotheses[g]
        /\ q.hypotheses[h] = [r.hypotheses[h] EXCEPT !.status = m.after]
    BY <1>1, <1>7
  <1>10. /\ q.hypotheses[h].confidence = r.hypotheses[h].confidence /\ q.hypotheses[h].status = m.after
         /\ Sketched(q.hypotheses[h])
    BY <1>8, <1>9 DEF Sketched
  <1>11. AllSketched(q)
    BY <1>9, <1>10 DEF ChangedUpTo, AllSketched
  <1>12. \A g : Bears(ms, n + 1, i, g) <=> Bears(ms, n + 1, i - 1, g) \/ g = h
    <2>1. \A j : j \in (n + 1)..i <=> j \in (n + 1)..(i - 1) \/ j = i
      OBVIOUS
    <2> QED BY <2>1 DEF Bears, m
  <1>13. ASSUME NEW g \in DOMAIN p.hypotheses
         PROVE  /\ q.hypotheses[g].confidence = Final(p)[g]
                /\ q.hypotheses[g].status = IF Bears(ms, n + 1, i, g) THEN Assigned(p)[g]
                                                                      ELSE p.hypotheses[g].status
    <2>1. CASE g = h
      BY <1>1, <1>10, <1>12, <2>1 DEF ChangedUpTo
    <2>2. CASE g # h
      BY <1>9, <1>12, <2>2 DEF ChangedUpTo
    <2> QED BY <2>1, <2>2
  <1>14. ChangedUpTo(p, q, ms, n, i)
    BY <1>7, <1>9, <1>11, <1>13 DEF ChangedUpTo
  <1> QED BY <1>6, <1>14 DEF q, m

\* The revision is accepted, and leaves every hypothesis revised with the status its confidence gives it.
LEMMA RevisionAccepted ==
  ASSUME NEW p, DOMAIN p = Shape, AllSketched(p), DOMAIN p.revisions = {}, NEW ms, RevisionHolds(p, ms),
         \A h \in DOMAIN p.hypotheses : Final(p)[h] \in RevisedConfidence
  PROVE  LET r == Replay(p, ms) IN
         /\ r.ok /\ DOMAIN r.state.revisions = DOMAIN r.state.hypotheses
         /\ \A h \in DOMAIN r.state.hypotheses :
              r.state.hypotheses[h].status = AssignStatuses(Confidences(r.state))[h]
  <1> DEFINE N == Len(ms)
  <1>1. N \in Nat
    BY DEF RevisionHolds, Numbered
  <1>2. PICK n \in 0..N : IsRevision(p, ms, n)
    BY DEF RevisionHolds
  <1>3. PICK f : Run(f, p, ms)
    BY <1>1, RunExists
  <1> DEFINE K(i, r) == /\ i <= n => RevisedUpTo(p, r, ms, i)
                        /\ i >= n => ChangedUpTo(p, r, ms, n, i)
             G == {i \in 0..N : K(i, f[i].state)}
  <1>4. 0 \in G
    <2>1. f[0].state = p /\ \A j : j \notin 1..0
      BY <1>3 DEF Run
    <2>2. RevisedUpTo(p, p, ms, 0)
      BY <2>1 DEF RevisedUpTo
    <2>3. K(0, p)
      BY <1>2, <2>2, AllRevised
    <2> QED BY <1>1, <2>1, <2>3
  <1>5. ASSUME NEW i \in 1..N, i - 1 \in G
        PROVE  /\ Accepts(f[i - 1].state, ms[i])
               /\ f[i].state = Applied(f[i - 1].state, ms[i]) => i \in G
    <2> DEFINE r == f[i - 1].state
    <2>1. K(i - 1, r) /\ i \in 0..N /\ i \in Nat
      BY <1>1, <1>5
    <2> HIDE DEF r
    <2>2. CASE i <= n
      <3>1. RevisedUpTo(p, r, ms, i - 1) /\ i \in 1..n
        BY <1>2, <2>1, <2>2
      <3>2. Revises(p, ms[i]) /\ \A j \in 1..(i - 1) : ms[j].id # ms[i].id
        BY <1>2, <3>1 DEF IsRevision, Apart
      <3>3. Final(p)[ms[i].id] \in RevisedConfidence
        BY <3>2 DEF Revises
      <3>4. Accepts(r, ms[i]) /\ RevisedUpTo(p, Applied(r, ms[i]), ms, i)
        BY <3>1, <3>2, <3>3, RevisionTaken
      <3>5. i = n => ChangedUpTo(p, Applied(r, ms[i]), ms, n, i)
        BY <1>2, <3>4, AllRevised
      <3>6. K(i, Applied(r, ms[i]))
        BY <1>2, <2>2, <3>4, <3>5
      <3> QED BY <2>1, <3>4, <3>6 DEF r
    <2>3. CASE i > n
      <3>1. ChangedUpTo(p, r, ms, n, i - 1) /\ i \in (n + 1)..N /\ n \in Nat
        BY <1>1, <1>2, <2>1, <2>3
      <3>2. Changes(p, ms[i]) /\ \A j \in (n + 1)..(i - 1) : ms[j].id # ms[i].id
        BY <1>1, <1>2, <3>1 DEF IsRevision, Apart
      <3>3. Accepts(r, ms[i]) /\ ChangedUpTo(p, Applied(r, ms[i]), ms, n, i)
        BY <2>1, <2>3, <3>1, <3>2, ChangeTaken
      <3>4. K(i, Applied(r, ms[i]))
        BY <1>2, <2>1, <2>3, <3>3
      <3> QED BY <2>1, <3>3, <3>4 DEF r
    <2> QED BY <1>2, <2>1, <2>2, <2>3
  <1> HIDE DEF G
  <1>6. Replay(p, ms).ok /\ N \in G
    BY <1>1, <1>3, <1>4, <1>5, RunGoes
  <1> DEFINE q == Replay(p, ms).state
  <1>7. f[N].state = q
    BY <1>3 DEF Run
  <1> HIDE DEF q
  <1>8. ChangedUpTo(p, q, ms, n, N)
    BY <1>1, <1>2, <1>6, <1>7 DEF G
  <1>9. Confidences(q) = Final(p)
    BY <1>8 DEF Confidences, ChangedUpTo, Final
  <1>10. ASSUME NEW h \in DOMAIN q.hypotheses PROVE q.hypotheses[h].status = Assigned(p)[h]
    BY <1>2, <1>8 DEF ChangedUpTo, IsRevision
  <1> QED BY <1>6, <1>8, <1>9, <1>10 DEF q, ChangedUpTo, Assigned

\* First one set and then another, each item once.
TwoParts(ms, n, R, C) ==
  /\ \A i \in 1..n : ms[i] \in R
  /\ \A i \in (n + 1)..Len(ms) : ms[i] \in C
  /\ \A i, j \in 1..n : i # j => ms[i] # ms[j]
  /\ \A i, j \in (n + 1)..Len(ms) : i # j => ms[i] # ms[j]
  /\ \A x \in R : \E i \in 1..n : ms[i] = x
  /\ \A x \in C : \E i \in (n + 1)..Len(ms) : ms[i] = x

\* One set in some order and then another.
LEMMA TwoInOrder ==
  ASSUME NEW R, NEW C, IsFiniteSet(R), IsFiniteSet(C), NEW ms, ms = SetToSeq(R) \o SetToSeq(C)
  PROVE  /\ Numbered(ms)
         /\ \E n \in 0..Len(ms) : TwoParts(ms, n, R, C)
  <1> DEFINE a == SetToSeq(R)
             b == SetToSeq(C)
             M == R \cup C
  <1>1. /\ Numbered(a) /\ a \in Seq(R) /\ IsInjective(a)
        /\ \A x \in R : \E i \in DOMAIN a : a[i] = x
    BY SetInOrder
  <1>2. /\ Numbered(b) /\ b \in Seq(C) /\ IsInjective(b)
        /\ \A x \in C : \E i \in DOMAIN b : b[i] = x
    BY SetInOrder
  <1>3. ms = a \o b
    OBVIOUS
  <1> HIDE DEF a, b
  <1> DEFINE n == Len(a)
             o == Len(b)
  <1>4. a \in Seq(M) /\ b \in Seq(M)
    BY <1>1, <1>2, SeqMonotonic
  <1>5. n \in Nat /\ o \in Nat /\ DOMAIN a = 1..n /\ DOMAIN b = 1..o
    BY <1>1, <1>2 DEF Numbered
  <1>6. /\ \A i, j \in 1..n : a[i] = a[j] => i = j
        /\ \A i, j \in 1..o : b[i] = b[j] => i = j
    BY <1>1, <1>2, <1>5 DEF IsInjective
  <1>7. (\A i \in 1..n : a[i] \in R) /\ (\A i \in 1..o : b[i] \in C)
    BY <1>1, <1>2
  <1>8. /\ a \o b \in Seq(M) /\ Len(a \o b) = n + o
        /\ \A i \in 1..(n + o) : (a \o b)[i] = IF i <= n THEN a[i] ELSE b[i - n]
    BY <1>4, ConcatProperties
  <1>9. /\ ms \in Seq(M) /\ Len(ms) = n + o
        /\ \A i \in 1..(n + o) : ms[i] = IF i <= n THEN a[i] ELSE b[i - n]
    BY <1>3, <1>8, Zenon
  <1>10. Numbered(ms)
    BY <1>9 DEF Numbered
  <1> HIDE DEF n, o, M
  <1>11. ASSUME NEW i \in 1..n PROVE ms[i] = a[i]
    BY <1>5, <1>9
  <1>12. ASSUME NEW i \in (n + 1)..(n + o) PROVE i - n \in 1..o /\ ms[i] = b[i - n]
    <2>1. i \in 1..(n + o) /\ ~(i <= n) /\ i - n \in 1..o
      BY <1>5
    <2> QED BY <1>9, <2>1
  <1>13. ASSUME NEW i \in 1..o PROVE n + i \in (n + 1)..(n + o) /\ ms[n + i] = b[i]
    <2>1. n + i \in (n + 1)..(n + o) /\ (n + i) - n = i
      BY <1>5
    <2> QED BY <1>12, <2>1
  <1>14. n \in 0..Len(ms)
    BY <1>5, <1>9
  <1>15. \A i, j \in (n + 1)..(n + o) : i # j => ms[i] # ms[j]
    <2> SUFFICES ASSUME NEW i \in (n + 1)..(n + o), NEW j \in (n + 1)..(n + o), ms[i] = ms[j]
                 PROVE  i = j
      OBVIOUS
    <2>1. i - n \in 1..o /\ j - n \in 1..o /\ b[i - n] = b[j - n]
      BY <1>12
    <2>2. i - n = j - n
      BY <1>6, <2>1
    <2> QED BY <1>5, <2>2
  <1>16. \A x \in R : \E i \in 1..n : ms[i] = x
    BY <1>1, <1>5, <1>11
  <1>17. \A x \in C : \E i \in (n + 1)..(n + o) : ms[i] = x
    BY <1>2, <1>5, <1>13
  <1>18. \A i, j \in 1..n : i # j => ms[i] # ms[j]
    BY <1>6, <1>11
  <1>19. \A i \in (n + 1)..(n + o) : ms[i] \in C
    BY <1>7, <1>12
  <1>20. \A i \in 1..n : ms[i] \in R
    BY <1>7, <1>11
  <1>21. TwoParts(ms, n, R, C)
    <2>1. Len(ms) = n + o
      BY <1>9
    <2>2. \A i \in (n + 1)..Len(ms) : ms[i] \in C
      BY <1>19, <2>1, Zenon
    <2>3. \A i, j \in (n + 1)..Len(ms) : i # j => ms[i] # ms[j]
      BY <1>15, <2>1, Zenon
    <2>4. \A x \in C : \E i \in (n + 1)..Len(ms) : ms[i] = x
      BY <1>17, <2>1, Zenon
    <2> QED BY <1>16, <1>18, <1>20, <2>2, <2>3, <2>4, Zenon DEF TwoParts
  <1> QED BY <1>10, <1>14, <1>21

\* What the tests leave is what the revision computes.
LEMMA FinalIs ==
  ASSUME NEW p, AllSketched(p), TestsGraded(p), DOMAIN p.tests \subseteq Nat, NEW h \in DOMAIN p.hypotheses
  PROVE  LET r == ReviseConfidence(p.hypotheses[h].confidence, TestsOf(p, h)) IN
         /\ DOMAIN r = {"before", "delta", "after", "deltas"}
         /\ r.before = p.hypotheses[h].confidence
         /\ r.deltas = Deltas(p.tests, TestsFor(p, h)) /\ r.delta = SumOf(r.deltas)
         /\ r.after = Final(p)[h] /\ Final(p)[h] \in RevisedConfidence
  <1> DEFINE K == TestsFor(p, h)
             T == TestsOf(p, h)
             before == p.hypotheses[h].confidence
  <1>1. K \in SUBSET DOMAIN p.tests /\ DOMAIN T = K /\ \A k \in K : T[k] = p.tests[k]
    BY DEF TestsFor, TestsOf
  <1>2. K \in SUBSET Int /\ IsFiniteSet(K) /\ \A k \in K : Graded(p.tests[k])
    BY <1>1, FS_Subset DEF TestsGraded
  <1>3. before \in Int
    BY DEF AllSketched, Sketched
  <1>4. Deltas(T, K) = Deltas(p.tests, K)
    BY <1>1 DEF Deltas
  <1>5. SumOf(Deltas(p.tests, K)) \in Int
    BY <1>2, DeltasAdd
  <1>6. Final(p)[h] = Clamp(before + SumOf(Deltas(p.tests, K)))
    BY DEF Final
  <1> HIDE DEF K, T, before
  <1>7. \A k \in K : Graded(T[k])
    BY <1>1, <1>2
  <1>8. LET r == ReviseConfidence(before, T) IN
        /\ DOMAIN r = {"before", "delta", "after", "deltas"}
        /\ r.before = before /\ r.deltas = Deltas(T, K) /\ r.delta = SumOf(Deltas(T, K))
        /\ r.after = Clamp(before + SumOf(Deltas(T, K)))
    BY <1>1, <1>2, <1>3, <1>7, RevisionCounts
  <1>9. Clamp(before + SumOf(Deltas(p.tests, K))) \in RevisedConfidence
    BY <1>3, <1>5, ClampIn
  <1> QED BY <1>4, <1>6, <1>8, <1>9 DEF K, T, before

\* The revision revises each hypothesis, and changes the statuses that this calls for.
LEMMA RevisionsHold ==
  ASSUME AllSketched(State), TestsGraded(State), DOMAIN State.tests \subseteq Nat,
         IsFiniteSet(DOMAIN State.hypotheses)
  PROVE  /\ RevisionHolds(State, Revision)
         /\ \A h \in DOMAIN State.hypotheses : Final(State)[h] \in RevisedConfidence
  <1> DEFINE H == DOMAIN State.hypotheses
             revised(h) == ReviseConfidence(State.hypotheses[h].confidence, TestsOf(State, h))
             assigned == AssignStatuses([h \in H |-> revised(h).after])
             Revise(h) == LET r == revised(h) IN
                          [kind |-> "CONFIDENCE_REVISED", id |-> h, before |-> r.before,
                           delta |-> r.delta, after |-> r.after, deltas |-> r.deltas]
             Change(h) == [kind |-> "STATUS_CHANGED", id |-> h,
                           before |-> State.hypotheses[h].status, after |-> assigned[h]]
             changed == {h \in H : assigned[h] # State.hypotheses[h].status}
             f == [h \in H |-> Revise(h)]
             g == [h \in changed |-> Change(h)]
             R == {Revise(h) : h \in H}
             C == {Change(h) : h \in changed}
  <1>1. Revision = SetToSeq(R) \o SetToSeq(C)
    BY DEF Revision
  <1>2. ASSUME NEW h \in H
        PROVE  /\ DOMAIN revised(h) = {"before", "delta", "after", "deltas"}
               /\ revised(h).before = State.hypotheses[h].confidence
               /\ revised(h).deltas = Deltas(State.tests, TestsFor(State, h))
               /\ revised(h).delta = SumOf(revised(h).deltas)
               /\ revised(h).after = Final(State)[h] /\ Final(State)[h] \in RevisedConfidence
    BY FinalIs
  <1> HIDE DEF revised
  <1>3. assigned = Assigned(State)
    <2>1. [h \in H |-> revised(h).after] = Final(State)
      BY <1>2 DEF Final
    <2> QED BY <2>1 DEF Assigned
  <1>4. ASSUME NEW h \in H
        PROVE  Revises(State, Revise(h)) /\ Revise(h).id = h
    <2>1. /\ Revise(h).kind = "CONFIDENCE_REVISED" /\ Revise(h).id = h
          /\ Revise(h).before = revised(h).before /\ Revise(h).delta = revised(h).delta
          /\ Revise(h).after = revised(h).after /\ Revise(h).deltas = revised(h).deltas
      OBVIOUS
    <2> HIDE DEF Revise
    <2> QED BY <1>2, <2>1 DEF Revises
  <1>5. ASSUME NEW h \in changed
        PROVE  Changes(State, Change(h)) /\ Change(h).id = h
    BY <1>3 DEF Changes
  <1> HIDE DEF assigned, Revise, Change
  <1>6. IsFiniteSet(R)
    <2>1. IsFiniteSet({f[h] : h \in H})
      BY ImageFinite
    <2>2. R = {f[h] : h \in H}
      OBVIOUS
    <2> QED BY <2>1, <2>2
  <1>7. IsFiniteSet(C)
    <2>1. changed \in SUBSET H
      OBVIOUS
    <2>2. IsFiniteSet(changed)
      BY <2>1, FS_Subset
    <2>3. IsFiniteSet({g[h] : h \in changed})
      <3>1. DOMAIN g = changed
        OBVIOUS
      <3> HIDE DEF g, changed
      <3> QED BY <2>2, <3>1, ImageFinite
    <2>4. C = {g[h] : h \in changed}
      OBVIOUS
    <2> QED BY <2>3, <2>4
  <1>8. ASSUME NEW x \in R PROVE Revises(State, x) /\ x = Revise(x.id)
    BY <1>4
  <1>9. ASSUME NEW x \in C PROVE Changes(State, x) /\ x = Change(x.id)
    BY <1>5
  <1>10. \A h \in H : Revise(h) \in R
    OBVIOUS
  <1>11. \A h \in H : Assigned(State)[h] # State.hypotheses[h].status => h \in changed /\ Change(h) \in C
    BY <1>3
  <1> HIDE DEF R, C, f, g
  <1> DEFINE ms == Revision
  <1>12. Numbered(ms) /\ \E n \in 0..Len(ms) : TwoParts(ms, n, R, C)
    <2>1. ms = SetToSeq(R) \o SetToSeq(C)
      BY <1>1 DEF ms
    <2> QED BY <1>6, <1>7, <2>1, TwoInOrder
  <1>13. PICK n \in 0..Len(ms) : TwoParts(ms, n, R, C)
    BY <1>12
  <1>14. \A i \in 1..n : Revises(State, ms[i])
    BY <1>8, <1>13 DEF TwoParts
  <1>15. \A i \in (n + 1)..Len(ms) : Changes(State, ms[i])
    BY <1>9, <1>13 DEF TwoParts
  <1>16. Apart(ms, 1, n)
    <2> SUFFICES ASSUME NEW i \in 1..n, NEW j \in 1..n, ms[i].id = ms[j].id PROVE i = j
      BY DEF Apart
    <2>1. ms[i] = Revise(ms[i].id) /\ ms[j] = Revise(ms[j].id)
      BY <1>8, <1>13 DEF TwoParts
    <2>2. ms[i] = ms[j]
      BY <2>1, Zenon
    <2> QED BY <1>13, <2>2 DEF TwoParts
  <1>17. Apart(ms, n + 1, Len(ms))
    <2> SUFFICES ASSUME NEW i \in (n + 1)..Len(ms), NEW j \in (n + 1)..Len(ms), ms[i].id = ms[j].id PROVE i = j
      BY DEF Apart
    <2>1. ms[i] = Change(ms[i].id) /\ ms[j] = Change(ms[j].id)
      BY <1>9, <1>13 DEF TwoParts
    <2>2. ms[i] = ms[j]
      BY <2>1, Zenon
    <2> QED BY <1>13, <2>2 DEF TwoParts
  <1>18. ASSUME NEW h \in H
         PROVE  /\ Bears(ms, 1, n, h)
                /\ Assigned(State)[h] # State.hypotheses[h].status => Bears(ms, n + 1, Len(ms), h)
    <2>1. \E i \in 1..n : ms[i] = Revise(h)
      BY <1>10, <1>13 DEF TwoParts
    <2>2. Bears(ms, 1, n, h)
      BY <1>4, <2>1 DEF Bears
    <2>3. ASSUME Assigned(State)[h] # State.hypotheses[h].status PROVE Bears(ms, n + 1, Len(ms), h)
      <3>1. h \in changed /\ \E i \in (n + 1)..Len(ms) : ms[i] = Change(h)
        BY <1>11, <1>13, <2>3 DEF TwoParts
      <3> QED BY <1>5, <3>1 DEF Bears
    <2> QED BY <2>2, <2>3
  <1>19. IsRevision(State, ms, n)
    BY <1>14, <1>15, <1>16, <1>17, <1>18 DEF IsRevision
  <1>20. RevisionHolds(State, ms)
    BY <1>12, <1>19 DEF RevisionHolds
  <1>21. \A h \in H : Final(State)[h] \in RevisedConfidence
    BY <1>2
  <1> QED BY <1>20, <1>21 DEF ms

-----------------------------------------------------------------------------
(* What an answer holds when it is computed, and how it is persisted.       *)

CompletionHolds(p, ms) == Numbered(ms) /\ Len(ms) = 1 /\ ms[1].kind = "COMPLETED" /\ ms[1].state = p

\* The answer of a job, against the state it is persisted in.
Holds(k, ms) ==
  /\ Promotes => RecordsHold(Pinned, KindOf[stage], BatchOfJob(k), ms)
  /\ stage = "GENERATE_HYPOTHESES" => HypothesesHold(Ids(replayed, "claim"), ms)
  /\ Searches => SearchHolds(Pinned, Intent, k, ms)
  /\ stage = "DESIGN_FALSIFICATION_TESTS" => CritiqueHolds(Pinned, replayed, k, ms)
  /\ stage = "EXECUTE_FALSIFICATION_TESTS" => ResolutionHolds(Pinned, replayed.tests[k], k, ms)
  /\ stage = "REVISE_CONFIDENCE" => RevisionHolds(replayed, ms)
  /\ stage = "VERIFY_REPLAY" => Numbered(ms) /\ Len(ms) = 0
  /\ stage = "COMPLETE" => CompletionHolds(replayed, ms)

\* Records rest on pinned evidence and links on records that are there.  What a stage makes of a
\* hypothesis, a test or a candidate is not there before its job is done.
AfterSupport == {"SEARCH_CONTRADICTIONS"} \cup AfterSearch
RecordsSettled(p) ==
  /\ \A id \in DOMAIN p.records : /\ id[2] \in p.records[id].sources
                                  /\ EvidenceOf(p.records[id].links) \subseteq Pinned
  /\ \A l \in p.claimLinks : l[2] \in DOMAIN p.records
SearchesSettled(p) ==
  \A id \in DOMAIN p.retrievals :
    /\ \A r \in p.retrievals[id].results : r[1] \in Pinned
    /\ id[1] = "SUPPORT" => Handled("SEARCH_SUPPORT", AfterSupport, id[2])
    /\ id[1] = "CONTRADICT" => Handled("SEARCH_CONTRADICTIONS", AfterSearch, id[2])
TestSettled(p, i) ==
  LET t == p.tests[i] IN
  /\ Handled("DESIGN_FALSIFICATION_TESTS", AfterDesign, t.hypothesis)
  /\ t.hypothesis \in Nat /\ i \in (10 * t.hypothesis + 1)..(10 * t.hypothesis + 9)
  /\ t.evidence \subseteq Pinned
  /\ ~Handled("EXECUTE_FALSIFICATION_TESTS", AfterTests, i) => t.status = "PENDING"
Settled(p) ==
  /\ RecordsSettled(p) /\ SearchesSettled(p)
  /\ stage \notin AfterGeneration => DOMAIN p.hypotheses = {}
  /\ \A h \in DOMAIN p.critiques : Handled("DESIGN_FALSIFICATION_TESTS", AfterDesign, h)
  /\ \A i \in DOMAIN p.tests : TestSettled(p, i)

\* The stages and what they are told apart by.
LEMMA StageCases ==
  ASSUME stage \in Stages
  PROVE  /\ Promotes \/ stage = "GENERATE_HYPOTHESES" \/ Searches \/ stage = "DESIGN_FALSIFICATION_TESTS"
            \/ stage = "EXECUTE_FALSIFICATION_TESTS" \/ stage = "REVISE_CONFIDENCE"
            \/ stage = "VERIFY_REPLAY" \/ stage = "COMPLETE"
         /\ Promotes <=> stage \in {"PROMOTE_TIMELINE", "RESOLVE_ENTITIES", "PROMOTE_CLAIMS"}
         /\ Searches <=> stage \in {"SEARCH_SUPPORT", "SEARCH_CONTRADICTIONS"}
  BY DEF Stages, StageOrder, Promotes, Searches, KindOf

\* Whatever a stage may answer holds when it is computed.
LEMMA AnswerHolds ==
  ASSUME AssessInv, Ranked, Settled(replayed), NEW k \in WorkKeys, NEW ms \in Results(k)
  PROVE  Holds(k, ms)
  <1>0. world \in World /\ eligible \subseteq Pinned /\ stage \in Stages /\ State = replayed
    BY DEF AssessInv, Stages
  <1>1. CASE Promotes
    <2>1. ms \in Promotions(k) /\ stage \in {"PROMOTE_TIMELINE", "RESOLVE_ENTITIES", "PROMOTE_CLAIMS"}
      BY <1>1 DEF Results, Promotes, KindOf, Searches
    <2>2. RecordsHold(Pinned, KindOf[stage], BatchOfJob(k), ms)
      BY <1>0, <1>1, <2>1, PromotionsFit
    <2> QED BY <2>1, <2>2 DEF Holds, Searches
  <1>2. CASE stage = "GENERATE_HYPOTHESES"
    <2>1. ms \in Hypotheses /\ ~Promotes
      BY <1>2 DEF Results, Promotes, KindOf, Searches
    <2>2. HypothesesHold(Ids(replayed, "claim"), ms)
      BY <1>0, <2>1, HypothesesFit
    <2> QED BY <1>2, <2>1, <2>2 DEF Holds, Searches
  <1>3. CASE Searches
    <2>1. ms \in Retrievals(k) /\ ~Promotes /\ stage \in {"SEARCH_SUPPORT", "SEARCH_CONTRADICTIONS"}
      BY <1>3 DEF Results, Promotes, KindOf, Searches
    <2>2. SearchHolds(Pinned, Intent, k, ms)
      BY <1>0, <2>1, SearchesHold
    <2> QED BY <2>1, <2>2 DEF Holds
  <1>4. CASE stage = "DESIGN_FALSIFICATION_TESTS"
    <2>1. ms \in Critiques(k) /\ ~Promotes /\ ~Searches
      BY <1>4 DEF Results, Promotes, KindOf, Searches
    <2>2. k \in Nat
      BY <1>0, <1>4, KeysAre, IdeasFinite DEF AssessInv, HypothesesInv
    <2>3. <<"CONTRADICT", k>> \in DOMAIN State.retrievals
      BY <2>1 DEF Critiques
    <2>4. Relevant(k) \subseteq Pinned
      BY <1>0, <2>3, RelevantPinned DEF Settled, RecordsSettled, SearchesSettled
    <2>5. CritiqueHolds(Pinned, replayed, k, ms)
      BY <1>0, <2>1, <2>2, <2>4, CritiquesHold
    <2> QED BY <1>4, <2>1, <2>5 DEF Holds
  <1>5. CASE stage = "EXECUTE_FALSIFICATION_TESTS"
    <2>1. ms \in Executions(k) /\ ~Promotes /\ ~Searches
      BY <1>5 DEF Results, Promotes, KindOf, Searches
    <2>2. k \in DOMAIN replayed.tests
      BY <1>5, KeysAre
    <2>3. State.tests[k].type \in TestType /\ State.tests[k].evidence \subseteq Pinned
      BY <1>0, <2>2 DEF AssessInv, TestsInv, Settled, TestSettled
    <2>4. ResolutionHolds(Pinned, replayed.tests[k], k, ms)
      BY <1>0, <2>1, <2>3, ResolutionsHold
    <2> QED BY <1>5, <2>1, <2>4 DEF Holds
  <1>6. CASE stage = "REVISE_CONFIDENCE"
    <2>1. ms = Revision /\ ~Promotes /\ ~Searches
      BY <1>6 DEF Results, Promotes, KindOf, Searches
    <2>2. IsFiniteSet(DOMAIN State.hypotheses)
      <3>1. DOMAIN State.hypotheses \in SUBSET DOMAIN world.ideas
        BY DEF AssessInv, HypothesesInv
      <3> QED BY <1>0, <3>1, IdeasFinite, FS_Subset
    <2>3. AllSketched(State) /\ TestsGraded(State)
      BY <1>0 DEF Ranked, RankInv, Begun
    <2>4. DOMAIN State.tests \subseteq Nat
      BY <1>0 DEF AssessInv, TestsInv
    <2>5. RevisionHolds(replayed, ms)
      BY <1>0, <2>1, <2>2, <2>3, <2>4, RevisionsHold
    <2> QED BY <1>6, <2>1, <2>5 DEF Holds
  <1>7. CASE stage = "VERIFY_REPLAY"
    <2>1. ms = <<>> /\ ~Promotes /\ ~Searches
      BY <1>7 DEF Results, Promotes, KindOf, Searches
    <2> QED BY <1>7, <2>1 DEF Holds, Numbered
  <1>8. CASE stage = "COMPLETE"
    <2>1. ms = <<[kind |-> "COMPLETED", state |-> State]>> /\ ~Promotes /\ ~Searches
      BY <1>8 DEF Results, Promotes, KindOf, Searches
    <2>2. CompletionHolds(replayed, ms)
      BY <1>0, <2>1 DEF CompletionHolds, Numbered
    <2> QED BY <1>8, <2>1, <2>2 DEF Holds
  <1> QED BY <1>0, <1>1, <1>2, <1>3, <1>4, <1>5, <1>6, <1>7, <1>8, StageCases

\* The tests of an answer name evidence that is still there.
Current(ms) == \A i \in DOMAIN ms : TestEvidence(ms[i]) \subseteq eligible

\* Its events are those of the job, as long as that is so,
LEMMA HeldAttributed ==
  ASSUME AssessInv, Settled(replayed), NEW k \in WorkKeys, NEW ms, Holds(k, ms), Current(ms)
  PROVE  Numbered(ms) /\ \A i \in DOMAIN ms : Attributed(k, ms[i])
  <1>0. stage \in Stages /\ \A i \in DOMAIN ms : TestEvidence(ms[i]) \subseteq eligible
    BY DEF AssessInv, Stages, Current
  <1>1. CASE Promotes
    <2>1. RecordsHold(Pinned, KindOf[stage], BatchOfJob(k), ms)
      BY <1>1 DEF Holds
    <2>2. Numbered(ms) /\ \A i \in DOMAIN ms : ms[i].kind = "RECORD_CREATED" /\ ms[i].id[1] = KindOf[stage]
      BY <2>1 DEF RecordsHold
    <2>3. \A i \in DOMAIN ms : Attributed(k, ms[i])
      BY <1>0, <1>1, <2>2 DEF Attributed, Promotes, KindOf, Searches
    <2> QED BY <2>2, <2>3
  <1>2. CASE stage = "GENERATE_HYPOTHESES"
    <2>1. HypothesesHold(Ids(replayed, "claim"), ms) /\ ~Promotes
      BY <1>0, <1>2, StageCases DEF Holds
    <2>2. Numbered(ms) /\ \A i \in DOMAIN ms : ms[i].kind = "HYPOTHESIS_CREATED"
      BY <2>1 DEF HypothesesHold
    <2>3. \A i \in DOMAIN ms : Attributed(k, ms[i])
      BY <1>0, <1>2, <2>1, <2>2 DEF Attributed, Searches
    <2> QED BY <2>2, <2>3
  <1>3. CASE Searches
    <2>1. SearchHolds(Pinned, Intent, k, ms) /\ ~Promotes /\ stage # "GENERATE_HYPOTHESES"
      BY <1>0, <1>3, StageCases DEF Holds
    <2>2. Numbered(ms) /\ Len(ms) = 1 /\ DOMAIN ms = {1}
      BY <2>1 DEF SearchHolds, Numbered
    <2>3. /\ ms[1].kind = "RETRIEVAL_COMPLETED" /\ ms[1].id = <<Intent, k>>
          /\ ms[1].query.intent = Intent
      BY <2>1 DEF SearchHolds
    <2>4. Attributed(k, ms[1])
      BY <1>0, <1>3, <2>1, <2>2, <2>3 DEF Attributed, Searches
    <2> QED BY <2>2, <2>4
  <1>4. CASE stage = "DESIGN_FALSIFICATION_TESTS"
    <2>1. CritiqueHolds(Pinned, replayed, k, ms) /\ ~Promotes /\ ~Searches
      BY <1>0, <1>4, StageCases DEF Holds
    <2>2. CritiqueOf(k, ms)
      BY <2>1 DEF CritiqueHolds
    <2>3. Numbered(ms) /\ \A i \in DOMAIN ms : i = 1 \/ i \in 2..Len(ms)
      BY <2>2 DEF CritiqueOf, Numbered
    <2>4. /\ ms[1].kind = "CRITIQUE_CREATED" /\ ms[1].id = k
          /\ \A i \in 2..Len(ms) : ms[i].kind = "TEST_CREATED" /\ ms[i].test.hypothesis = k
      BY <2>2 DEF CritiqueOf
    <2>5. \A i \in DOMAIN ms : Attributed(k, ms[i])
      BY <1>0, <1>4, <2>1, <2>3, <2>4 DEF Attributed
    <2> QED BY <2>3, <2>5
  <1>5. CASE stage = "EXECUTE_FALSIFICATION_TESTS"
    <2>1. ResolutionHolds(Pinned, replayed.tests[k], k, ms) /\ ~Promotes /\ ~Searches
      BY <1>0, <1>5, StageCases DEF Holds
    <2>2. Numbered(ms) /\ Len(ms) = 1 /\ DOMAIN ms = {1}
      BY <2>1 DEF ResolutionHolds, Numbered
    <2> QED BY <1>0, <1>5, <2>1, <2>2 DEF ResolutionHolds, Attributed
  <1>6. CASE stage = "REVISE_CONFIDENCE"
    <2>1. RevisionHolds(replayed, ms) /\ ~Promotes /\ ~Searches
      BY <1>0, <1>6, StageCases DEF Holds
    <2>2. Numbered(ms) /\ \E n \in 0..Len(ms) : IsRevision(replayed, ms, n)
      BY <2>1 DEF RevisionHolds
    <2>3. PICK n \in 0..Len(ms) : IsRevision(replayed, ms, n)
      BY <2>2
    <2>4. \A i \in DOMAIN ms : i \in 1..n \/ i \in (n + 1)..Len(ms)
      BY <2>2 DEF Numbered
    <2>5. \A i \in DOMAIN ms : ms[i].kind \in {"CONFIDENCE_REVISED", "STATUS_CHANGED"}
      BY <2>3, <2>4 DEF IsRevision, Revises, Changes
    <2> QED BY <1>0, <1>6, <2>1, <2>2, <2>5 DEF Attributed
  <1>7. CASE stage = "VERIFY_REPLAY"
    <2>1. Numbered(ms) /\ DOMAIN ms = {}
      BY <1>7 DEF Holds, Numbered
    <2> QED BY <2>1
  <1>8. CASE stage = "COMPLETE"
    <2>1. CompletionHolds(replayed, ms) /\ ~Promotes /\ ~Searches
      BY <1>0, <1>8, StageCases DEF Holds
    <2>2. Numbered(ms) /\ DOMAIN ms = {1}
      BY <2>1 DEF CompletionHolds, Numbered
    <2> QED BY <1>0, <1>8, <2>1, <2>2 DEF CompletionHolds, Attributed
  <1> QED BY <1>0, <1>1, <1>2, <1>3, <1>4, <1>5, <1>6, <1>7, <1>8, StageCases

\* there are as many as persist_stage_result asks for,
LEMMA HeldCounted ==
  ASSUME AssessInv, NEW k \in WorkKeys, NEW ms, Holds(k, ms)
  PROVE  Counted(k, ms)
  <1>0. stage \in Stages
    BY DEF AssessInv, Stages
  <1>1. CASE Promotes
    <2>1. RecordsHold(Pinned, KindOf[stage], BatchOfJob(k), ms)
      BY <1>1 DEF Holds
    <2>2. CoversBatch(k, ms)
      BY <2>1 DEF RecordsHold, CoversBatch, BatchOfJob
    <2> QED BY <1>1, <2>2 DEF Counted, Promotes, KindOf, Searches
  <1>2. CASE stage = "GENERATE_HYPOTHESES"
    <2>1. HypothesesHold(Ids(replayed, "claim"), ms) /\ ~Promotes
      BY <1>0, <1>2, StageCases DEF Holds
    <2>2. Len(ms) \in MinHypotheses..MaxHypotheses
      BY <2>1 DEF HypothesesHold
    <2> QED BY <1>2, <2>1, <2>2 DEF Counted, Searches
  <1>3. CASE Searches
    <2>1. SearchHolds(Pinned, Intent, k, ms) /\ ~Promotes /\ stage # "GENERATE_HYPOTHESES"
      BY <1>0, <1>3, StageCases DEF Holds
    <2>2. Len(ms) = 1
      BY <2>1 DEF SearchHolds
    <2>3. ms # <<>>
      BY <2>2
    <2> QED BY <1>3, <2>1, <2>3 DEF Counted, Searches
  <1>4. CASE stage = "DESIGN_FALSIFICATION_TESTS"
    <2>1. CritiqueHolds(Pinned, replayed, k, ms) /\ ~Promotes /\ ~Searches
      BY <1>0, <1>4, StageCases DEF Holds
    <2>2. ms # <<>>
      BY <2>1 DEF CritiqueHolds, CritiqueOf
    <2> QED BY <1>4, <2>1, <2>2 DEF Counted
  <1>5. CASE stage = "EXECUTE_FALSIFICATION_TESTS"
    <2>1. ResolutionHolds(Pinned, replayed.tests[k], k, ms) /\ ~Promotes /\ ~Searches
      BY <1>0, <1>5, StageCases DEF Holds
    <2> QED BY <1>5, <2>1 DEF Counted, ResolutionHolds
  <1>6. CASE stage \in {"REVISE_CONFIDENCE", "VERIFY_REPLAY"}
    <2>1. ~Promotes /\ ~Searches
      BY <1>0, <1>6, StageCases
    <2> QED BY <1>6, <2>1 DEF Counted
  <1>7. CASE stage = "COMPLETE"
    <2>1. CompletionHolds(replayed, ms) /\ ~Promotes /\ ~Searches
      BY <1>0, <1>7, StageCases DEF Holds
    <2> QED BY <1>7, <2>1 DEF Counted, CompletionHolds
  <1> QED BY <1>0, <1>1, <1>2, <1>3, <1>4, <1>5, <1>6, <1>7, StageCases

\* No record has a candidate of the batch before its job is done.
LEMMA BatchFresh ==
  ASSUME AssessInv, Settled(replayed), Promotes, NEW k \in WorkKeys \ done,
         NEW id \in DOMAIN replayed.records, id[1] = KindOf[stage]
  PROVE  id[2] \notin BatchOfJob(k)
  <1> SUFFICES ASSUME id[2] \in BatchOfJob(k) PROVE FALSE
    OBVIOUS
  <1> DEFINE c == id[2]
  <1>1. c \in Batch(Candidates, k) /\ c \in DOMAIN Candidates
    BY DEF BatchOfJob, Batch
  <1>2. BatchNo(c) = k
    BY <1>1, PromotedBatch
  <1>3. id \in Sourced(replayed, stage, c)
    BY DEF Sourced, Ids, Settled, RecordsSettled
  <1>4. stage \in DOMAIN KindOf /\ stage \in Stages
    BY DEF Promotes, AssessInv, Stages
  <1>5. ~Earlier(stage, stage)
    BY <1>4, EarlierIs DEF KindOf
  <1>6. ~Placed(stage, c)
    BY <1>2, <1>5 DEF Placed
  <1>7. Sourced(replayed, stage, c) = {}
    BY <1>1, <1>4, <1>6 DEF AssessInv, RecordsInv, Candidates
  <1> QED BY <1>3, <1>7

\* they are accepted,
LEMMA HeldAccepted ==
  ASSUME AssessInv, Ranked, Settled(replayed), NEW k \in WorkKeys \ done, NEW ms, Holds(k, ms)
  PROVE  LET r == Replay(replayed, ms) IN
         /\ r.ok
         /\ stage = "REVISE_CONFIDENCE" =>
              /\ DOMAIN r.state.revisions = DOMAIN r.state.hypotheses
              /\ \A h \in DOMAIN r.state.hypotheses :
                   r.state.hypotheses[h].status = AssignStatuses(Confidences(r.state))[h]
  <1>0. stage \in Stages /\ DOMAIN replayed = Shape /\ State = replayed
    BY DEF AssessInv, Stages
  <1>1. CASE Promotes
    <2>1. RecordsHold(Pinned, KindOf[stage], BatchOfJob(k), ms)
      BY <1>1 DEF Holds
    <2>2. \A id \in DOMAIN replayed.records : id[1] = KindOf[stage] => id[2] \notin BatchOfJob(k)
      BY <1>1, BatchFresh
    <2>3. Replay(replayed, ms).ok
      BY <1>0, <2>1, <2>2, RecordsAccepted
    <2> QED BY <1>0, <1>1, <2>3, StageCases
  <1>2. CASE stage = "GENERATE_HYPOTHESES"
    <2>1. HypothesesHold(Ids(replayed, "claim"), ms)
      BY <1>2 DEF Holds
    <2>2. DOMAIN replayed.hypotheses = {}
      BY <1>2 DEF Settled, AfterGeneration, AfterSearch, AfterDesign, AfterTests, AfterRevision
    <2>3. Replay(replayed, ms).ok
      BY <1>0, <2>1, <2>2, HypothesesAccepted
    <2> QED BY <1>2, <2>3
  <1>3. CASE Searches
    <2>1. SearchHolds(Pinned, Intent, k, ms)
      BY <1>3 DEF Holds
    <2>2. k \in DOMAIN replayed.hypotheses
      BY <1>0, <1>3, StageCases, KeysAre
    <2>3. <<Intent, k>> \notin DOMAIN replayed.retrievals
      <3>1. CASE stage = "SEARCH_SUPPORT"
        <4>1. Intent = "SUPPORT" /\ ~Handled("SEARCH_SUPPORT", AfterSupport, k)
          BY <3>1 DEF Intent, Handled, AfterSupport, AfterSearch, AfterDesign, AfterTests, AfterRevision
        <4> QED BY <4>1 DEF Settled, SearchesSettled
      <3>2. CASE stage = "SEARCH_CONTRADICTIONS"
        <4>1. Intent = "CONTRADICT" /\ ~Handled("SEARCH_CONTRADICTIONS", AfterSearch, k)
          BY <3>2 DEF Intent, Handled, AfterSearch, AfterDesign, AfterTests, AfterRevision
        <4> QED BY <4>1 DEF Settled, SearchesSettled
      <3> QED BY <1>0, <1>3, <3>1, <3>2, StageCases
    <2>4. Replay(replayed, ms).ok
      BY <2>1, <2>2, <2>3, SearchAccepted
    <2> QED BY <1>0, <1>3, <2>4, StageCases
  <1>4. CASE stage = "DESIGN_FALSIFICATION_TESTS"
    <2>1. CritiqueHolds(Pinned, replayed, k, ms)
      BY <1>4 DEF Holds
    <2>2. k \in DOMAIN replayed.hypotheses /\ k \in Nat
      BY <1>4, KeysAre, IdeasFinite DEF AssessInv, HypothesesInv
    <2>3. ~Handled("DESIGN_FALSIFICATION_TESTS", AfterDesign, k)
      BY <1>4 DEF Handled, AfterDesign, AfterTests, AfterRevision
    <2>4. k \notin DOMAIN replayed.critiques
      BY <2>3 DEF Settled
    <2>5. ASSUME NEW x \in DOMAIN replayed.tests
          PROVE  replayed.tests[x].hypothesis # k /\ x \notin (10 * k + 1)..(10 * k + 9)
      <3> DEFINE g == replayed.tests[x].hypothesis
      <3>1. Handled("DESIGN_FALSIFICATION_TESTS", AfterDesign, g) /\ g \in Nat
            /\ x \in (10 * g + 1)..(10 * g + 9)
        BY <2>5 DEF Settled, TestSettled
      <3>2. g # k
        BY <2>3, <3>1
      <3> HIDE DEF g
      <3>3. x \notin (10 * k + 1)..(10 * k + 9)
        BY <2>2, <3>1, <3>2
      <3> QED BY <3>2, <3>3 DEF g
    <2>6. Replay(replayed, ms).ok
      BY <1>0, <2>1, <2>2, <2>4, <2>5, CritiqueAccepted
    <2> QED BY <1>4, <2>6
  <1>5. CASE stage = "EXECUTE_FALSIFICATION_TESTS"
    <2>1. ResolutionHolds(Pinned, replayed.tests[k], k, ms)
      BY <1>5 DEF Holds
    <2>2. k \in DOMAIN replayed.tests
      BY <1>5, KeysAre
    <2>3. ~Handled("EXECUTE_FALSIFICATION_TESTS", AfterTests, k)
      BY <1>5 DEF Handled, AfterTests, AfterRevision
    <2>4. replayed.tests[k].status = "PENDING"
      BY <2>2, <2>3 DEF Settled, TestSettled
    <2>5. Replay(replayed, ms).ok
      BY <2>1, <2>2, <2>4, ResolutionAccepted
    <2> QED BY <1>5, <2>5
  <1>6. CASE stage = "REVISE_CONFIDENCE"
    <2>1. RevisionHolds(replayed, ms)
      BY <1>6 DEF Holds
    <2>2. AllSketched(replayed) /\ TestsGraded(replayed)
      BY DEF Ranked, RankInv, Begun
    <2>3. DOMAIN replayed.revisions = {}
      BY <1>6 DEF Ranked, AfterRevision
    <2>4. DOMAIN replayed.tests \subseteq Nat
      BY DEF AssessInv, TestsInv
    <2>5. \A h \in DOMAIN replayed.hypotheses : Final(replayed)[h] \in RevisedConfidence
      BY <2>2, <2>4, FinalIs
    <2> QED BY <1>0, <1>6, <2>1, <2>2, <2>3, <2>5, RevisionAccepted
  <1>7. CASE stage = "VERIFY_REPLAY"
    <2>1. Replay(replayed, ms).ok
      BY <1>7, NoneAccepted DEF Holds
    <2> QED BY <1>7, <2>1
  <1>8. CASE stage = "COMPLETE"
    <2>1. CompletionHolds(replayed, ms)
      BY <1>8 DEF Holds
    <2>2. Accepts(replayed, ms[1])
      BY <2>1 DEF CompletionHolds, Accepts
    <2>3. Replay(replayed, ms).ok
      BY <2>1, <2>2, OneAccepted DEF CompletionHolds
    <2> QED BY <1>8, <2>3
  <1> QED BY <1>0, <1>1, <1>2, <1>3, <1>4, <1>5, <1>6, <1>7, <1>8, StageCases

\* and the tables read back as what replay makes of them.
LEMMA HeldWritten ==
  ASSUME AssessInv, Ranked, Settled(replayed), Keyed(tables), NEW k \in WorkKeys \ done, NEW ms,
         Holds(k, ms), Current(ms)
  PROVE  Keyed(Written(ms)) /\ Stored(Written(ms)) = Replay(replayed, ms).state
  <1> DEFINE q == Replay(replayed, ms).state
  <1>0. stage \in Stages /\ DOMAIN replayed = Shape /\ State = replayed
    BY DEF AssessInv, Stages
  <1>1. Numbered(ms) /\ \A i \in DOMAIN ms : Attributed(k, ms[i])
    BY HeldAttributed
  <1>2. Len(ms) \in Nat /\ DOMAIN ms = 1..Len(ms)
    BY <1>1 DEF Numbered
  <1>3. Replay(replayed, ms).ok
    BY HeldAccepted
  <1>4. PICK s : Path(s, State, q, ms)
    BY <1>0, <1>2, <1>3, ReplayAccepted
  <1> HIDE DEF q
  <1>5. CASE stage = "DESIGN_FALSIFICATION_TESTS"
    <2>1. CritiqueOf(k, ms)
      BY <1>5 DEF Holds, CritiqueHolds
    <2>2. ~Handled("DESIGN_FALSIFICATION_TESTS", AfterDesign, k)
      BY <1>5 DEF Handled, AfterDesign, AfterTests, AfterRevision
    <2>3. \A i \in DOMAIN State.tests : State.tests[i].hypothesis # k
      BY <1>0, <2>2 DEF Settled, TestSettled
    <2>4. Keyed(Written(ms)) /\ Stored(Written(ms)) = q
      BY <1>4, <2>1, <2>3, CritiquePersists
    <2> QED BY <2>4 DEF q
  <1>6. CASE stage # "DESIGN_FALSIFICATION_TESTS"
    <2>1. ASSUME NEW i \in 1..Len(ms) PROVE Plain(ms[i])
      <3> DEFINE m == ms[i]
      <3>1. Attributed(k, m)
        BY <1>1, <1>2
      <3>2. CASE Promotes
        <4>1. m.kind = "RECORD_CREATED" /\ m.links \subseteq Nat \X Polarity
          BY <1>2, <3>2 DEF Holds, RecordsHold
        <4> QED BY <4>1 DEF Plain
      <3>3. CASE ~Promotes
        <4> HIDE DEF m
        <4>1. m.kind \in {"HYPOTHESIS_CREATED", "TEST_RESOLVED", "CONFIDENCE_REVISED",
                          "STATUS_CHANGED", "RETRIEVAL_COMPLETED", "COMPLETED"}
          BY <1>0, <1>6, <3>1, <3>3, StageCases DEF Attributed, Searches
        <4> QED BY <4>1 DEF Plain, m
      <3> QED BY <3>2, <3>3
    <2>2. AllShaped(State)
      BY <1>0 DEF AllShaped, AssessInv, TestsInv
    <2>3. Keyed(Written(ms)) /\ Stored(Written(ms)) = q
      BY <1>2, <1>4, <2>1, <2>2, PlainPersists
    <2> QED BY <2>3 DEF q
  <1> QED BY <1>5, <1>6

\* An answer that holds, and whose evidence is still there, passes every check of persist_stage_result.
LEMMA HeldPasses ==
  ASSUME AssessInv, Ranked, Settled(replayed), Keyed(tables), NEW k \in WorkKeys \ done, NEW ms,
         Holds(k, ms), Current(ms)
  PROVE  Passes(k, ms) /\ Keyed(Written(ms))
  <1>1. State = replayed
    BY DEF AssessInv
  <1>2. \A i \in DOMAIN ms : Attributed(k, ms[i])
    BY HeldAttributed
  <1>3. Counted(k, ms)
    BY HeldCounted
  <1>4. Keyed(Written(ms)) /\ Consistent(ms)
    BY HeldAccepted, HeldWritten DEF Consistent
  <1> QED BY <1>1, <1>2, <1>3, <1>4 DEF Passes

-----------------------------------------------------------------------------
(* What is settled stays so, and the answers that wait hold on.             *)

\* As Handled, the job that is being persisted included.
Reached(k, s, after, x) == Handled(s, after, x) \/ (stage = s /\ x = k)
SearchReached(k, r, id) ==
  /\ \A found \in r.retrievals[id].results : found[1] \in Pinned
  /\ id[1] = "SUPPORT" => Reached(k, "SEARCH_SUPPORT", AfterSupport, id[2])
  /\ id[1] = "CONTRADICT" => Reached(k, "SEARCH_CONTRADICTIONS", AfterSearch, id[2])
TestReached(k, t, i) ==
  /\ DOMAIN t = TestShape
  /\ Reached(k, "DESIGN_FALSIFICATION_TESTS", AfterDesign, t.hypothesis)
  /\ t.hypothesis \in Nat /\ i \in (10 * t.hypothesis + 1)..(10 * t.hypothesis + 9)
  /\ t.evidence \subseteq Pinned
  /\ ~Reached(k, "EXECUTE_FALSIFICATION_TESTS", AfterTests, i) => t.status = "PENDING"
SettledBy(k, r) ==
  /\ DOMAIN r = Shape /\ RecordsSettled(r)
  /\ \A id \in DOMAIN r.retrievals : SearchReached(k, r, id)
  /\ stage \notin {"GENERATE_HYPOTHESES"} \cup AfterGeneration => DOMAIN r.hypotheses = {}
  /\ \A h \in DOMAIN r.critiques : Reached(k, "DESIGN_FALSIFICATION_TESTS", AfterDesign, h)
  /\ \A i \in DOMAIN r.tests : TestReached(k, r.tests[i], i)

\* What is settled stays within the reach of the job that is persisted.
LEMMA SettledReached ==
  ASSUME AssessInv, Settled(replayed), NEW k
  PROVE  SettledBy(k, replayed)
  <1>1. DOMAIN replayed = Shape /\ \A i \in DOMAIN replayed.tests : DOMAIN replayed.tests[i] = TestShape
    BY DEF AssessInv, TestsInv
  <1>2. \A id \in DOMAIN replayed.retrievals : SearchReached(k, replayed, id)
    BY DEF Settled, SearchesSettled, SearchReached, Reached
  <1>3. \A i \in DOMAIN replayed.tests : TestReached(k, replayed.tests[i], i)
    BY <1>1 DEF Settled, TestSettled, TestReached, Reached
  <1> QED BY <1>1, <1>2, <1>3 DEF Settled, SettledBy, Reached

\* What an event of job k is about.
Settles(k, m) ==
  /\ m.kind \in {"RECORD_CREATED", "HYPOTHESIS_CREATED", "CRITIQUE_CREATED", "TEST_CREATED",
                 "TEST_RESOLVED", "CONFIDENCE_REVISED", "STATUS_CHANGED", "RETRIEVAL_COMPLETED",
                 "COMPLETED"}
  /\ m.kind = "RECORD_CREATED" => m.id[2] \in m.sources /\ EvidenceOf(m.links) \subseteq Pinned
  /\ m.kind = "HYPOTHESIS_CREATED" => stage = "GENERATE_HYPOTHESES"
  /\ m.kind = "RETRIEVAL_COMPLETED" => /\ Searches /\ m.id = <<Intent, k>>
                                       /\ \A n \in DOMAIN m.results : m.results[n] \in Pinned
  /\ m.kind = "CRITIQUE_CREATED" => stage = "DESIGN_FALSIFICATION_TESTS" /\ m.id = k
  /\ m.kind = "TEST_CREATED" =>
       /\ stage = "DESIGN_FALSIFICATION_TESTS" /\ m.test.hypothesis = k /\ k \in Nat
       /\ m.id \in (10 * k + 1)..(10 * k + 9)
       /\ DOMAIN m.test = TestShape /\ m.test.evidence \subseteq Pinned
  /\ m.kind = "TEST_RESOLVED" => stage = "EXECUTE_FALSIFICATION_TESTS" /\ m.id = k

\* What an answer brings is about the job it answers, and settles no more than that.
LEMMA HeldSettles ==
  ASSUME AssessInv, NEW k \in WorkKeys, NEW ms, Holds(k, ms), NEW i \in DOMAIN ms
  PROVE  Settles(k, ms[i])
  <1> DEFINE m == ms[i]
  <1>0. stage \in Stages
    BY DEF AssessInv, Stages
  <1>1. CASE Promotes
    <2>1. m.kind = "RECORD_CREATED" /\ m.id[2] \in m.sources /\ EvidenceOf(m.links) \subseteq Pinned
      BY <1>1 DEF Holds, RecordsHold
    <2> QED BY <2>1 DEF Settles
  <1>2. CASE stage = "GENERATE_HYPOTHESES"
    <2>1. m.kind = "HYPOTHESIS_CREATED"
      BY <1>2 DEF Holds, HypothesesHold
    <2> QED BY <1>2, <2>1 DEF Settles
  <1>3. CASE Searches
    <2>1. SearchHolds(Pinned, Intent, k, ms)
      BY <1>3 DEF Holds
    <2>2. i = 1
      BY <2>1 DEF SearchHolds, Numbered
    <2>3. /\ m.kind = "RETRIEVAL_COMPLETED" /\ m.id = <<Intent, k>>
          /\ \A n \in DOMAIN m.results : m.results[n] \in Pinned
      BY <2>1, <2>2 DEF SearchHolds
    <2> QED BY <1>3, <2>3 DEF Settles
  <1>4. CASE stage = "DESIGN_FALSIFICATION_TESTS"
    <2>1. CritiqueHolds(Pinned, replayed, k, ms)
      BY <1>4 DEF Holds
    <2>2. k \in Nat
      BY <1>4, KeysAre, IdeasFinite DEF AssessInv, HypothesesInv
    <2>3. Numbered(ms) /\ Len(ms) \in Nat /\ (i = 1 \/ i \in 2..Len(ms))
      BY <2>1 DEF CritiqueHolds, CritiqueOf, Numbered
    <2>4. CASE i = 1
      <3>1. m.kind = "CRITIQUE_CREATED" /\ m.id = k
        BY <2>1, <2>4 DEF CritiqueHolds, CritiqueOf
      <3> QED BY <1>4, <3>1 DEF Settles
    <2>5. CASE i \in 2..Len(ms)
      <3>1. m.kind = "TEST_CREATED" /\ m.test.hypothesis = k
        BY <2>1, <2>5 DEF CritiqueHolds, CritiqueOf
      <3>2. TestProposed(Pinned, replayed, k, m, i)
        BY <2>1, <2>5 DEF CritiqueHolds
      <3>3. /\ m.id = 10 * k + (i - 1) /\ i - 1 \in 1..9
            /\ DOMAIN m.test = TestShape /\ m.test.evidence \subseteq Pinned
        BY <3>2 DEF TestProposed
      <3>4. m.id \in (10 * k + 1)..(10 * k + 9)
        BY <2>2, <3>3
      <3> QED BY <1>4, <2>2, <3>1, <3>3, <3>4 DEF Settles
    <2> QED BY <2>3, <2>4, <2>5
  <1>5. CASE stage = "EXECUTE_FALSIFICATION_TESTS"
    <2>1. ResolutionHolds(Pinned, replayed.tests[k], k, ms)
      BY <1>5 DEF Holds
    <2>2. i = 1
      BY <2>1 DEF ResolutionHolds, Numbered
    <2>3. m.kind = "TEST_RESOLVED" /\ m.id = k
      BY <2>1, <2>2 DEF ResolutionHolds
    <2> QED BY <1>5, <2>3 DEF Settles
  <1>6. CASE stage = "REVISE_CONFIDENCE"
    <2>1. RevisionHolds(replayed, ms)
      BY <1>6 DEF Holds
    <2>2. PICK n \in 0..Len(ms) : IsRevision(replayed, ms, n)
      BY <2>1 DEF RevisionHolds
    <2>3. i \in 1..n \/ i \in (n + 1)..Len(ms)
      BY <2>1 DEF RevisionHolds, Numbered
    <2>4. m.kind \in {"CONFIDENCE_REVISED", "STATUS_CHANGED"}
      BY <2>2, <2>3 DEF IsRevision, Revises, Changes
    <2> QED BY <2>4 DEF Settles
  <1>7. CASE stage = "VERIFY_REPLAY"
    BY <1>7 DEF Holds, Numbered
  <1>8. CASE stage = "COMPLETE"
    <2>1. CompletionHolds(replayed, ms)
      BY <1>8 DEF Holds
    <2>2. i = 1
      BY <2>1 DEF CompletionHolds, Numbered
    <2>3. m.kind = "COMPLETED"
      BY <2>1, <2>2 DEF CompletionHolds
    <2> QED BY <2>3 DEF Settles
  <1> QED BY <1>0, <1>1, <1>2, <1>3, <1>4, <1>5, <1>6, <1>7, <1>8, StageCases

\* An event keeps what is settled.
LEMMA SettledOn ==
  ASSUME NEW k, NEW r, SettledBy(k, r), NEW m, Settles(k, m), Accepts(r, m)
  PROVE  SettledBy(k, Applied(r, m))
  <1> DEFINE q == Applied(r, m)
  <1>0. DOMAIN r = Shape
    BY DEF SettledBy
  <1>1. CASE m.kind = "RECORD_CREATED"
    <2>1. /\ DOMAIN q = Shape /\ q.hypotheses = r.hypotheses /\ q.claimLinks = r.claimLinks
          /\ q.critiques = r.critiques /\ q.tests = r.tests /\ q.retrievals = r.retrievals
          /\ q.records = Put(r.records, m.id, [says |-> m.says, names |-> m.names,
                                               sources |-> m.sources, links |-> m.links])
      BY <1>0, <1>1 DEF Applied, Shape
    <2>2. m.id[2] \in m.sources /\ EvidenceOf(m.links) \subseteq Pinned
      BY <1>1 DEF Settles
    <2> HIDE DEF q
    <2>3. /\ DOMAIN q.records = DOMAIN r.records \cup {m.id}
          /\ q.records[m.id].sources = m.sources /\ q.records[m.id].links = m.links
          /\ \A id \in DOMAIN r.records : id # m.id => q.records[id] = r.records[id]
      BY <2>1 DEF Put
    <2>4. RecordsSettled(q)
      <3>1. ASSUME NEW id \in DOMAIN q.records
            PROVE  id[2] \in q.records[id].sources /\ EvidenceOf(q.records[id].links) \subseteq Pinned
        <4>1. CASE id = m.id
          BY <2>2, <2>3, <4>1
        <4>2. CASE id # m.id
          BY <2>3, <4>2 DEF SettledBy, RecordsSettled
        <4> QED BY <4>1, <4>2
      <3>2. \A l \in q.claimLinks : l[2] \in DOMAIN q.records
        BY <2>1, <2>3 DEF SettledBy, RecordsSettled
      <3> QED BY <3>1, <3>2 DEF RecordsSettled
    <2> QED BY <2>1, <2>4 DEF SettledBy, SearchReached, q
  <1>2. CASE m.kind = "HYPOTHESIS_CREATED"
    <2>1. /\ DOMAIN q = Shape /\ q.records = r.records /\ q.claimLinks = r.claimLinks \cup ClaimLinks(m)
          /\ q.critiques = r.critiques /\ q.tests = r.tests /\ q.retrievals = r.retrievals
      BY <1>0, <1>2 DEF Applied, Shape
    <2>2. m.supporting \cup m.contradicting \subseteq Ids(r, "claim") /\ stage = "GENERATE_HYPOTHESES"
      BY <1>2 DEF Accepts, Settles
    <2> HIDE DEF q
    <2>3. \A l \in ClaimLinks(m) : l[2] \in DOMAIN r.records
      BY <2>2 DEF ClaimLinks, Ids
    <2>4. RecordsSettled(q)
      BY <2>1, <2>3 DEF SettledBy, RecordsSettled
    <2> QED BY <2>1, <2>2, <2>4 DEF SettledBy, SearchReached, q
  <1>3. CASE m.kind = "RETRIEVAL_COMPLETED"
    <2>1. /\ DOMAIN q = Shape /\ q.records = r.records /\ q.claimLinks = r.claimLinks
          /\ q.hypotheses = r.hypotheses /\ q.critiques = r.critiques /\ q.tests = r.tests
          /\ q.retrievals = Put(r.retrievals, m.id,
                                [query |-> m.query,
                                 results |-> {<<m.results[n], n>> : n \in DOMAIN m.results}])
      BY <1>0, <1>3 DEF Applied, Shape
    <2>2. Searches /\ m.id = <<Intent, k>> /\ \A n \in DOMAIN m.results : m.results[n] \in Pinned
      BY <1>3 DEF Settles
    <2> HIDE DEF q
    <2>3. /\ DOMAIN q.retrievals = DOMAIN r.retrievals \cup {m.id}
          /\ q.retrievals[m.id].results = {<<m.results[n], n>> : n \in DOMAIN m.results}
          /\ \A id \in DOMAIN r.retrievals : id # m.id => q.retrievals[id] = r.retrievals[id]
      BY <2>1 DEF Put
    <2>4. ASSUME NEW id \in DOMAIN q.retrievals PROVE SearchReached(k, q, id)
      <3>1. CASE id # m.id
        BY <2>3, <3>1 DEF SettledBy, SearchReached
      <3>2. CASE id = m.id
        <4>1. \A found \in q.retrievals[id].results : found[1] \in Pinned
          BY <2>2, <2>3, <3>2
        <4>2. id[1] = Intent /\ id[2] = k
          BY <2>2, <3>2
        <4>3. \/ stage = "SEARCH_SUPPORT" /\ Intent = "SUPPORT"
              \/ stage = "SEARCH_CONTRADICTIONS" /\ Intent = "CONTRADICT"
          BY <2>2 DEF Searches, Intent
        <4> QED BY <4>1, <4>2, <4>3 DEF SearchReached, Reached
      <3> QED BY <3>1, <3>2
    <2> QED BY <2>1, <2>4 DEF SettledBy, RecordsSettled, q
  <1>4. CASE m.kind = "CRITIQUE_CREATED"
    <2>1. /\ DOMAIN q = Shape /\ q.records = r.records /\ q.claimLinks = r.claimLinks
          /\ q.hypotheses = r.hypotheses /\ q.retrievals = r.retrievals /\ q.tests = r.tests
          /\ DOMAIN q.critiques = DOMAIN r.critiques \cup {m.id}
      BY <1>0, <1>4 DEF Applied, Shape, Put
    <2>2. stage = "DESIGN_FALSIFICATION_TESTS" /\ m.id = k
      BY <1>4 DEF Settles
    <2>3. \A h \in DOMAIN q.critiques : Reached(k, "DESIGN_FALSIFICATION_TESTS", AfterDesign, h)
      BY <2>1, <2>2 DEF SettledBy, Reached
    <2> HIDE DEF q
    <2> QED BY <2>1, <2>3 DEF SettledBy, RecordsSettled, SearchReached, q
  <1>5. CASE m.kind = "TEST_CREATED"
    <2>1. /\ DOMAIN q = Shape /\ q.records = r.records /\ q.claimLinks = r.claimLinks
          /\ q.hypotheses = r.hypotheses /\ q.retrievals = r.retrievals /\ q.critiques = r.critiques
          /\ q.tests = Put(r.tests, m.id, m.test)
      BY <1>0, <1>5 DEF Applied, Shape
    <2>2. m.test.status = "PENDING"
      BY <1>5 DEF Accepts
    <2>3. /\ stage = "DESIGN_FALSIFICATION_TESTS" /\ m.test.hypothesis = k /\ k \in Nat
          /\ m.id \in (10 * k + 1)..(10 * k + 9)
          /\ DOMAIN m.test = TestShape /\ m.test.evidence \subseteq Pinned
      BY <1>5 DEF Settles
    <2>4. TestReached(k, m.test, m.id)
      BY <2>2, <2>3 DEF TestReached, Reached
    <2> HIDE DEF q
    <2>5. \A i \in DOMAIN q.tests : TestReached(k, q.tests[i], i)
      BY <2>1, <2>4 DEF Put, SettledBy
    <2> QED BY <2>1, <2>5 DEF SettledBy, RecordsSettled, SearchReached, q
  <1>6. CASE m.kind = "TEST_RESOLVED"
    <2>1. /\ DOMAIN q = Shape /\ q.records = r.records /\ q.claimLinks = r.claimLinks
          /\ q.hypotheses = r.hypotheses /\ q.retrievals = r.retrievals /\ q.critiques = r.critiques
          /\ q.tests = [r.tests EXCEPT ![m.id] = Resolved(@, m)]
      BY <1>0, <1>6 DEF Applied, Shape
    <2>2. stage = "EXECUTE_FALSIFICATION_TESTS" /\ m.id = k
      BY <1>6 DEF Settles
    <2>3. m.id \in DOMAIN r.tests
      BY <1>6 DEF Accepts
    <2> HIDE DEF q
    <2>4. /\ DOMAIN q.tests = DOMAIN r.tests /\ q.tests[k] = Resolved(r.tests[k], m)
          /\ \A i \in DOMAIN r.tests : i # k => q.tests[i] = r.tests[i]
      BY <2>1, <2>2, <2>3
    <2>5. TestReached(k, q.tests[k], k)
      <3> DEFINE t == r.tests[k]
                 u == q.tests[k]
      <3>1. TestReached(k, t, k) /\ u = Resolved(t, m)
        BY <2>2, <2>3, <2>4 DEF SettledBy
      <3> HIDE DEF t, u
      <3>2. DOMAIN u = TestShape /\ u.hypothesis = t.hypothesis /\ u.evidence = t.evidence
        BY <3>1 DEF TestReached, TestShape, Resolved
      <3>3. Reached(k, "EXECUTE_FALSIFICATION_TESTS", AfterTests, k)
        BY <2>2 DEF Reached
      <3>4. TestReached(k, u, k)
        BY <3>1, <3>2, <3>3 DEF TestReached
      <3> QED BY <3>4 DEF u
    <2>6. \A i \in DOMAIN q.tests : TestReached(k, q.tests[i], i)
      BY <2>4, <2>5 DEF SettledBy
    <2> QED BY <2>1, <2>6 DEF SettledBy, RecordsSettled, SearchReached, q
  <1>7. CASE m.kind \in {"CONFIDENCE_REVISED", "STATUS_CHANGED"}
    <2>1. /\ DOMAIN q = Shape /\ q.records = r.records /\ q.claimLinks = r.claimLinks
          /\ q.retrievals = r.retrievals /\ q.critiques = r.critiques /\ q.tests = r.tests
          /\ DOMAIN q.hypotheses = DOMAIN r.hypotheses
      <3>1. CASE m.kind = "CONFIDENCE_REVISED"
        BY <1>0, <3>1 DEF Applied, Shape
      <3>2. CASE m.kind = "STATUS_CHANGED"
        BY <1>0, <3>2 DEF Applied, Shape
      <3> QED BY <1>7, <3>1, <3>2
    <2> HIDE DEF q
    <2> QED BY <2>1 DEF SettledBy, RecordsSettled, SearchReached, q
  <1>8. CASE m.kind = "COMPLETED"
    <2>1. q = r
      BY <1>8 DEF Applied
    <2> QED BY <2>1
  <1> QED BY <1>1, <1>2, <1>3, <1>4, <1>5, <1>6, <1>7, <1>8 DEF Settles

\* So do all events of an answer that holds.
LEMMA SettledAlong ==
  ASSUME AssessInv, Settled(replayed), NEW k \in WorkKeys, NEW ms, Numbered(ms), Holds(k, ms),
         NEW s, NEW q, Path(s, replayed, q, ms)
  PROVE  SettledBy(k, q)
  <1> DEFINE G == {i \in 0..Len(ms) : SettledBy(k, s[i])}
  <1>1. Len(ms) \in Nat /\ DOMAIN ms = 1..Len(ms)
    BY DEF Numbered
  <1>2. 0 \in G
    BY <1>1, SettledReached DEF Path
  <1>3. ASSUME NEW i \in 1..Len(ms), i - 1 \in G PROVE i \in G
    <2>1. SettledBy(k, s[i - 1]) /\ i \in 0..Len(ms)
      BY <1>1, <1>3
    <2>2. Accepts(s[i - 1], ms[i]) /\ s[i] = Applied(s[i - 1], ms[i])
      BY DEF Path
    <2>3. Settles(k, ms[i])
      BY <1>1, HeldSettles
    <2>4. SettledBy(k, s[i])
      BY <2>1, <2>2, <2>3, SettledOn
    <2> QED BY <2>1, <2>4
  <1> HIDE DEF G
  <1>4. Len(ms) \in G
    BY <1>1, <1>2, <1>3, Along
  <1> QED BY <1>4 DEF G, Path

\* What a job has reached its stage has handled when it is done.
LEMMA ReachedNext ==
  ASSUME AssessInv, NEW k, Finish(k), NEW x, NEW s, NEW after,
         \/ s = "SEARCH_SUPPORT" /\ after = AfterSupport
         \/ s = "SEARCH_CONTRADICTIONS" /\ after = AfterSearch
         \/ s = "DESIGN_FALSIFICATION_TESTS" /\ after = AfterDesign
         \/ s = "EXECUTE_FALSIFICATION_TESTS" /\ after = AfterTests,
         Reached(k, s, after, x)
  PROVE  Handled(s, after, x)'
  <1>1. stage \in Stages
    BY DEF AssessInv, Stages
  <1>2. CASE stage' = stage /\ done' = done \cup {k}
    BY <1>2 DEF Handled, Reached
  <1>3. CASE Follows(stage, stage')
    <2>1. stage \in after \/ stage = s
      BY DEF Reached, Handled
    <2>2. stage' \in after
      BY <1>3, <2>1, FollowsWhat DEF AfterSupport, AfterSearch, AfterDesign, AfterTests, AfterRevision
    <2> QED BY <2>2 DEF Handled
  <1> QED BY <1>1, <1>2, <1>3, Finishes

(* The invariant: answers that wait hold, and nothing is there that one of them is about to add. *)
PersistInv ==
  /\ AssessInv /\ Ranked /\ Keyed(tables) /\ Settled(replayed)
  /\ \A k \in DOMAIN answers : Holds(k, answers[k])

\* A result that is persisted settles what it is about.
LEMMA SettledKept ==
  ASSUME PersistInv, NEW k \in WorkKeys, Persist(k), Passes(k, answers[k])
  PROVE  Settled(replayed)' /\ Keyed(tables)'
  <1>1. PICK q : q = replayed'
    OBVIOUS
  <1>2. PICK s : Accepted(k, s, q, answers[k])
    BY <1>1, PersistedIs DEF PersistInv
  <1>3. AssessInv /\ Settled(replayed) /\ Finish(k) /\ world' = world /\ stage \in Stages
    BY PersistedIs DEF PersistInv, AssessInv, Stages
  <1>4. PICK ms : ms = answers[k]
    OBVIOUS
  <1>5. Holds(k, ms) /\ k \in WorkKeys \ done /\ tables' = Written(ms)
    BY <1>4 DEF PersistInv, Persist, Open
  <1>6. Keyed(tables)'
    <2>1. Current(ms)
      BY <1>4 DEF Passes, Attributed, Current
    <2>2. Keyed(Written(ms))
      BY <1>5, <2>1, HeldPasses DEF PersistInv
    <2> QED BY <1>5, <2>2
  <1>7. SettledBy(k, q)
    <2>1. Path(s, replayed, q, ms) /\ Numbered(ms)
      BY <1>2, <1>4 DEF Accepted, Fits
    <2> QED BY <1>3, <1>5, <2>1, SettledAlong
  <1>8. Pinned' = Pinned
    BY <1>3 DEF Pinned
  <1>9. RecordsSettled(replayed)'
    <2>1. RecordsSettled(q)
      BY <1>7 DEF SettledBy
    <2> QED BY <1>1, <1>8, <2>1 DEF RecordsSettled
  <1>10. SearchesSettled(replayed)'
    <2>1. ASSUME NEW id \in DOMAIN q.retrievals
          PROVE  /\ \A r \in q.retrievals[id].results : r[1] \in Pinned
                 /\ id[1] = "SUPPORT" => Handled("SEARCH_SUPPORT", AfterSupport, id[2])'
                 /\ id[1] = "CONTRADICT" => Handled("SEARCH_CONTRADICTIONS", AfterSearch, id[2])'
      <3>1. SearchReached(k, q, id)
        BY <1>7 DEF SettledBy
      <3> QED BY <1>3, <3>1, ReachedNext DEF SearchReached
    <2> QED BY <1>1, <1>8, <2>1 DEF SearchesSettled
  <1>11. stage' \notin AfterGeneration => DOMAIN q.hypotheses = {}
    <2> SUFFICES ASSUME stage' \notin AfterGeneration PROVE DOMAIN q.hypotheses = {}
      OBVIOUS
    <2>1. stage = "GENERATE_HYPOTHESES" => done \cup {k} = WorkKeys
      BY <1>3, KeysAre DEF AssessInv
    <2>2. stage \notin {"GENERATE_HYPOTHESES"} \cup AfterGeneration
      BY <1>3, <2>1, Finishes, FollowsWhat
         DEF AfterGeneration, AfterSearch, AfterDesign, AfterTests, AfterRevision
    <2> QED BY <1>7, <2>2 DEF SettledBy
  <1>12. ASSUME NEW h \in DOMAIN q.critiques PROVE Handled("DESIGN_FALSIFICATION_TESTS", AfterDesign, h)'
    <2>1. Reached(k, "DESIGN_FALSIFICATION_TESTS", AfterDesign, h)
      BY <1>7 DEF SettledBy
    <2> QED BY <1>3, <2>1, ReachedNext
  <1>13. ASSUME NEW i \in DOMAIN q.tests PROVE TestSettled(replayed, i)'
    <2> DEFINE t == q.tests[i]
    <2>1. TestReached(k, t, i)
      BY <1>7 DEF SettledBy
    <2>2. Handled("DESIGN_FALSIFICATION_TESTS", AfterDesign, t.hypothesis)'
      <3>1. PICK h : h = t.hypothesis
        OBVIOUS
      <3>2. Reached(k, "DESIGN_FALSIFICATION_TESTS", AfterDesign, h)
        BY <2>1, <3>1 DEF TestReached
      <3>3. Handled("DESIGN_FALSIFICATION_TESTS", AfterDesign, h)'
        BY <1>3, <3>2, ReachedNext
      <3> QED BY <3>1, <3>3 DEF Handled
    <2>3. ~Handled("EXECUTE_FALSIFICATION_TESTS", AfterTests, i)' => t.status = "PENDING"
      <3>1. Reached(k, "EXECUTE_FALSIFICATION_TESTS", AfterTests, i)
              => Handled("EXECUTE_FALSIFICATION_TESTS", AfterTests, i)'
        BY <1>3, ReachedNext
      <3> QED BY <2>1, <3>1 DEF TestReached
    <2>4. t = replayed'.tests[i]
      BY <1>1
    <2> HIDE DEF t
    <2> QED BY <1>8, <2>1, <2>2, <2>3, <2>4 DEF TestReached, TestSettled, Handled
  <1> QED BY <1>1, <1>6, <1>9, <1>10, <1>11, <1>12, <1>13 DEF Settled

\* What the siblings wait with holds on.
LEMMA HoldsKept ==
  ASSUME PersistInv, NEW k \in WorkKeys, Persist(k), Passes(k, answers[k]), NEW x \in DOMAIN answers'
  PROVE  Holds(x, answers[x])'
  <1>1. PICK q : q = replayed'
    OBVIOUS
  <1>2. TestsBecome(k, q)
    <2>1. PICK s, ms : Accepted(k, s, q, ms)
      BY <1>1, PersistedIs DEF PersistInv
    <2> QED BY <2>1, ResultBecomes
  <1>3. /\ AssessInv /\ Finish(k) /\ world' = world /\ stage \in Stages
        /\ DOMAIN answers \subseteq WorkKeys \ done
        /\ answers' = Restrict(answers, DOMAIN answers \ {k})
    BY PersistedIs DEF PersistInv, AssessInv, Stages
  <1>4. x \in DOMAIN answers /\ x # k /\ answers'[x] = answers[x] /\ x \in WorkKeys
    BY <1>3 DEF Restrict
  <1>5. PICK ms : ms = answers[x]
    OBVIOUS
  <1>6. Holds(x, ms)
    BY <1>4, <1>5 DEF PersistInv
  <1>7. stage' = stage /\ WorkKeys # {CaseKey}
    <2>1. done \cup {k} # WorkKeys
      BY <1>3, <1>4
    <2>2. WorkKeys # {CaseKey}
      BY <1>4
    <2> QED BY <1>3, <2>1, <2>2, Finishes
  <1>8. Pinned' = Pinned /\ Promotes' = Promotes /\ Searches' = Searches /\ Intent' = Intent
        /\ BatchOfJob(x)' = BatchOfJob(x)
    BY <1>3, <1>7 DEF Pinned, Promotes, Searches, Intent, BatchOfJob, Candidates
  <1>9. stage \notin {"GENERATE_HYPOTHESES"} \cup AfterTests
    BY <1>3, <1>7, KeysAre
  <1>10. ASSUME stage = "DESIGN_FALSIFICATION_TESTS" PROVE CritiqueHolds(Pinned, q, x, ms)
    <2>1. CritiqueHolds(Pinned, replayed, x, ms) /\ q.records = replayed.records
      BY <1>2, <1>6, <1>10 DEF Holds, TestsBecome, Promotes, KindOf
    <2>2. \A t : Resolvable(q, t) <=> Resolvable(replayed, t)
      BY <2>1, RecordsResolve
    <2> QED BY <2>1, <2>2 DEF CritiqueHolds, TestProposed
  <1>11. ASSUME stage = "EXECUTE_FALSIFICATION_TESTS" PROVE ResolutionHolds(Pinned, q.tests[x], x, ms)
    <2>1. x \in DOMAIN replayed.tests \ {k}
      BY <1>3, <1>4, <1>11, KeysAre
    <2>2. q.tests[x] = replayed.tests[x]
      BY <1>2, <1>11, <2>1 DEF TestsBecome
    <2> QED BY <1>6, <1>11, <2>2 DEF Holds
  <1>12. /\ Promotes => RecordsHold(Pinned, KindOf[stage], BatchOfJob(x), ms)
         /\ Searches => SearchHolds(Pinned, Intent, x, ms)
    BY <1>6 DEF Holds
  <1>13. answers'[x] = ms
    BY <1>4, <1>5
  <1> QED BY <1>1, <1>7, <1>8, <1>9, <1>10, <1>11, <1>12, <1>13 DEF Holds, AfterTests, AfterRevision

\* The invariant holds at first,
LEMMA InitPersist == Init => PersistInv
  <1> SUFFICES ASSUME Init PROVE PersistInv
    OBVIOUS
  <1>1. AssessInv /\ Ranked
    BY InitAssess, InitRanked
  <1>2. /\ stage = "PROMOTE_TIMELINE" /\ answers = <<>> /\ tables = EmptyTables
        /\ replayed = Stored(EmptyTables)
    BY DEF Init
  <1>3. Keyed(tables)
    BY <1>2 DEF Keyed, EmptyTables, TableShape
  <1>4. /\ DOMAIN replayed.records = {} /\ replayed.claimLinks = {} /\ DOMAIN replayed.retrievals = {}
        /\ DOMAIN replayed.hypotheses = {} /\ DOMAIN replayed.critiques = {} /\ DOMAIN replayed.tests = {}
    BY <1>2 DEF Stored, EmptyTables
  <1>5. Settled(replayed)
    BY <1>4 DEF Settled, RecordsSettled, SearchesSettled
  <1>6. DOMAIN answers = {}
    BY <1>2
  <1> QED BY <1>1, <1>3, <1>5, <1>6 DEF PersistInv

\* nothing but the answers and the evidence changing,
LEMMA PersistStays ==
  ASSUME PersistInv, AssessInv', Ranked', UNCHANGED <<world, stage, done, tables, replayed>>,
         \A x \in DOMAIN answers' : Holds(x, answers'[x])
  PROVE  PersistInv'
  <1>1. Keyed(tables)'
    BY DEF PersistInv, Keyed
  <1>2. Pinned' = Pinned
    BY DEF Pinned
  <1>3. Settled(replayed)'
    <2>1. RecordsSettled(replayed)'
      BY <1>2 DEF PersistInv, Settled, RecordsSettled
    <2>2. SearchesSettled(replayed)'
      BY <1>2 DEF PersistInv, Settled, SearchesSettled, Handled
    <2>3. \A i \in DOMAIN replayed'.tests : TestSettled(replayed, i)'
      BY <1>2 DEF PersistInv, Settled, TestSettled, Handled
    <2> QED BY <2>1, <2>2, <2>3 DEF PersistInv, Settled, Handled
  <1>4. ASSUME NEW x \in DOMAIN answers' PROVE Holds(x, answers[x])'
    <2>1. Holds(x, answers'[x])
      OBVIOUS
    <2>2. Promotes' = Promotes /\ Searches' = Searches /\ Intent' = Intent /\ BatchOfJob(x)' = BatchOfJob(x)
      BY DEF Promotes, Searches, Intent, BatchOfJob, Candidates
    <2> QED BY <1>2, <2>1, <2>2 DEF Holds
  <1> QED BY <1>1, <1>3, <1>4 DEF PersistInv

\* and at every step.
LEMMA StepPersist == PersistInv /\ [Next]_vars => PersistInv'
  <1> SUFFICES ASSUME PersistInv, [Next]_vars PROVE PersistInv'
    OBVIOUS
  <1>0. /\ AssessInv' /\ Ranked'
        /\ \A x \in DOMAIN answers : Holds(x, answers[x])
    BY StepAssess, StepRanked DEF PersistInv
  <1>1. CASE UNCHANGED vars
    BY <1>0, <1>1, PersistStays DEF vars
  <1>2. ASSUME NEW k \in WorkKeys, Answer(k) PROVE PersistInv'
    <2>1. PICK ms \in Results(k) : answers' = Put(answers, k, ms)
      BY <1>2 DEF Answer
    <2>2. Holds(k, ms)
      BY AnswerHolds DEF PersistInv
    <2>3. DOMAIN answers' = DOMAIN answers \cup {k}
          /\ \A x \in DOMAIN answers' : answers'[x] = IF x = k THEN ms ELSE answers[x]
      BY <2>1 DEF Put
    <2>4. \A x \in DOMAIN answers' : Holds(x, answers'[x])
      BY <1>0, <2>2, <2>3
    <2> QED BY <1>0, <1>2, <2>4, PersistStays DEF Answer
  <1>3. ASSUME NEW k \in WorkKeys, Exhausted(k) \/ Unavailable(k) PROVE PersistInv'
    <2>1. DOMAIN answers' = {}
      BY <1>3 DEF Exhausted, Unavailable
    <2> QED BY <1>0, <1>3, <2>1, PersistStays DEF Exhausted, Unavailable
  <1>4. ASSUME NEW k \in WorkKeys, Lost(k) PROVE PersistInv'
    <2>1. DOMAIN answers' = DOMAIN answers \ {k} /\ \A x \in DOMAIN answers' : answers'[x] = answers[x]
      BY <1>4 DEF Lost, Restrict
    <2>2. \A x \in DOMAIN answers' : Holds(x, answers'[x])
      BY <1>0, <2>1
    <2> QED BY <1>0, <1>4, <2>2, PersistStays DEF Lost
  <1>5. ASSUME NEW k \in WorkKeys, Persist(k) PROVE PersistInv'
    <2>1. CASE Passes(k, answers[k])
      BY <1>0, <1>5, <2>1, SettledKept, HoldsKept DEF PersistInv
    <2>2. CASE ~Passes(k, answers[k])
      <3>1. DOMAIN answers' = {} /\ UNCHANGED <<world, stage, done, tables, replayed>>
        BY <1>5, <2>2 DEF Persist
      <3> QED BY <1>0, <3>1, PersistStays
    <2> QED BY <2>1, <2>2
  <1>6. CASE Reinterpret
    BY <1>0, <1>6, PersistStays DEF Reinterpret
  <1> QED BY <1>1, <1>2, <1>3, <1>4, <1>5, <1>6 DEF Next

\* Each waiting answer whose evidence is still there passes: it holds, and what holds passes.
LEMMA PersistFits == PersistInv => AnswersPersist
  <1> SUFFICES ASSUME PersistInv, NEW k \in DOMAIN answers,
                      \A i \in DOMAIN answers[k] : TestEvidence(answers[k][i]) \subseteq eligible
               PROVE  Passes(k, answers[k])
    BY DEF AnswersPersist
  <1>1. k \in WorkKeys \ done /\ Holds(k, answers[k]) /\ Current(answers[k])
    BY DEF PersistInv, AssessInv, Current
  <1>2. PICK ms : ms = answers[k]
    OBVIOUS
  <1>3. Passes(k, ms)
    BY <1>1, <1>2, HeldPasses DEF PersistInv
  <1> QED BY <1>2, <1>3

\* An answer that was accepted when it was computed passes every check of persist_stage_result,
\* whatever siblings commit in the meantime, and the tables then hold what the event log replays to:
\* in every world, for every order of the jobs and of withdrawals, unless a test of the answer names
\* evidence that has been withdrawn from the investigation since.
THEOREM AnswersAlwaysPersist == Spec => []AnswersPersist
  BY InitPersist, StepPersist, PersistFits, PTL DEF Spec
=============================================================================
