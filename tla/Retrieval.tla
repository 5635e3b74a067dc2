------------------------------ MODULE Retrieval ------------------------------
(***************************************************************************)
(* casezero_retrieval/repository.py: the search over pinned evidence.       *)
(*                                                                         *)
(* fts maps the pinned evidence to its text rank for the query, in          *)
(* hundredths, 0 where the text does not match.  A query has filters, empty *)
(* or absent when they are not used, and a limit.  records maps the ids     *)
(* <<kind, number>> of the canonical records to what they say and link.     *)
(***************************************************************************)
EXTENDS Integers, Sequences, FiniteSets, SequencesExt

Linked(records, e, S) == {r \in S : \E l \in records[r].links : l[1] = e}

EntityScore(q, records, e) ==
  IF q.entities = {} THEN 0
  ELSE (100 * Cardinality(Linked(records, e, q.entities))) \div Cardinality(q.entities)

Within(q, at) == at # 0 /\ at \in q.from..q.until

TimeScore(q, records, e) ==
  IF q.timed /\ \E r \in DOMAIN records : /\ r[1] = "timeline"
                                          /\ Within(q, records[r].says.at)
                                          /\ Linked(records, e, {r}) # {}
  THEN 100 ELSE 0

\* the total of the "scored" subquery, in ten-thousandths
Total(q, fts, records, e) ==
  55 * fts[e] + 20 * EntityScore(q, records, e) + 15 * TimeScore(q, records, e)
    + 10 * (IF q.types # {} THEN 100 ELSE 0)

Matches(q, evidence, fts, records, e) ==
  /\ fts[e] > 0
  /\ q.types = {} \/ evidence[e].type \in q.types
  /\ q.entities = {} \/ EntityScore(q, records, e) > 0
  /\ q.timed => TimeScore(q, records, e) > 0

\* order by: the total, its parts, the id of the evidence
Before(q, fts, records, a, b) ==
  LET Parts(e) == <<Total(q, fts, records, e), fts[e], EntityScore(q, records, e),
                    TimeScore(q, records, e)>>
      Higher(x, y) == \E i \in DOMAIN x : x[i] > y[i] /\ \A j \in 1..i - 1 : x[j] = y[j]
  IN Higher(Parts(a), Parts(b)) \/ (Parts(a) = Parts(b) /\ a < b)

Page(q, S, fts, records) ==
  LET Ahead(e) == {x \in S : Before(q, fts, records, x, e)}
  IN [n \in 1..Min({q.limit, Cardinality(S)}) |-> CHOOSE e \in S : Cardinality(Ahead(e)) = n - 1]

SearchCutFirst(q, evidence, fts, records) ==
  SelectSeq(Page(q, {e \in DOMAIN evidence : fts[e] > 0}, fts, records),
            LAMBDA e : Matches(q, evidence, fts, records, e))
\* RetrievalRepository.search: the ids in rank order
Search(q, evidence, fts, records) ==
  Page(q, {e \in DOMAIN evidence : Matches(q, evidence, fts, records, e)}, fts, records)
=============================================================================
