------------------------------ MODULE Promotion ------------------------------
(***************************************************************************)
(* casezero_investigation/promotion.py: which answers of the model become   *)
(* claims, entities and timeline events.                                    *)
(*                                                                         *)
(* The three kinds have one shape.  A candidate has what it says (text and  *)
(* status of a claim; text, time and precision of an event; type of an      *)
(* entity), the names of an entity, and links <<evidence, polarity>>, the   *)
(* polarity being CITED except for claims.  A draft has the same and its    *)
(* source candidates.  Names and texts stand for their _identity: spellings *)
(* that differ in case or white space are one value, and which of the names *)
(* of an entity is the canonical one is left out.                           *)
(***************************************************************************)
EXTENDS Integers, FiniteSets, FiniteSetsExt

CONSTANT BatchSize   \* candidates handed to one promotion job (3 in the code)

ASSUME PromotionAssumption == BatchSize \in Nat \ {0}

\* Candidates are numbered in the order of their ids; job k gets the k-th batch.
Batch(cands, k) == {c \in DOMAIN cands : k * BatchSize < c /\ c <= (k + 1) * BatchSize}

NamesOf(cands, S) == UNION {cands[c].names : c \in S}
LinksOf(cands, S) == UNION {cands[c].links : c \in S}

EvidenceOf(links) == {l[1] : l \in links}

ConnectedToFirst(cands, S) == \A c \in S : cands[c].names \cap cands[Min(S)].names # {}
\* _entity_names: starting from the first candidate, take in one that shares a
\* name with those already in, until none is left (merge) or none shares (refuse).
Connected(cands, S) ==
  LET walk[n \in 0..Cardinality(S)] ==
        IF n = 0 THEN [known |-> cands[Min(S)].names, rest |-> S \ {Min(S)}]
        ELSE LET w      == walk[n - 1]
                 shared == {c \in w.rest : cands[c].names \cap w.known # {}}
             IN IF shared = {} THEN w
                ELSE [known |-> w.known \cup cands[Min(shared)].names,
                      rest  |-> w.rest \ {Min(shared)}]
  IN walk[Cardinality(S)].rest = {}

AnyPolarity(d, cands, active) ==
  /\ EvidenceOf(LinksOf(cands, d.sources)) \subseteq active
  /\ EvidenceOf(d.links) = EvidenceOf(LinksOf(cands, d.sources))
\* _require_evidence_links, for each polarity
ExactLinks(d, cands, active) ==
  /\ EvidenceOf(LinksOf(cands, d.sources)) \subseteq active
  /\ d.links = LinksOf(cands, d.sources)

\* What the draft types and the materialize functions ask of each draft.
Sound(d, cands, active) ==
  /\ d.sources # {} /\ d.links # {}
  /\ \A c \in d.sources : cands[c].says = d.says
  /\ ExactLinks(d, cands, active)
  /\ d.kind = "entity" => Connected(cands, d.sources)
  /\ d.names = NamesOf(cands, d.sources)

\* _promotion_inputs: every candidate of the batch in exactly one draft
Accounted(D, B) ==
  /\ UNION {d.sources : d \in D} = B
  /\ \A a, b \in D : a # b => a.sources \cap b.sources = {}

\* The answers for batch B that the materialize functions accept, out of drafts
\* that the model may make up: no more drafts than candidates can be accounted.
PromotionAnswers(drafts, cands, B, active) ==
  LET sound == {d \in drafts : d.sources \subseteq B /\ Sound(d, cands, active)}
  IN {D \in UNION {kSubset(n, sound) : n \in 1..Cardinality(B)} : Accounted(D, B)}
=============================================================================
