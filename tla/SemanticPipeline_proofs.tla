------------------------ MODULE SemanticPipeline_proofs ------------------------
(***************************************************************************)
(* Proofs about the semantic stage, for any number of sessions, units,     *)
(* prompt versions and observations and for any bound on the concurrency:  *)
(* no call is repeated, the report of an ended session can be relied on,   *)
(* a clean session covers the case, the lock closes the active evidence    *)
(* and a completion counts the evidence of the run it names.               *)
(***************************************************************************)
EXTENDS SemanticPipeline, FiniteSetTheorems, WellFoundedInduction, TLAPS

(***************************************************************************)
(* The inductive invariant, session by session.                            *)
(***************************************************************************)
Holding == {"storing", "inserting", "completing", "committing"}
Called == {"recording", "refused", "returned"} \cup Holding
Returned == {"returned"} \cup Holding
Inserted == {"completing", "committing"}
Unfinished == {"queued", "auditing", "calling"} \cup Called

NoneRaised(s) == \A u \in Unit : task[s][u] # "raised"

\* The tasks of a session that does not run are over; the open transaction is the one of the
\* task that is storing, and it names a run only when it is about to commit.
TaskInv(s) ==
  /\ phase[s] = "new" <=> prompt[s] = None
  /\ phase[s] = "new" => \A u \in Unit : task[s][u] = "none"
  /\ phase[s] # "running" => holder[s] = None /\ \A u \in Unit : task[s][u] \in Settled \cup {"none"}
  /\ \A u \in Unit : task[s][u] \in Holding <=> holder[s] = u
  /\ \A u \in Unit : task[s][u] \in Returned \cup {"done"} => got[s][u] >= 0
  /\ chosen[s] # NoSession =>
       /\ phase[s] = "running" /\ holder[s] # None /\ task[s][holder[s]] = "committing"
       /\ prompt[chosen[s]] = prompt[s]

Items == {r \in rows : r.kind = "item"}
ItemsOf(R, s, u) == {r \in R : r.kind = "item" /\ r.session = s /\ r.unit = u}

\* The items of a unit exist from their insertion on, in the transaction and then in the
\* table, and all together.
ItemInv(s) ==
  /\ \A r \in written[s] : r.session = s
  /\ \A u \in Unit :
       ItemsOf(written[s], s, u) = IF task[s][u] \in Inserted THEN ItemRows(s, u, got[s][u]) ELSE {}
  /\ phase[s] # "lost" => \A u \in Unit :
       ItemsOf(rows, s, u) = IF task[s][u] = "done" THEN ItemRows(s, u, got[s][u]) ELSE {}

Audited(s, u) == Row("audit", s, u, 0) \in Seen(s)
Recorded(s, u) == Row("run", s, u, 0) \in Seen(s)

\* As long as no task of the session raised, nothing that was executed is lost, and only the
\* lock makes a completion write nothing.
TrailInv(s) ==
  phase[s] # "lost" /\ NoneRaised(s) =>
    /\ \A u \in Unit : task[s][u] \in {"calling"} \cup Called => Audited(s, u)
    /\ \A u \in Unit : task[s][u] \in Returned => Recorded(s, u)
    /\ \A r \in Seen(s) : r.session = s /\ r.kind \in {"run", "failure"} => Audited(s, r.unit)
    /\ caseState = "BLIND" => \A u \in Unit :
         /\ task[s][u] = "committing" => chosen[s] # NoSession
         /\ task[s][u] = "done" => completion[u].run # NoSession

\* What a running session counts as complete is, and what it still has to do is not.
CoverInv(s) ==
  phase[s] = "running" =>
    /\ \A u \in Unit : task[s][u] \in Unfinished => ~Completed(prompt[s], u)
    /\ \A u \in Unit : task[s][u] = "reused" => Completed(prompt[s], u)
    /\ NoneRaised(s) /\ caseState = "BLIND" =>
         \A u \in Unit : task[s][u] = "done" => Completed(prompt[s], u)

SessionInv(s) == TaskInv(s) /\ ItemInv(s) /\ TrailInv(s) /\ CoverInv(s)

OneRunning == \A s, t \in Session : phase[s] = "running" /\ phase[t] = "running" => s = t
CompletionInv == \A u \in Unit : completion[u].run # NoSession => prompt[completion[u].run] # None

\* Once the lock has read the evidence, a transaction with items names no run.
LockInv ==
  /\ locker = "idle" => caseState = "BLIND"
  /\ locker = "done" <=> caseState = "LOCKED"
  /\ locker # "idle" => \A s \in Session : \A r \in written[s] : r.kind = "item" =>
       caseState = "LOCKED" /\ chosen[s] = NoSession

SemanticInv ==
  TypeOK /\ (\A s \in Session : SessionInv(s)) /\ OneRunning /\ CompletionInv /\ LockInv

-----------------------------------------------------------------------------
(***************************************************************************)
(* Lemmas on the operators.                                                *)
(***************************************************************************)
\* The sessions of a set have a latest one, NoSession apart.
LEMMA LatestExists ==
  ASSUME NEW S, S \subseteq 0..Sessions, S # {}
  PROVE  Max(S) \in S /\ \A y \in S : Max(S) >= y
  <1> DEFINE T == {Sessions - x : x \in S}
  <1>1. Sessions \in Nat
    BY SemanticAssumption
  <1>2. T \subseteq Nat /\ T # {}
    <2>1. \A x \in S : Sessions - x \in Nat
      BY <1>1
    <2> QED BY <2>1
  <1>3. PICK m \in T : \A y \in T : ~(<<y, m>> \in OpToRel(<, Nat))
    <2> HIDE DEF T
    <2> QED BY <1>2, NatLessThanWellFounded, WFMin
  <1>4. PICK x \in S : m = Sessions - x
    BY <1>3
  <1>5. ASSUME NEW y \in S PROVE x >= y
    <2>1. Sessions - y \in T /\ Sessions - y \in Nat /\ m \in Nat
      BY <1>2, <1>3
    <2>2. ~(Sessions - y < m)
      BY <1>3, <2>1 DEF OpToRel
    <2>3. x \in Int /\ y \in Int
      BY <1>1
    <2> QED BY <1>1, <1>4, <2>2, <2>3
  <1> QED BY <1>5 DEF Max

\* An answer of n observations is n rows.
LEMMA ItemRowsSize ==
  ASSUME NEW s, NEW u, NEW n \in Nat
  PROVE  Cardinality(ItemRows(s, u, n)) = n
  <1> DEFINE f == [i \in 1..n |-> Row("item", s, u, i)]
  <1>1. \A i, j \in 1..n : f[i] = f[j] => i = j
    <2>1. \A i \in 1..n : f[i].n = i
      BY DEF Row
    <2> QED BY <2>1
  <1>2. f \in Bijection(1..n, ItemRows(s, u, n))
    BY <1>1 DEF Bijection, Injection, Surjection, IsInjective, ItemRows
  <1>3. ExistsBijection(1..n, ItemRows(s, u, n))
    BY <1>2 DEF ExistsBijection
  <1> QED BY <1>3, FS_Bijection, FS_Interval

LEMMA RowFields ==
  ASSUME NEW kind \in {"audit", "run", "failure", "item"}, NEW s \in Session, NEW u \in Unit,
         NEW n \in 0..MaxItems
  PROVE  /\ Row(kind, s, u, n) \in RowType
         /\ Row(kind, s, u, n).kind = kind /\ Row(kind, s, u, n).session = s
         /\ Row(kind, s, u, n).unit = u
  BY DEF Row, RowType

LEMMA ItemRowsFields ==
  ASSUME NEW s \in Session, NEW u \in Unit, NEW n \in 0..MaxItems
  PROVE  /\ ItemRows(s, u, n) \subseteq RowType
         /\ \A r \in ItemRows(s, u, n) : r.kind = "item" /\ r.session = s /\ r.unit = u
  <1>1. \A i \in 1..n : i \in 0..MaxItems
    BY SemanticAssumption
  <1> QED BY <1>1, RowFields DEF ItemRows

\* A task goes on, the others stay where they are.
LEMMA Moved ==
  ASSUME TypeOK, NEW s \in Session, NEW u \in Unit, NEW w \in Where, Go(s, u, w)
  PROVE  /\ task' \in [Session -> [Unit -> Where]]
         /\ task'[s][u] = w
         /\ \A v \in Unit : v # u => task'[s][v] = task[s][v]
         /\ \A t \in Session : t # s => task'[t] = task[t]
  BY DEF TypeOK, Go

\* A session that runs leaves the others alone, and what it adds to the tables is its own.
LEMMA Others ==
  ASSUME SemanticInv, NEW s \in Session, phase[s] = "running",
         NEW t \in Session, t # s,
         prompt' = prompt, phase'[t] = phase[t], task'[t] = task[t], got'[t] = got[t],
         holder'[t] = holder[t], written'[t] = written[t], chosen'[t] = chosen[t],
         caseState' = caseState, rows \subseteq rows', \A r \in rows' \ rows : r.session = s,
         \A u \in Unit : completion[u].run # NoSession => completion'[u].run # NoSession
  PROVE  SessionInv(t)'
  <1>1. phase[t] # "running" /\ SessionInv(t)
    BY DEF SemanticInv, OneRunning
  <1>2. holder[t] = None /\ written[t] = {} /\ \A u \in Unit : task[t][u] \in Settled \cup {"none"}
    BY <1>1 DEF SessionInv, TaskInv, SemanticInv, TypeOK
  <1>3. chosen[t] = NoSession
    BY <1>1 DEF SessionInv, TaskInv
  <1>4. TaskInv(t)'
    BY <1>1, <1>3 DEF SessionInv, TaskInv
  <1>5. ItemInv(t)'
    <2>1. \A u \in Unit : ItemsOf(rows', t, u) = ItemsOf(rows, t, u)
      BY DEF ItemsOf
    <2> QED BY <1>1, <2>1 DEF SessionInv, ItemInv
  <1>6. TrailInv(t)'
    <2>1. \A u \in Unit : task[t][u] \notin {"calling"} \cup Called /\ task[t][u] # "committing"
      BY <1>2 DEF Settled, Called, Holding
    <2>2. \A u \in Unit : task[t][u] \notin Returned
      BY <1>2 DEF Settled, Returned, Holding
    <2>3. Seen(t) \subseteq Seen(t)' /\ \A r \in Seen(t)' : r.session = t => r \in Seen(t)
      BY <1>2 DEF Seen
    <2> QED BY <1>1, <2>1, <2>2, <2>3 DEF SessionInv, TrailInv, NoneRaised, Audited
  <1>7. CoverInv(t)'
    BY <1>1 DEF CoverInv
  <1> QED BY <1>4, <1>5, <1>6, <1>7 DEF SessionInv

(***************************************************************************)
(* Statements outside and inside a transaction.                            *)
(***************************************************************************)
\* The session s adds the rows R, to the tables or to its open transaction.
Adds(s, R) ==
  /\ rows \subseteq rows' /\ rows' \subseteq RowType
  /\ written' \in [Session -> SUBSET RowType]
  /\ \A t \in Session : t # s => written'[t] = written[t]
  /\ written[s] \subseteq written'[s]
  /\ holder[s] = None => written'[s] = written[s]
  /\ Seen(s)' = Seen(s) \cup R
  /\ \A r \in rows' \ rows : r \in R
  /\ \A r \in written'[s] \ written[s] : r \in R

LEMMA Executed ==
  ASSUME TypeOK, NEW s \in Session, NEW R \in SUBSET RowType, Execute(s, R)
  PROVE  Adds(s, R)
  <1>1. CASE holder[s] = None
    BY <1>1 DEF Execute, Adds, Seen, TypeOK
  <1>2. CASE holder[s] # None
    <2>1. rows' = rows /\ written' = [written EXCEPT ![s] = written[s] \cup R]
      BY <1>2 DEF Execute
    <2>2. written'[s] = written[s] \cup R /\ \A t \in Session : t # s => written'[t] = written[t]
      BY <2>1 DEF TypeOK
    <2>3. written' \in [Session -> SUBSET RowType]
      BY <2>1 DEF TypeOK
    <2> QED BY <1>2, <2>1, <2>2, <2>3 DEF Adds, Seen, TypeOK
  <1> QED BY <1>1, <1>2

LEMMA AddsNothing ==
  ASSUME TypeOK, NEW s \in Session, UNCHANGED <<rows, written>>
  PROVE  Adds(s, {})
  BY DEF Adds, Seen, TypeOK

\* A task that is under way belongs to a session that runs.
LEMMA UnderWay ==
  ASSUME SemanticInv, NEW s \in Session, NEW u \in Unit, task[s][u] \notin Settled \cup {"none"}
  PROVE  phase[s] = "running" /\ prompt[s] # None
  BY DEF SemanticInv, SessionInv, TaskInv

\* A task that is not storing goes on.
LEMMA Goes ==
  ASSUME SemanticInv, NEW s \in Session, NEW u \in Unit, NEW w \in Where, Go(s, u, w),
         task[s][u] \in Unfinished \ Holding,
         w \in Where \ (Holding \cup {"none", "queued", "done", "reused", "raised"}),
         UNCHANGED <<prompt, phase, holder, chosen, completion, caseVars>>,
         got' \in [Session -> [Unit -> Invented..MaxItems]],
         \A t \in Session : t # s => got'[t] = got[t],
         \A v \in Unit : v # u => got'[s][v] = got[s][v],
         w = "returned" => got'[s][u] >= 0,
         NEW R \in SUBSET RowType, Adds(s, R),
         \A r \in R : r.session = s /\ r.kind # "item",
         NoneRaised(s) =>
           /\ w \in {"calling"} \cup Called => Audited(s, u)'
           /\ w = "returned" => Recorded(s, u)'
           /\ \A r \in R : r.kind \in {"run", "failure"} => Audited(s, r.unit)'
  PROVE  SemanticInv'
  <1>1. /\ task' \in [Session -> [Unit -> Where]]
        /\ task'[s][u] = w
        /\ \A v \in Unit : v # u => task'[s][v] = task[s][v]
        /\ \A t \in Session : t # s => task'[t] = task[t]
    BY Moved DEF SemanticInv
  <1>2. phase[s] = "running" /\ prompt[s] # None
    BY UnderWay DEF Unfinished, Called, Holding, Settled
  <1>3. SessionInv(s)
    BY DEF SemanticInv
  <1>4. task[s][u] # "raised" /\ task[s][u] # "done" /\ task[s][u] \notin Holding /\ w \notin Holding
        /\ w # "raised" /\ w # "done" /\ w # "none" /\ w # "reused"
    BY DEF Unfinished, Called, Holding
  <1>5. TypeOK'
    BY <1>1 DEF SemanticInv, TypeOK, Adds, caseVars
  <1>6. TaskInv(s)'
    <2>1. chosen[s] # NoSession => holder[s] \in Unit \ {u}
      BY <1>3, <1>4, SemanticAssumption DEF SessionInv, TaskInv, SemanticInv, TypeOK
    <2> QED BY <1>1, <1>2, <1>3, <1>4, <2>1 DEF SessionInv, TaskInv, Returned
  <1>7. ItemInv(s)'
    <2>1. \A r \in written'[s] : r.session = s
      BY <1>3 DEF SessionInv, ItemInv, Adds
    <2>2. \A v \in Unit : /\ ItemsOf(written'[s], s, v) = ItemsOf(written[s], s, v)
                          /\ ItemsOf(rows', s, v) = ItemsOf(rows, s, v)
      BY DEF ItemsOf, Adds
    <2>3. task[s][u] \notin Inserted /\ w \notin Inserted
      BY <1>4 DEF Inserted, Holding
    <2> QED BY <1>1, <1>2, <1>3, <1>4, <2>1, <2>2, <2>3 DEF SessionInv, ItemInv
  <1>8. TrailInv(s)'
    <2> SUFFICES ASSUME NoneRaised(s)'
                 PROVE  /\ \A v \in Unit : task'[s][v] \in {"calling"} \cup Called => Audited(s, v)'
                        /\ \A v \in Unit : task'[s][v] \in Returned => Recorded(s, v)'
                        /\ \A r \in Seen(s)' : r.session = s /\ r.kind \in {"run", "failure"} => Audited(s, r.unit)'
                        /\ caseState' = "BLIND" => \A v \in Unit :
                             /\ task'[s][v] = "committing" => chosen'[s] # NoSession
                             /\ task'[s][v] = "done" => completion'[v].run # NoSession
      BY DEF TrailInv
    <2>1. NoneRaised(s)
      BY <1>1, <1>4 DEF NoneRaised
    <2>2. Seen(s)' = Seen(s) \cup R
      BY DEF Adds
    <2>3. \A v \in Unit : task'[s][v] \in {"calling"} \cup Called => Audited(s, v)'
      BY <1>1, <1>2, <1>3, <2>1, <2>2 DEF SessionInv, TrailInv, Audited
    <2>4. \A v \in Unit : task'[s][v] \in Returned => Recorded(s, v)'
      BY <1>1, <1>2, <1>3, <1>4, <2>1, <2>2 DEF SessionInv, TrailInv, Recorded, Returned
    <2>5. \A r \in Seen(s)' : r.session = s /\ r.kind \in {"run", "failure"} => Audited(s, r.unit)'
      BY <1>2, <1>3, <2>1, <2>2 DEF SessionInv, TrailInv, Audited
    <2>6. caseState' = "BLIND" => \A v \in Unit :
            /\ task'[s][v] = "committing" => chosen'[s] # NoSession
            /\ task'[s][v] = "done" => completion'[v].run # NoSession
      BY <1>1, <1>2, <1>3, <1>4, <2>1 DEF SessionInv, TrailInv, Holding, caseVars
    <2> QED BY <2>3, <2>4, <2>5, <2>6
  <1>9. CoverInv(s)'
    <2>1. \A v \in Unit : Completed(prompt[s], v)' <=> Completed(prompt[s], v)
      BY DEF Completed
    <2>2. ~Completed(prompt[s], u)
      BY <1>2, <1>3 DEF SessionInv, CoverInv
    <2>3. NoneRaised(s)' => NoneRaised(s)
      BY <1>1, <1>4 DEF NoneRaised
    <2> QED BY <1>1, <1>2, <1>3, <1>4, <2>1, <2>2, <2>3 DEF SessionInv, CoverInv, caseVars
  <1>10. \A t \in Session : SessionInv(t)'
    <2> SUFFICES ASSUME NEW t \in Session, t # s PROVE SessionInv(t)'
      BY <1>6, <1>7, <1>8, <1>9 DEF SessionInv
    <2> QED BY <1>1, <1>2, Others DEF Adds, caseVars
  <1>11. OneRunning' /\ CompletionInv'
    BY DEF SemanticInv, OneRunning, CompletionInv
  <1>12. LockInv'
    <2>1. \A t \in Session : \A r \in written'[t] : r.kind = "item" => r \in written[t]
      BY DEF Adds
    <2> QED BY <2>1 DEF SemanticInv, LockInv, caseVars
  <1> QED BY <1>5, <1>10, <1>11, <1>12 DEF SemanticInv

LEMMA StartInv ==
  ASSUME SemanticInv, NEW s \in Session, NEW u \in Unit, Start(s, u)
  PROVE  SemanticInv'
  <1>1. task[s][u] = "queued" /\ Go(s, u, "auditing")
        /\ UNCHANGED <<prompt, phase, got, holder, written, chosen, rows, completion, caseVars>>
    BY DEF Start
  <1>2. Adds(s, {})
    BY <1>1, AddsNothing DEF SemanticInv
  <1>3. "queued" \in Unfinished \ Holding /\ "auditing" \in Where /\ "auditing" \notin {"calling"} \cup Called
        /\ "auditing" \in Where \ (Holding \cup {"none", "queued", "done", "reused", "raised"})
    BY DEF Unfinished, Called, Holding, Where, Statements
  <1>4. got' \in [Session -> [Unit -> Invented..MaxItems]]
    BY <1>1 DEF SemanticInv, TypeOK
  <1> QED BY <1>1, <1>2, <1>3, <1>4, Goes

LEMMA AuditInv ==
  ASSUME SemanticInv, NEW s \in Session, NEW u \in Unit, Audit(s, u)
  PROVE  SemanticInv'
  <1> DEFINE R == {Row("audit", s, u, 0)}
  <1>1. task[s][u] = "auditing" /\ Go(s, u, "calling") /\ Execute(s, R)
        /\ UNCHANGED <<prompt, phase, got, holder, chosen, completion, caseVars>>
    BY DEF Audit
  <1>2. R \in SUBSET RowType /\ \A r \in R : r.session = s /\ r.kind = "audit"
    BY RowFields, SemanticAssumption
  <1>3. Adds(s, R)
    BY <1>1, <1>2, Executed DEF SemanticInv
  <1>4. "auditing" \in Unfinished \ Holding /\ "calling" \in Where /\ "calling" \notin Returned
        /\ "calling" \in Where \ (Holding \cup {"none", "queued", "done", "reused", "raised"})
    BY DEF Unfinished, Called, Holding, Where, Statements, Returned
  <1>5. got' \in [Session -> [Unit -> Invented..MaxItems]]
    BY <1>1 DEF SemanticInv, TypeOK
  <1>6. Audited(s, u)'
    BY <1>3 DEF Adds, Audited
  <1> HIDE DEF R
  <1> QED BY <1>1, <1>2, <1>3, <1>4, <1>5, <1>6, Goes

LEMMA CallInv ==
  ASSUME SemanticInv, NEW s \in Session, NEW u \in Unit, Call(s, u)
  PROVE  SemanticInv'
  <1>1. task[s][u] = "calling"
        /\ UNCHANGED <<prompt, phase, holder, written, chosen, rows, completion, caseVars>>
    BY DEF Call
  <1>2. Adds(s, {})
    BY <1>1, AddsNothing DEF SemanticInv
  <1>3. PICK w \in {"recording", "refused"} :
          /\ Go(s, u, w)
          /\ got' = got \/ \E n \in {Invented} \cup 0..MaxItems : got' = [got EXCEPT ![s][u] = n]
    BY DEF Call
  <1>4. /\ got' \in [Session -> [Unit -> Invented..MaxItems]]
        /\ \A t \in Session : t # s => got'[t] = got[t]
        /\ \A v \in Unit : v # u => got'[s][v] = got[s][v]
    <2>1. {Invented} \cup 0..MaxItems \subseteq Invented..MaxItems
      BY SemanticAssumption DEF Invented
    <2>2. got \in [Session -> [Unit -> Invented..MaxItems]]
      BY DEF SemanticInv, TypeOK
    <2>3. ASSUME NEW n \in Invented..MaxItems, got' = [got EXCEPT ![s][u] = n]
          PROVE  /\ got' \in [Session -> [Unit -> Invented..MaxItems]]
                 /\ \A t \in Session : t # s => got'[t] = got[t]
                 /\ \A v \in Unit : v # u => got'[s][v] = got[s][v]
      BY <2>2, <2>3
    <2> QED BY <1>3, <2>1, <2>2, <2>3
  <1>5. /\ "calling" \in Unfinished \ Holding /\ w \in Where
        /\ w \in Where \ (Holding \cup {"none", "queued", "done", "reused", "raised"}) /\ w # "returned"
    BY DEF Unfinished, Called, Holding, Where, Statements
  <1>6. NoneRaised(s) => Audited(s, u)'
    <2>1. phase[s] = "running"
      BY <1>1, UnderWay DEF Settled
    <2>2. NoneRaised(s) => Audited(s, u)
      BY <1>1, <2>1 DEF SemanticInv, SessionInv, TrailInv
    <2> QED BY <2>2, <1>1 DEF Audited, Seen
  <1> QED BY <1>1, <1>2, <1>3, <1>4, <1>5, <1>6, Goes

LEMMA RecordInv ==
  ASSUME SemanticInv, NEW s \in Session, NEW u \in Unit, Record(s, u)
  PROVE  SemanticInv'
  <1>1. PICK kind \in {"run", "failure"}, w \in {"returned", "failed"} :
          /\ task[s][u] \in {"recording", "refused"} /\ Go(s, u, w) /\ Execute(s, {Row(kind, s, u, 0)})
          /\ w = "returned" => got[s][u] # Invented /\ kind = "run"
          /\ UNCHANGED <<prompt, phase, got, holder, chosen, completion, caseVars>>
    BY DEF Record
  <1> DEFINE R == {Row(kind, s, u, 0)}
  <1>2. R \in SUBSET RowType /\ \A r \in R : r.session = s /\ r.kind # "item" /\ r.unit = u
    BY RowFields, SemanticAssumption
  <1>3. Adds(s, R)
    BY <1>1, <1>2, Executed DEF SemanticInv
  <1>4. /\ task[s][u] \in Unfinished \ Holding /\ task[s][u] \in Called /\ w \in Where
        /\ w \in Where \ (Holding \cup {"none", "queued", "done", "reused", "raised"})
    BY <1>1 DEF Unfinished, Called, Holding, Where, Statements, Settled
  <1>5. got' \in [Session -> [Unit -> Invented..MaxItems]] /\ (w = "returned" => got'[s][u] >= 0)
    BY <1>1, SemanticAssumption DEF SemanticInv, TypeOK, Invented
  <1>6. NoneRaised(s) => Audited(s, u)'
    <2>1. phase[s] = "running"
      BY <1>1, UnderWay DEF Settled
    <2>2. NoneRaised(s) => Audited(s, u)
      BY <1>4, <2>1 DEF SemanticInv, SessionInv, TrailInv
    <2> QED BY <2>2, <1>3 DEF Audited, Adds
  <1>7. w = "returned" => Recorded(s, u)'
    BY <1>1, <1>3 DEF Recorded, Adds
  <1> HIDE DEF R
  <1> QED BY <1>1, <1>2, <1>3, <1>4, <1>5, <1>6, <1>7, Goes

(***************************************************************************)
(* The steps of persist_semantic_result before its commit.                 *)
(***************************************************************************)
LEMMA Stores ==
  ASSUME SemanticInv, NEW s \in Session, NEW u \in Unit, NEW w \in Holding, Go(s, u, w),
         task[s][u] \in Returned, task[s][u] # "committing",
         UNCHANGED <<prompt, phase, got, rows, completion, caseVars>>,
         holder[s] \in {u, None}, holder' = [holder EXCEPT ![s] = u],
         written' \in [Session -> SUBSET RowType],
         \A t \in Session : t # s => written'[t] = written[t],
         written[s] \subseteq written'[s],
         \A r \in written'[s] \ written[s] : r \in ItemRows(s, u, got[s][u]),
         ItemsOf(written'[s], s, u) = IF w \in Inserted THEN ItemRows(s, u, got[s][u]) ELSE {},
         chosen' \in [Session -> 0..Sessions],
         \A t \in Session : t # s => chosen'[t] = chosen[t],
         chosen'[s] # NoSession => w = "committing" /\ prompt[chosen'[s]] = prompt[s],
         w = "committing" /\ caseState = "BLIND" /\ NoneRaised(s) => chosen'[s] # NoSession,
         LockInv'
  PROVE  SemanticInv'
  <1> w \in Where
    BY DEF Holding, Where, Statements
  <1>1. /\ task' \in [Session -> [Unit -> Where]]
        /\ task'[s][u] = w
        /\ \A v \in Unit : v # u => task'[s][v] = task[s][v]
        /\ \A t \in Session : t # s => task'[t] = task[t]
    BY Moved DEF SemanticInv
  <1>2. phase[s] = "running" /\ prompt[s] # None
    BY UnderWay DEF Returned, Holding, Settled
  <1>3. SessionInv(s)
    BY DEF SemanticInv
  <1>4. /\ task[s][u] # "raised" /\ task[s][u] # "done" /\ task[s][u] \in Called
        /\ task[s][u] \in Unfinished /\ w \in Called /\ w \in Unfinished /\ w \in Returned
        /\ w # "raised" /\ w # "done" /\ w # "none" /\ w # "reused"
    BY DEF Unfinished, Called, Holding, Returned
  <1>5. holder' \in [Session -> Unit \cup {None}] /\ holder'[s] = u
        /\ \A t \in Session : t # s => holder'[t] = holder[t]
    BY DEF SemanticInv, TypeOK
  <1>6. None \notin Unit
    BY SemanticAssumption
  <1>7. TypeOK'
    BY <1>1, <1>5, <1>6 DEF SemanticInv, TypeOK, caseVars
  <1>8. TaskInv(s)'
    <2>1. \A v \in Unit : task'[s][v] \in Holding <=> holder'[s] = v
      BY <1>1, <1>3, <1>5, <1>6 DEF SessionInv, TaskInv
    <2>2. \A v \in Unit : task'[s][v] \in Returned \cup {"done"} => got'[s][v] >= 0
      BY <1>1, <1>3 DEF SessionInv, TaskInv
    <2>3. chosen'[s] # NoSession =>
            /\ holder'[s] # None /\ task'[s][holder'[s]] = "committing"
            /\ prompt'[chosen'[s]] = prompt'[s]
      BY <1>1, <1>5, <1>6
    <2> QED BY <1>2, <1>3, <2>1, <2>2, <2>3 DEF SessionInv, TaskInv
  <1>9. ItemInv(s)'
    <2>1. got[s][u] \in 0..MaxItems
      BY <1>3, SemanticAssumption DEF SessionInv, TaskInv, SemanticInv, TypeOK, Invented
    <2>2. \A r \in ItemRows(s, u, got[s][u]) : r.session = s /\ r.unit = u
      BY <2>1, ItemRowsFields
    <2>3. \A r \in written'[s] : r.session = s
      BY <1>3, <2>2 DEF SessionInv, ItemInv
    <2>4. \A v \in Unit : v # u => ItemsOf(written'[s], s, v) = ItemsOf(written[s], s, v)
      BY <2>2 DEF ItemsOf
    <2> QED BY <1>1, <1>3, <1>4, <2>3, <2>4 DEF SessionInv, ItemInv
  <1>10. TrailInv(s)'
    <2> SUFFICES ASSUME NoneRaised(s)'
                 PROVE  /\ \A v \in Unit : task'[s][v] \in {"calling"} \cup Called => Audited(s, v)'
                        /\ \A v \in Unit : task'[s][v] \in Returned => Recorded(s, v)'
                        /\ \A r \in Seen(s)' : r.session = s /\ r.kind \in {"run", "failure"} => Audited(s, r.unit)'
                        /\ caseState' = "BLIND" => \A v \in Unit :
                             /\ task'[s][v] = "committing" => chosen'[s] # NoSession
                             /\ task'[s][v] = "done" => completion'[v].run # NoSession
      BY DEF TrailInv
    <2>1. NoneRaised(s)
      BY <1>1, <1>4 DEF NoneRaised
    <2>2. Seen(s) \subseteq Seen(s)' /\ \A r \in Seen(s)' : r.kind # "item" => r \in Seen(s)
      <3>1. got[s][u] \in 0..MaxItems
        BY <1>3, SemanticAssumption DEF SessionInv, TaskInv, SemanticInv, TypeOK, Invented
      <3>2. \A r \in ItemRows(s, u, got[s][u]) : r.kind = "item"
        BY <3>1, ItemRowsFields
      <3> QED BY <3>2 DEF Seen
    <2>3. \A v \in Unit : task'[s][v] \in {"calling"} \cup Called => Audited(s, v)'
      BY <1>1, <1>2, <1>3, <1>4, <2>1, <2>2 DEF SessionInv, TrailInv, Audited
    <2>4. \A v \in Unit : task'[s][v] \in Returned => Recorded(s, v)'
      BY <1>1, <1>2, <1>3, <1>4, <2>1, <2>2 DEF SessionInv, TrailInv, Recorded
    <2>5. \A r \in Seen(s)' : r.session = s /\ r.kind \in {"run", "failure"} => Audited(s, r.unit)'
      BY <1>2, <1>3, <2>1, <2>2 DEF SessionInv, TrailInv, Audited
    <2>6. \A v \in Unit : v # u => task[s][v] # "committing"
      BY <1>3, <1>6 DEF SessionInv, TaskInv, Holding
    <2>7. caseState' = "BLIND" => \A v \in Unit :
            /\ task'[s][v] = "committing" => chosen'[s] # NoSession
            /\ task'[s][v] = "done" => completion'[v].run # NoSession
      BY <1>1, <1>2, <1>3, <1>4, <2>1, <2>6 DEF SessionInv, TrailInv, caseVars
    <2> QED BY <2>3, <2>4, <2>5, <2>7
  <1>11. CoverInv(s)'
    <2>1. \A v \in Unit : Completed(prompt[s], v)' <=> Completed(prompt[s], v)
      BY DEF Completed
    <2>2. ~Completed(prompt[s], u)
      BY <1>2, <1>3, <1>4 DEF SessionInv, CoverInv
    <2>3. NoneRaised(s)' => NoneRaised(s)
      BY <1>1, <1>4 DEF NoneRaised
    <2> QED BY <1>1, <1>2, <1>3, <1>4, <2>1, <2>2, <2>3 DEF SessionInv, CoverInv, caseVars
  <1>12. \A t \in Session : SessionInv(t)'
    <2> SUFFICES ASSUME NEW t \in Session, t # s PROVE SessionInv(t)'
      BY <1>8, <1>9, <1>10, <1>11 DEF SessionInv
    <2> QED BY <1>1, <1>2, <1>5, Others DEF caseVars
  <1>13. OneRunning' /\ CompletionInv'
    BY DEF SemanticInv, OneRunning, CompletionInv
  <1> QED BY <1>7, <1>12, <1>13 DEF SemanticInv

LEMMA BeginStoreInv ==
  ASSUME SemanticInv, NEW s \in Session, NEW u \in Unit, BeginStore(s, u)
  PROVE  SemanticInv'
  <1>1. PICK w \in {"completing", "storing"} :
          /\ task[s][u] = "returned" /\ holder[s] = None /\ holder' = [holder EXCEPT ![s] = u]
          /\ Go(s, u, w) /\ (w = "completing" <=> got[s][u] = 0)
          /\ UNCHANGED <<prompt, phase, got, written, chosen, rows, completion, caseVars>>
    BY DEF BeginStore, LockFree
  <1>2. written[s] = {} /\ chosen[s] = NoSession
    BY <1>1 DEF SemanticInv, TypeOK, SessionInv, TaskInv
  <1>3. ItemsOf(written'[s], s, u) = IF w \in Inserted THEN ItemRows(s, u, got[s][u]) ELSE {}
    BY <1>1, <1>2 DEF ItemsOf, ItemRows, Inserted
  <1>4. LockInv'
    BY <1>1 DEF SemanticInv, LockInv, caseVars
  <1>5. written' \in [Session -> SUBSET RowType] /\ chosen' \in [Session -> 0..Sessions]
    BY <1>1 DEF SemanticInv, TypeOK
  <1>6. w \in Holding /\ task[s][u] \in Returned /\ task[s][u] # "committing" /\ w # "committing"
    BY <1>1 DEF Holding, Returned
  <1> QED BY <1>1, <1>2, <1>3, <1>4, <1>5, <1>6, Stores

\* The open transaction is the one of the storing task.
LEMMA Holds ==
  ASSUME SemanticInv, NEW s \in Session, NEW u \in Unit, task[s][u] \in Holding
  PROVE  /\ holder[s] = u /\ u # None /\ holder = [holder EXCEPT ![s] = u]
         /\ task[s][u] \in Returned
         /\ got[s][u] \in 0..MaxItems
         /\ \A v \in Unit : v # u => task[s][v] \notin Holding
  <1>1. holder[s] = u /\ u # None
    BY SemanticAssumption DEF SemanticInv, SessionInv, TaskInv
  <1>2. holder = [holder EXCEPT ![s] = u]
    BY <1>1 DEF SemanticInv, TypeOK
  <1>3. task[s][u] \in Returned
    BY DEF Returned
  <1>4. got[s][u] \in 0..MaxItems
    BY <1>3, SemanticAssumption DEF SessionInv, TaskInv, SemanticInv, TypeOK, Invented
  <1>5. \A v \in Unit : v # u => task[s][v] \notin Holding
    BY <1>1 DEF SemanticInv, SessionInv, TaskInv
  <1> QED BY <1>1, <1>2, <1>3, <1>4, <1>5

LEMMA GuardItemsInv ==
  ASSUME SemanticInv, NEW s \in Session, NEW u \in Unit, GuardItems(s, u)
  PROVE  SemanticInv'
  <1>1. /\ task[s][u] = "storing" /\ Go(s, u, "inserting")
        /\ UNCHANGED <<prompt, phase, got, holder, written, chosen, rows, completion, caseVars>>
    BY DEF GuardItems
  <1>2. "inserting" \in Holding /\ task[s][u] \in Holding /\ "inserting" \notin Inserted /\ task[s][u] \notin Inserted
    BY <1>1 DEF Holding, Inserted
  <1>3. ItemsOf(written'[s], s, u) = {}
    BY <1>1, <1>2 DEF SemanticInv, SessionInv, ItemInv
  <1>4. LockInv'
    BY <1>1 DEF SemanticInv, LockInv, caseVars
  <1>5. written' \in [Session -> SUBSET RowType] /\ chosen' \in [Session -> 0..Sessions]
    BY <1>1 DEF SemanticInv, TypeOK
  <1>6. chosen[s] = NoSession
    BY <1>1, <1>2, Holds DEF SemanticInv, SessionInv, TaskInv
  <1> QED BY <1>1, <1>2, <1>3, <1>4, <1>5, <1>6, Holds, Stores

LEMMA AddItemsInv ==
  ASSUME SemanticInv, NEW s \in Session, NEW u \in Unit, AddItems(s, u)
  PROVE  SemanticInv'
  <1> DEFINE R == ItemRows(s, u, got[s][u])
  <1>1. /\ task[s][u] = "inserting" /\ locker # "holding" /\ Go(s, u, "completing")
        /\ written' = [written EXCEPT ![s] = written[s] \cup R]
        /\ UNCHANGED <<prompt, phase, got, holder, chosen, rows, completion, caseVars>>
    BY DEF AddItems, CaseRowFree
  <1>2. "completing" \in Holding /\ task[s][u] \in Holding /\ "completing" \in Inserted /\ task[s][u] \notin Inserted
    BY <1>1 DEF Holding, Inserted
  <1>3. R \subseteq RowType /\ \A r \in R : r.kind = "item" /\ r.session = s /\ r.unit = u
    BY <1>2, Holds, ItemRowsFields
  <1> HIDE DEF R
  <1>4. /\ written' \in [Session -> SUBSET RowType] /\ written'[s] = written[s] \cup R
        /\ \A t \in Session : t # s => written'[t] = written[t]
    BY <1>1, <1>3 DEF SemanticInv, TypeOK
  <1>5. ItemsOf(written'[s], s, u) = R
    <2>1. ItemsOf(written[s], s, u) = {}
      BY <1>2 DEF SemanticInv, SessionInv, ItemInv
    <2> QED BY <1>3, <1>4, <2>1 DEF ItemsOf
  <1>6. /\ task' \in [Session -> [Unit -> Where]] /\ task'[s][u] = "completing"
        /\ \A v \in Unit : v # u => task'[s][v] = task[s][v]
        /\ \A t \in Session : t # s => task'[t] = task[t]
    BY <1>1, Moved DEF SemanticInv, Where, Statements
  <1>7. chosen' \in [Session -> 0..Sessions] /\ chosen[s] = NoSession
    BY <1>1, <1>2, Holds DEF SemanticInv, TypeOK, SessionInv, TaskInv
  <1>8. LockInv'
    <2>1. locker # "idle" => caseState = "LOCKED"
      BY <1>1 DEF SemanticInv, TypeOK, LockInv
    <2> QED BY <1>1, <1>4, <1>7, <2>1 DEF SemanticInv, LockInv, caseVars
  <1>9. /\ holder[s] = u /\ holder' = [holder EXCEPT ![s] = u] /\ task[s][u] \in Returned
        /\ task[s][u] # "committing" /\ "completing" # "committing"
    BY <1>1, <1>2, Holds
  <1>10. UNCHANGED <<prompt, phase, got, rows, completion, caseVars>> /\ chosen' = chosen
    BY <1>1
  <1>11. /\ written[s] \subseteq written'[s]
         /\ \A r \in written'[s] \ written[s] : r \in ItemRows(s, u, got[s][u])
         /\ ItemsOf(written'[s], s, u) = IF "completing" \in Inserted THEN ItemRows(s, u, got[s][u]) ELSE {}
    BY <1>2, <1>4, <1>5 DEF R
  <1> QED BY <1>1, <1>2, <1>4, <1>7, <1>8, <1>9, <1>10, <1>11, Stores

LEMMA CompleteInv ==
  ASSUME SemanticInv, NEW s \in Session, NEW u \in Unit, Complete(s, u)
  PROVE  SemanticInv'
  <1> DEFINE c == LatestRun(s, u)
  <1>1. /\ task[s][u] = "completing" /\ Go(s, u, "committing")
        /\ chosen' = [chosen EXCEPT ![s] = c]
        /\ UNCHANGED <<prompt, phase, got, holder, written, rows, completion, caseVars>>
    BY DEF Complete
  <1>2. "committing" \in Holding /\ task[s][u] \in Holding /\ "committing" \in Inserted /\ task[s][u] \in Inserted
    BY <1>1 DEF Holding, Inserted
  <1>3. phase[s] = "running"
    BY <1>1, UnderWay DEF Settled
  <1>4. c \in Candidates(s, u) \cup {NoSession} /\ \A y \in Candidates(s, u) \cup {NoSession} : c >= y
    <2>1. Candidates(s, u) \cup {NoSession} \subseteq 0..Sessions
      BY SemanticAssumption DEF Candidates, Session, NoSession
    <2> QED BY <2>1, LatestExists DEF LatestRun
  <1>5. c # NoSession => c \in Session /\ prompt[c] = prompt[s]
    BY <1>4 DEF Candidates
  <1>6. NoneRaised(s) /\ caseState = "BLIND" => c # NoSession
    <2> SUFFICES ASSUME NoneRaised(s), caseState = "BLIND" PROVE c # NoSession
      OBVIOUS
    <2>1. Recorded(s, u)
      BY <1>2, <1>3, Holds DEF SemanticInv, SessionInv, TrailInv
    <2>2. s \in Candidates(s, u)
      BY <2>1 DEF Candidates, Recorded, RunsVisible
    <2>3. c >= s /\ s >= 1 /\ c \in 0..Sessions
      BY <1>4, <1>5, <2>2, SemanticAssumption DEF Session, NoSession
    <2> QED BY <2>3, SemanticAssumption DEF NoSession, Session
  <1> HIDE DEF c
  <1>7. /\ chosen' \in [Session -> 0..Sessions] /\ chosen'[s] = c
        /\ \A t \in Session : t # s => chosen'[t] = chosen[t]
    <2>1. c \in 0..Sessions
      BY <1>5, SemanticAssumption DEF Session, NoSession
    <2> QED BY <1>1, <2>1 DEF SemanticInv, TypeOK
  <1>8. LockInv'
    <2>1. caseState = "LOCKED" => c = NoSession
      BY <1>4 DEF Candidates, RunsVisible, c
    <2> QED BY <1>1, <1>7, <2>1 DEF SemanticInv, LockInv, caseVars
  <1>9. ItemsOf(written'[s], s, u) = ItemRows(s, u, got[s][u])
    BY <1>1, <1>2 DEF SemanticInv, SessionInv, ItemInv
  <1>10. written' \in [Session -> SUBSET RowType]
    BY <1>1 DEF SemanticInv, TypeOK
  <1>11. /\ holder[s] = u /\ holder' = [holder EXCEPT ![s] = u] /\ task[s][u] \in Returned
    BY <1>1, <1>2, Holds
  <1>12. /\ task[s][u] # "committing" /\ UNCHANGED <<prompt, phase, got, rows, completion, caseVars>>
         /\ \A t \in Session : written'[t] = written[t]
    BY <1>1
  <1>13. ItemsOf(written'[s], s, u) =
           IF "committing" \in Inserted THEN ItemRows(s, u, got[s][u]) ELSE {}
    BY <1>2, <1>9
  <1>14. /\ chosen'[s] # NoSession => prompt[chosen'[s]] = prompt[s]
         /\ caseState = "BLIND" /\ NoneRaised(s) => chosen'[s] # NoSession
    BY <1>5, <1>6, <1>7
  <1>15. Go(s, u, "committing") /\ "committing" \in Holding
    BY <1>1, <1>2
  <1> QED BY <1>7, <1>8, <1>10, <1>11, <1>12, <1>13, <1>14, <1>15, Stores

LEMMA CommitInv ==
  ASSUME SemanticInv, NEW s \in Session, NEW u \in Unit, Commit(s, u)
  PROVE  SemanticInv'
  <1>1. /\ task[s][u] = "committing" /\ Go(s, u, "done") /\ rows' = rows \cup written[s]
        /\ completion' = IF chosen[s] = NoSession THEN completion
                         ELSE [completion EXCEPT ![u] = [run |-> chosen[s], count |-> got[s][u]]]
        /\ written' = [written EXCEPT ![s] = {}] /\ holder' = [holder EXCEPT ![s] = None]
        /\ chosen' = [chosen EXCEPT ![s] = NoSession]
        /\ UNCHANGED <<prompt, phase, got, caseVars>>
    BY DEF Commit, Released
  <1>2. task[s][u] \in Holding /\ task[s][u] \in Inserted /\ task[s][u] \in Unfinished
    BY <1>1 DEF Holding, Inserted, Unfinished, Called
  <1>3. SessionInv(s) /\ phase[s] = "running" /\ prompt[s] # None
    BY <1>1, UnderWay DEF SemanticInv, Settled
  <1>4. /\ task' \in [Session -> [Unit -> Where]] /\ task'[s][u] = "done"
        /\ \A v \in Unit : v # u => task'[s][v] = task[s][v] /\ task[s][v] \notin Holding
        /\ \A t \in Session : t # s => task'[t] = task[t]
    BY <1>1, <1>2, Moved, Holds DEF SemanticInv, Where, Settled
  <1>5. /\ written' \in [Session -> SUBSET RowType] /\ written'[s] = {}
        /\ holder' \in [Session -> Unit \cup {None}] /\ holder'[s] = None
        /\ chosen' \in [Session -> 0..Sessions] /\ chosen'[s] = NoSession
        /\ \A t \in Session : t # s =>
             written'[t] = written[t] /\ holder'[t] = holder[t] /\ chosen'[t] = chosen[t]
    BY <1>1, SemanticAssumption DEF SemanticInv, TypeOK, NoSession
  <1>6. /\ completion' \in [Unit -> [run : 0..Sessions, count : 0..MaxItems]]
        /\ \A v \in Unit : v # u => completion'[v] = completion[v]
        /\ chosen[s] = NoSession => completion' = completion
        /\ chosen[s] # NoSession => completion'[u].run = chosen[s]
    <2>1. [run |-> chosen[s], count |-> got[s][u]] \in [run : 0..Sessions, count : 0..MaxItems]
      BY <1>2, Holds DEF SemanticInv, TypeOK
    <2> QED BY <1>1, <2>1 DEF SemanticInv, TypeOK
  <1>7. TypeOK'
    <2>1. rows' \subseteq RowType
      BY <1>1 DEF SemanticInv, TypeOK
    <2> QED BY <1>1, <1>4, <1>5, <1>6, <2>1 DEF SemanticInv, TypeOK, caseVars
  <1>8. TaskInv(s)'
    <2>1. \A v \in Unit : task'[s][v] \notin Holding /\ holder'[s] # v
      BY <1>4, <1>5, SemanticAssumption DEF Holding
    <2>2. \A v \in Unit : task'[s][v] \in Returned \cup {"done"} => got'[s][v] >= 0
      BY <1>1, <1>3, <1>4 DEF SessionInv, TaskInv, Returned, Holding
    <2> QED BY <1>1, <1>3, <1>5, <2>1, <2>2 DEF SessionInv, TaskInv
  <1>9. ItemInv(s)'
    <2>1. \A v \in Unit : ItemsOf(rows', s, v) = ItemsOf(rows, s, v) \cup ItemsOf(written[s], s, v)
      BY <1>1 DEF ItemsOf
    <2>2. \A v \in Unit : v # u => ItemsOf(written[s], s, v) = {} /\ task'[s][v] \notin Inserted
      BY <1>3, <1>4 DEF SessionInv, ItemInv, Inserted, Holding
    <2>3. /\ ItemsOf(written[s], s, u) = ItemRows(s, u, got[s][u]) /\ ItemsOf(rows, s, u) = {}
          /\ "done" \notin Inserted
      BY <1>1, <1>2, <1>3 DEF SessionInv, ItemInv, Inserted
    <2>4. \A v \in Unit : ItemsOf(written'[s], s, v) = {}
      BY <1>5 DEF ItemsOf
    <2>5. \A v \in Unit : ItemsOf(rows', s, v) = IF task'[s][v] = "done" THEN ItemRows(s, v, got[s][v]) ELSE {}
      <3>1. \A v \in Unit : v # u => ItemsOf(rows', s, v) = ItemsOf(rows, s, v)
        BY <2>1, <2>2
      <3>2. ItemsOf(rows', s, u) = ItemRows(s, u, got[s][u])
        BY <2>1, <2>3
      <3> QED BY <1>3, <1>4, <3>1, <3>2 DEF SessionInv, ItemInv
    <2>6. \A v \in Unit : task'[s][v] \notin Inserted
      BY <1>4, <2>2, <2>3
    <2> QED BY <1>1, <1>5, <2>4, <2>5, <2>6 DEF ItemInv
  <1>10. TrailInv(s)'
    <2> SUFFICES ASSUME NoneRaised(s)'
                 PROVE  /\ \A v \in Unit : task'[s][v] \in {"calling"} \cup Called => Audited(s, v)'
                        /\ \A v \in Unit : task'[s][v] \in Returned => Recorded(s, v)'
                        /\ \A r \in Seen(s)' : r.session = s /\ r.kind \in {"run", "failure"} => Audited(s, r.unit)'
                        /\ caseState' = "BLIND" => \A v \in Unit :
                             /\ task'[s][v] = "committing" => chosen'[s] # NoSession
                             /\ task'[s][v] = "done" => completion'[v].run # NoSession
      BY DEF TrailInv
    <2>1. NoneRaised(s)
      BY <1>1, <1>4 DEF NoneRaised
    <2>2. Seen(s)' = Seen(s)
      BY <1>1, <1>5 DEF Seen
    <2>3. "done" \notin {"calling"} \cup Called /\ "done" \notin Returned
      BY DEF Called, Returned, Holding
    <2>4. \A v \in Unit : task'[s][v] \in {"calling"} \cup Called => Audited(s, v)'
      BY <1>3, <1>4, <2>1, <2>2, <2>3 DEF SessionInv, TrailInv, Audited
    <2>5. \A v \in Unit : task'[s][v] \in Returned => Recorded(s, v)'
      BY <1>3, <1>4, <2>1, <2>2, <2>3 DEF SessionInv, TrailInv, Recorded
    <2>6. \A r \in Seen(s)' : r.session = s /\ r.kind \in {"run", "failure"} => Audited(s, r.unit)'
      BY <1>3, <2>1, <2>2 DEF SessionInv, TrailInv, Audited
    <2>7. caseState' = "BLIND" => \A v \in Unit :
            /\ task'[s][v] # "committing"
            /\ task'[s][v] = "done" => completion'[v].run # NoSession
      BY <1>1, <1>3, <1>4, <1>6, <2>1 DEF SessionInv, TrailInv, Holding, caseVars
    <2> QED BY <2>4, <2>5, <2>6, <2>7
  <1>11. CoverInv(s)'
    <2>1. \A v \in Unit : v # u => (Completed(prompt[s], v)' <=> Completed(prompt[s], v))
      BY <1>1, <1>6 DEF Completed
    <2>2. NoneRaised(s)' /\ caseState = "BLIND" => Completed(prompt[s], u)'
      <3>1. NoneRaised(s)' => NoneRaised(s)
        BY <1>1, <1>4 DEF NoneRaised
      <3>2. NoneRaised(s) /\ caseState = "BLIND" => chosen[s] # NoSession /\ prompt[chosen[s]] = prompt[s]
        BY <1>1, <1>3 DEF SessionInv, TrailInv, TaskInv
      <3> QED BY <1>1, <1>6, <3>1, <3>2 DEF Completed
    <2>3. "done" \notin Unfinished
      BY DEF Unfinished, Called, Holding
    <2>4. NoneRaised(s)' => NoneRaised(s)
      BY <1>1, <1>4 DEF NoneRaised
    <2> QED BY <1>1, <1>3, <1>4, <2>1, <2>2, <2>3, <2>4 DEF SessionInv, CoverInv, caseVars
  <1>12. \A t \in Session : SessionInv(t)'
    <2> SUFFICES ASSUME NEW t \in Session, t # s PROVE SessionInv(t)'
      BY <1>8, <1>9, <1>10, <1>11 DEF SessionInv
    <2>1. \A r \in rows' \ rows : r.session = s
      BY <1>1, <1>3 DEF SessionInv, ItemInv
    <2> QED BY <1>1, <1>3, <1>4, <1>5, <1>6, <2>1, Others DEF caseVars
  <1>13. OneRunning'
    BY <1>1 DEF SemanticInv, OneRunning
  <1>14. CompletionInv'
    BY <1>1, <1>3, <1>6 DEF SemanticInv, CompletionInv, SessionInv, TaskInv
  <1>15. LockInv'
    <2>1. \A t \in Session : written'[t] \subseteq written[t] /\ chosen'[t] \in {chosen[t], NoSession}
      BY <1>5
    <2> QED BY <1>1, <2>1 DEF SemanticInv, LockInv, caseVars
  <1> QED BY <1>7, <1>12, <1>13, <1>14, <1>15 DEF SemanticInv

(***************************************************************************)
(* Errors, losses, the begin and the end of a session, the lock.           *)
(***************************************************************************)
LEMMA RaiseInv ==
  ASSUME SemanticInv, NEW s \in Session, NEW u \in Unit, Raise(s, u)
  PROVE  SemanticInv'
  <1>1. /\ task[s][u] \in Statements
        /\ task' = [task EXCEPT ![s] = [v \in Unit |-> IF v \in {u, holder[s]} THEN "raised" ELSE task[s][v]]]
        /\ written' = [written EXCEPT ![s] = {}] /\ holder' = [holder EXCEPT ![s] = None]
        /\ chosen' = [chosen EXCEPT ![s] = NoSession]
        /\ UNCHANGED <<prompt, phase, got, rows, completion, caseVars>>
    BY DEF Raise, RollBack, Uncaught
  <1>2. SessionInv(s) /\ phase[s] = "running" /\ prompt[s] # None
    BY <1>1, UnderWay DEF SemanticInv, Statements, Settled
  <1>3. "raised" \in Where /\ "raised" \notin Holding /\ "raised" \notin Unfinished /\ "raised" \notin Returned
    BY DEF Where, Holding, Unfinished, Called, Returned
  <1>4. /\ task' \in [Session -> [Unit -> Where]]
        /\ \A v \in Unit : \/ task'[s][v] = "raised" /\ task[s][v] # "done"
                           \/ task'[s][v] = task[s][v] /\ v # holder[s]
        /\ task'[s][u] = "raised"
        /\ \A t \in Session : t # s => task'[t] = task[t]
    <2>1. \A v \in {u, holder[s]} \cap Unit : task[s][v] # "done"
      BY <1>1, <1>2 DEF Statements, SessionInv, TaskInv, Holding
    <2>2. \A v \in Unit : task'[s][v] = IF v \in {u, holder[s]} THEN "raised" ELSE task[s][v]
      BY <1>1 DEF SemanticInv, TypeOK
    <2>3. task' \in [Session -> [Unit -> Where]]
      BY <1>1, <1>3 DEF SemanticInv, TypeOK
    <2>4. \A t \in Session : t # s => task'[t] = task[t]
      BY <1>1 DEF SemanticInv, TypeOK
    <2> QED BY <2>1, <2>2, <2>3, <2>4
  <1>5. /\ written' \in [Session -> SUBSET RowType] /\ written'[s] = {}
        /\ holder' \in [Session -> Unit \cup {None}] /\ holder'[s] = None
        /\ chosen' \in [Session -> 0..Sessions] /\ chosen'[s] = NoSession
        /\ \A t \in Session : t # s =>
             written'[t] = written[t] /\ holder'[t] = holder[t] /\ chosen'[t] = chosen[t]
    BY <1>1, SemanticAssumption DEF SemanticInv, TypeOK, NoSession
  <1>6. TypeOK'
    BY <1>1, <1>4, <1>5 DEF SemanticInv, TypeOK, caseVars
  <1>7. \A v \in Unit : task'[s][v] \notin Holding /\ holder'[s] # v
    BY <1>2, <1>3, <1>4, <1>5, SemanticAssumption DEF SessionInv, TaskInv
  <1>8. TaskInv(s)'
    <2>1. \A v \in Unit : task'[s][v] \in Returned \cup {"done"} => got'[s][v] >= 0
      BY <1>1, <1>2, <1>3, <1>4 DEF SessionInv, TaskInv
    <2> QED BY <1>1, <1>2, <1>5, <1>7, <2>1 DEF SessionInv, TaskInv
  <1>9. ItemInv(s)'
    <2>1. \A v \in Unit : task'[s][v] \notin Inserted /\ (task'[s][v] = "done" <=> task[s][v] = "done")
      BY <1>4, <1>7 DEF Inserted, Holding
    <2>2. \A v \in Unit : ItemsOf(written'[s], s, v) = {}
      BY <1>5 DEF ItemsOf
    <2> QED BY <1>1, <1>2, <1>5, <2>1, <2>2 DEF SessionInv, ItemInv
  <1>10. ~NoneRaised(s)'
    BY <1>4 DEF NoneRaised
  <1>11. TrailInv(s)'
    BY <1>10 DEF TrailInv
  <1>12. CoverInv(s)'
    <2>1. \A v \in Unit : Completed(prompt[s], v)' <=> Completed(prompt[s], v)
      BY <1>1 DEF Completed
    <2> QED BY <1>1, <1>2, <1>3, <1>4, <1>10, <2>1 DEF SessionInv, CoverInv
  <1>13. \A t \in Session : SessionInv(t)'
    <2> SUFFICES ASSUME NEW t \in Session, t # s PROVE SessionInv(t)'
      BY <1>8, <1>9, <1>11, <1>12 DEF SessionInv
    <2> QED BY <1>1, <1>2, <1>4, <1>5, Others DEF caseVars
  <1>14. OneRunning' /\ CompletionInv'
    BY <1>1 DEF SemanticInv, OneRunning, CompletionInv
  <1>15. LockInv'
    <2>1. \A t \in Session : written'[t] \subseteq written[t] /\ chosen'[t] \in {chosen[t], NoSession}
      BY <1>5
    <2> QED BY <1>1, <2>1 DEF SemanticInv, LockInv, caseVars
  <1> QED BY <1>6, <1>13, <1>14, <1>15 DEF SemanticInv

LEMMA CloseInv ==
  ASSUME SemanticInv, NEW s \in Session, Close(s)
  PROVE  SemanticInv'
  <1>1. /\ phase[s] = "running" /\ phase' = [phase EXCEPT ![s] = "lost"]
        /\ task' = [task EXCEPT ![s] = [u \in Unit |-> "none"]]
        /\ got' = [got EXCEPT ![s] = [u \in Unit |-> 0]]
        /\ written' = [written EXCEPT ![s] = {}] /\ holder' = [holder EXCEPT ![s] = None]
        /\ chosen' = [chosen EXCEPT ![s] = NoSession]
        /\ UNCHANGED <<prompt, rows, completion, caseVars>>
    BY DEF Close, RollBack
  <1>2. 0 \in Invented..MaxItems /\ "none" \in Where
    BY SemanticAssumption DEF Invented, Where
  <1>3. /\ task' \in [Session -> [Unit -> Where]] /\ \A v \in Unit : task'[s][v] = "none"
        /\ got' \in [Session -> [Unit -> Invented..MaxItems]]
        /\ phase' \in [Session -> {"new", "running", "ended", "lost"}] /\ phase'[s] = "lost"
        /\ \A t \in Session : t # s => task'[t] = task[t] /\ got'[t] = got[t] /\ phase'[t] = phase[t]
    BY <1>1, <1>2 DEF SemanticInv, TypeOK
  <1>4. /\ written' \in [Session -> SUBSET RowType] /\ written'[s] = {}
        /\ holder' \in [Session -> Unit \cup {None}] /\ holder'[s] = None
        /\ chosen' \in [Session -> 0..Sessions] /\ chosen'[s] = NoSession
        /\ \A t \in Session : t # s =>
             written'[t] = written[t] /\ holder'[t] = holder[t] /\ chosen'[t] = chosen[t]
    BY <1>1, SemanticAssumption DEF SemanticInv, TypeOK, NoSession
  <1>5. TypeOK'
    BY <1>1, <1>3, <1>4 DEF SemanticInv, TypeOK, caseVars
  <1>6. TaskInv(s)'
    <2>1. SessionInv(s)
      BY DEF SemanticInv
    <2>2. prompt[s] # None
      BY <1>1, <2>1 DEF SessionInv, TaskInv
    <2>3. "none" \notin Holding /\ "none" \notin Returned /\ None \notin Unit
      BY SemanticAssumption DEF Holding, Returned
    <2> QED BY <1>1, <1>3, <1>4, <2>2, <2>3 DEF TaskInv
  <1>7. ItemInv(s)'
    BY <1>3, <1>4 DEF ItemInv, ItemsOf, Inserted
  <1>8. TrailInv(s)' /\ CoverInv(s)'
    BY <1>3 DEF TrailInv, CoverInv
  <1>9. \A t \in Session : SessionInv(t)'
    <2> SUFFICES ASSUME NEW t \in Session, t # s PROVE SessionInv(t)'
      BY <1>6, <1>7, <1>8 DEF SessionInv
    <2> QED BY <1>1, <1>3, <1>4, Others DEF caseVars
  <1>10. OneRunning' /\ CompletionInv'
    BY <1>1, <1>3 DEF SemanticInv, OneRunning, CompletionInv
  <1>11. LockInv'
    <2>1. \A t \in Session : written'[t] \subseteq written[t] /\ chosen'[t] \in {chosen[t], NoSession}
      BY <1>4
    <2> QED BY <1>1, <2>1 DEF SemanticInv, LockInv, caseVars
  <1> QED BY <1>5, <1>9, <1>10, <1>11 DEF SemanticInv

LEMMA FinishInv ==
  ASSUME SemanticInv, NEW s \in Session, Finish(s)
  PROVE  SemanticInv'
  <1>1. /\ phase[s] = "running" /\ phase' = [phase EXCEPT ![s] = "ended"]
        /\ \A u \in Unit : task[s][u] \in Settled
        /\ UNCHANGED <<prompt, task, got, holder, written, chosen, rows, completion, caseVars>>
    BY DEF Finish
  <1>2. /\ phase' \in [Session -> {"new", "running", "ended", "lost"}] /\ phase'[s] = "ended"
        /\ \A t \in Session : t # s => phase'[t] = phase[t]
    BY <1>1 DEF SemanticInv, TypeOK
  <1>3. SessionInv(s) /\ prompt[s] # None
    BY <1>1 DEF SemanticInv, SessionInv, TaskInv
  <1>4. holder[s] = None /\ chosen[s] = NoSession
    <2>1. \A u \in Unit : holder[s] # u
      BY <1>1, <1>3 DEF SessionInv, TaskInv, Settled, Holding
    <2>2. holder[s] = None
      BY <2>1 DEF SemanticInv, TypeOK
    <2> QED BY <1>3, <2>2 DEF SessionInv, TaskInv
  <1>5. TypeOK'
    BY <1>1, <1>2 DEF SemanticInv, TypeOK, caseVars
  <1>6. TaskInv(s)'
    BY <1>1, <1>2, <1>3, <1>4 DEF SessionInv, TaskInv
  <1>7. ItemInv(s)'
    BY <1>1, <1>2, <1>3 DEF SessionInv, ItemInv
  <1>8. TrailInv(s)' /\ CoverInv(s)'
    BY <1>1, <1>2, <1>3 DEF SessionInv, TrailInv, CoverInv, NoneRaised, Audited, Recorded, Seen, caseVars
  <1>9. \A t \in Session : SessionInv(t)'
    <2> SUFFICES ASSUME NEW t \in Session, t # s PROVE SessionInv(t)'
      BY <1>6, <1>7, <1>8 DEF SessionInv
    <2> QED BY <1>1, <1>2, Others DEF caseVars
  <1>10. OneRunning' /\ CompletionInv' /\ LockInv'
    BY <1>1, <1>2 DEF SemanticInv, OneRunning, CompletionInv, LockInv, caseVars
  <1> QED BY <1>5, <1>9, <1>10 DEF SemanticInv

LEMMA PlanInv ==
  ASSUME SemanticInv, NEW s \in Session, Plan(s)
  PROVE  SemanticInv'
  <1>1. PICK p \in Prompt :
          /\ phase[s] = "new" /\ \A t \in Session : phase[t] # "running"
          /\ phase' = [phase EXCEPT ![s] = "running"] /\ prompt' = [prompt EXCEPT ![s] = p]
          /\ task' = [task EXCEPT ![s] = [u \in Unit |-> PlanFor(p, u)]]
          /\ UNCHANGED <<got, holder, written, chosen, rows, completion, caseVars>>
    BY DEF Plan
  <1>2. /\ \A u \in Unit : PlanFor(p, u) \in {"queued", "reused"}
        /\ \A u \in Unit : PlanFor(p, u) = "reused" <=> Completed(p, u)
        /\ {"queued", "reused"} \subseteq Where /\ p # None
    BY SemanticAssumption DEF PlanFor, Where, Settled
  <1>3. /\ phase' \in [Session -> {"new", "running", "ended", "lost"}] /\ phase'[s] = "running"
        /\ prompt' \in [Session -> Prompt \cup {None}] /\ prompt'[s] = p
        /\ task' \in [Session -> [Unit -> Where]] /\ \A u \in Unit : task'[s][u] = PlanFor(p, u)
        /\ \A t \in Session : t # s => phase'[t] = phase[t] /\ prompt'[t] = prompt[t] /\ task'[t] = task[t]
    BY <1>1, <1>2 DEF SemanticInv, TypeOK
  <1>4. \A t \in Session : SessionInv(t) /\ chosen[t] = NoSession /\ holder[t] = None /\ written[t] = {}
    BY <1>1 DEF SemanticInv, SessionInv, TaskInv, TypeOK
  <1>5. prompt[s] = None /\ \A u \in Unit : task[s][u] = "none"
    BY <1>1, <1>4 DEF SessionInv, TaskInv
  <1>6. \A u \in Unit : completion[u].run # NoSession => completion[u].run \in Session /\ completion[u].run # s
    <2>1. \A u \in Unit : completion[u].run \in 0..Sessions
      BY DEF SemanticInv, TypeOK
    <2> QED BY <1>5, <2>1, SemanticAssumption DEF SemanticInv, CompletionInv, Session, NoSession
  <1>7. \A u \in Unit : Completed(p, u)' <=> Completed(p, u)
    BY <1>1, <1>3, <1>6 DEF Completed
  <1>8. TypeOK'
    BY <1>1, <1>3 DEF SemanticInv, TypeOK, caseVars
  <1>9. \A u \in Unit : /\ task'[s][u] \notin Holding /\ task'[s][u] \notin Returned
                        /\ task'[s][u] \notin {"calling"} \cup Called /\ task'[s][u] \notin Inserted
                        /\ task'[s][u] # "done" /\ task'[s][u] # "committing"
    BY <1>2, <1>3 DEF Holding, Returned, Called, Inserted
  <1>10. TaskInv(s)'
    BY <1>1, <1>2, <1>3, <1>4, <1>9, SemanticAssumption DEF TaskInv
  <1>11. ItemInv(s)'
    <2>1. \A u \in Unit : ItemsOf(written[s], s, u) = {} /\ ItemsOf(rows, s, u) = {}
      BY <1>1, <1>4, <1>5 DEF SessionInv, ItemInv, ItemsOf
    <2> QED BY <1>1, <1>4, <1>9, <2>1 DEF ItemInv
  <1>12. TrailInv(s)'
    <2>1. \A r \in Seen(s) : r.session = s /\ r.kind \in {"run", "failure"} => Audited(s, r.unit)
      BY <1>1, <1>4, <1>5 DEF SessionInv, TrailInv, NoneRaised
    <2>2. \A r \in Seen(s)' : r.session = s /\ r.kind \in {"run", "failure"} => Audited(s, r.unit)'
      BY <1>1, <2>1 DEF Seen, Audited
    <2> QED BY <1>9, <2>2 DEF TrailInv
  <1>13. CoverInv(s)'
    <2>1. \A u \in Unit : /\ task'[s][u] = "reused" => Completed(p, u)'
                          /\ task'[s][u] \in Unfinished => ~Completed(p, u)'
      BY <1>2, <1>3, <1>7 DEF Unfinished, Called, Holding
    <2> QED BY <1>3, <1>9, <2>1 DEF CoverInv
  <1>14. \A t \in Session : SessionInv(t)'
    <2> SUFFICES ASSUME NEW t \in Session, t # s PROVE SessionInv(t)'
      BY <1>10, <1>11, <1>12, <1>13 DEF SessionInv
    <2>1. SessionInv(t) /\ chosen[t] = NoSession /\ phase[t] # "running"
      BY <1>1, <1>4
    <2>2. TaskInv(t)'
      BY <1>1, <1>3, <2>1 DEF SessionInv, TaskInv
    <2>3. ItemInv(t)'
      BY <1>1, <1>3, <2>1 DEF SessionInv, ItemInv
    <2>4. TrailInv(t)' /\ CoverInv(t)'
      BY <1>1, <1>3, <2>1 DEF SessionInv, TrailInv, CoverInv, NoneRaised, Audited, Recorded, Seen, caseVars
    <2> QED BY <2>2, <2>3, <2>4 DEF SessionInv
  <1>15. OneRunning'
    BY <1>1, <1>3 DEF OneRunning
  <1>16. CompletionInv'
    BY <1>1, <1>3, <1>6 DEF SemanticInv, CompletionInv
  <1>17. LockInv'
    BY <1>1, <1>4 DEF SemanticInv, LockInv, caseVars
  <1> QED BY <1>8, <1>14, <1>15, <1>16, <1>17 DEF SemanticInv

LEMMA LockStepInv ==
  ASSUME SemanticInv, LockReads \/ LockCommits \/ UNCHANGED vars
  PROVE  SemanticInv'
  <1>1. UNCHANGED <<prompt, phase, task, got, holder, written, chosen, rows, completion>>
    BY DEF LockReads, LockCommits, vars
  <1>2. TypeOK' /\ (caseState' = "BLIND" => caseState = "BLIND")
    BY <1>1 DEF SemanticInv, TypeOK, LockReads, LockCommits, vars
  <1>3. \A s \in Session : SessionInv(s)'
    BY <1>1, <1>2 DEF SemanticInv, SessionInv, TaskInv, ItemInv, TrailInv, CoverInv, NoneRaised, Audited,
                Recorded, Seen, Completed
  <1>4. OneRunning' /\ CompletionInv'
    BY <1>1 DEF SemanticInv, OneRunning, CompletionInv
  <1>5. LockInv'
    <2>1. CASE LockReads
      BY <1>1, <2>1 DEF SemanticInv, LockInv, LockReads
    <2>2. CASE LockCommits
      BY <1>1, <2>2 DEF SemanticInv, LockInv, LockCommits
    <2>3. CASE UNCHANGED vars
      BY <2>3 DEF SemanticInv, LockInv, vars
    <2> QED BY <2>1, <2>2, <2>3
  <1> QED BY <1>2, <1>3, <1>4, <1>5 DEF SemanticInv

LEMMA InitInv == Init => SemanticInv
  <1> SUFFICES ASSUME Init PROVE SemanticInv
    OBVIOUS
  <1>1. 0 \in Invented..MaxItems /\ 0 \in 0..Sessions /\ 0 \in 0..MaxItems /\ None \notin Unit
    BY SemanticAssumption DEF Invented
  <1>2. TypeOK
    BY <1>1 DEF Init, TypeOK, Where, NoSession, NoRow
  <1>3. ASSUME NEW s \in Session PROVE SessionInv(s)
    <2>1. TaskInv(s)
      BY <1>1, <1>3 DEF Init, TaskInv, Holding, Returned, NoSession
    <2>2. ItemInv(s)
      BY <1>3 DEF Init, ItemInv, ItemsOf, Inserted
    <2>3. TrailInv(s) /\ CoverInv(s)
      BY <1>3 DEF Init, TrailInv, CoverInv, Seen, Called, Holding, Returned
    <2> QED BY <2>1, <2>2, <2>3 DEF SessionInv
  <1>4. OneRunning /\ CompletionInv /\ LockInv
    BY DEF Init, OneRunning, CompletionInv, LockInv, NoRow
  <1> QED BY <1>2, <1>3, <1>4 DEF SemanticInv

LEMMA StepInv == SemanticInv /\ [Next]_vars => SemanticInv'
  <1> SUFFICES ASSUME SemanticInv, [Next]_vars PROVE SemanticInv'
    OBVIOUS
  <1>1. ASSUME NEW s \in Session, NEW u \in Unit, Interpret(s, u) PROVE SemanticInv'
    BY <1>1, StartInv, AuditInv, CallInv, RecordInv DEF Interpret
  <1>2. ASSUME NEW s \in Session, NEW u \in Unit, Store(s, u) PROVE SemanticInv'
    BY <1>2, BeginStoreInv, GuardItemsInv, AddItemsInv, CompleteInv, CommitInv DEF Store
  <1>3. ASSUME NEW s \in Session, Run(s) PROVE SemanticInv'
    BY <1>1, <1>2, <1>3, RaiseInv, CloseInv, FinishInv DEF Run, Abort
  <1>4. ASSUME NEW s \in Session, Plan(s) \/ Crash(s) PROVE SemanticInv'
    BY <1>4, PlanInv, CloseInv DEF Crash
  <1> QED BY <1>3, <1>4, LockStepInv DEF Next

LEMMA AlwaysInv == Spec => []SemanticInv
  <1> QED BY InitInv, StepInv, PTL DEF Spec

\* Before persist_semantic_result a task writes audits and model runs only.
LEMMA InterpretItems ==
  ASSUME NEW s \in Session, NEW u \in Unit, Interpret(s, u)
  PROVE  Items' = Items
  <1>1. CASE Start(s, u) \/ Call(s, u)
    BY <1>1 DEF Start, Call, Items
  <1>2. ASSUME NEW kind \in {"audit", "run", "failure"}, Execute(s, {Row(kind, s, u, 0)})
        PROVE  Items' = Items
    <2>1. Row(kind, s, u, 0).kind # "item"
      BY DEF Row
    <2> QED BY <1>2, <2>1 DEF Execute, Items
  <1> QED BY <1>1, <1>2 DEF Interpret, Audit, Record

(***************************************************************************)
(* The theorems.                                                           *)
(***************************************************************************)
\* Every variable has its type; rows are held back in an open transaction only.
THEOREM TypeCorrect == Spec => []TypeOK
  <1>1. SemanticInv => TypeOK
    BY DEF SemanticInv
  <1> QED BY <1>1, AlwaysInv, PTL

\* The report of an ended session: what it counts as done is stored entirely, and complete
\* unless the case was locked, and what it has on record is audited, in whichever
\* transaction each row was written.
THEOREM ReportHolds == Spec => []EndedSessionsKept
  <1>1. ASSUME SemanticInv PROVE EndedSessionsKept
    <2> SUFFICES ASSUME NEW s \in Session, phase[s] = "ended"
                 PROVE  /\ \A u \in Unit : task[s][u] = "done" =>
                             /\ completion[u].run # NoSession \/ caseState = "LOCKED"
                             /\ Cardinality(Stored(s, u)) = got[s][u]
                        /\ \A r \in rows : r.session = s /\ r.kind \in {"run", "failure"} =>
                             Row("audit", s, r.unit, 0) \in rows
      BY DEF EndedSessionsKept
    <2>1. SessionInv(s) /\ written[s] = {}
      BY <1>1 DEF SemanticInv, SessionInv, TaskInv, TypeOK
    <2>2. NoneRaised(s)
      BY <2>1 DEF SessionInv, TaskInv, NoneRaised, Settled
    <2>3. ASSUME NEW u \in Unit, task[s][u] = "done"
          PROVE  /\ completion[u].run # NoSession \/ caseState = "LOCKED"
                 /\ Cardinality(Stored(s, u)) = got[s][u]
      <3>1. Stored(s, u) = ItemRows(s, u, got[s][u])
        BY <2>1, <2>3 DEF SessionInv, ItemInv, ItemsOf, Stored
      <3>2. got[s][u] \in Nat
        <4>1. got[s][u] \in Invented..MaxItems /\ got[s][u] >= 0
          BY <1>1, <2>1, <2>3 DEF SemanticInv, TypeOK, SessionInv, TaskInv
        <4> QED BY <4>1, SemanticAssumption DEF Invented
      <3>3. completion[u].run # NoSession \/ caseState = "LOCKED"
        BY <1>1, <2>1, <2>2, <2>3 DEF SemanticInv, TypeOK, SessionInv, TrailInv
      <3> QED BY <3>1, <3>2, <3>3, ItemRowsSize
    <2>4. \A r \in rows : r.session = s /\ r.kind \in {"run", "failure"} => Row("audit", s, r.unit, 0) \in rows
      BY <2>1, <2>2 DEF SessionInv, TrailInv, Audited, Seen
    <2> QED BY <2>3, <2>4
  <1> QED BY <1>1, AlwaysInv, PTL

\* A session that ended before the lock and without a failed unit leaves the case complete
\* under its prompt.
THEOREM CleanCovers == Spec => CleanSessionCovers
  <1>1. ASSUME SemanticInv, [Next]_vars, NEW s \in Session, phase[s] = "running",
               phase'[s] = "ended", caseState = "BLIND", \A u \in Unit : task[s][u] # "failed"
        PROVE  \A u \in Unit : Completed(prompt[s], u)
    <2>1. \A t \in Session, u \in Unit : Interpret(t, u) \/ Store(t, u) \/ Raise(t, u) => phase' = phase
      BY DEF Interpret, Start, Audit, Call, Record, Store, BeginStore, GuardItems, AddItems,
             Complete, Commit, Raise
    <2>2. \A t \in Session : Abort(t) \/ Crash(t) => phase'[s] \in {phase[s], "lost"}
      BY <1>1 DEF Abort, Crash, Close, SemanticInv, TypeOK
    <2>3. \A t \in Session : Plan(t) => phase'[s] \in {phase[s], "running"}
      BY <1>1 DEF Plan, SemanticInv, TypeOK
    <2>4. LockReads \/ LockCommits \/ UNCHANGED vars => phase' = phase
      BY DEF LockReads, LockCommits, vars
    <2>5. \E t \in Session : Finish(t) /\ phase'[t] = "ended" /\ phase'[s] # phase[s]
      BY <1>1, <2>1, <2>2, <2>3, <2>4 DEF Next, Run, Finish, SemanticInv, TypeOK
    <2>6. \A u \in Unit : task[s][u] \in Settled
      BY <1>1, <2>5 DEF Finish, SemanticInv, TypeOK
    <2> QED BY <1>1, <2>6 DEF SemanticInv, SessionInv, CoverInv, NoneRaised, Settled
  <1>2. SemanticInv /\ [Next]_vars =>
          [\A s \in Session :
             phase[s] = "running" /\ phase'[s] = "ended"
               /\ caseState = "BLIND" /\ (\A u \in Unit : task[s][u] # "failed")
             => \A u \in Unit : Completed(prompt[s], u)]_vars
    BY <1>1
  <1> QED BY <1>2, AlwaysInv, PTL DEF Spec, CleanSessionCovers

\* The model is not called for a unit that is complete under the prompt of the session.
THEOREM CallsOnce == Spec => NoRepeatedCall
  <1>1. ASSUME SemanticInv, NEW s \in Session, NEW u \in Unit, task[s][u] = "calling"
        PROVE  ~Completed(prompt[s], u)
    <2>1. phase[s] = "running"
      BY <1>1, UnderWay DEF Settled
    <2> QED BY <1>1, <2>1 DEF SemanticInv, SessionInv, CoverInv, Unfinished
  <1>2. SemanticInv /\ [Next]_vars =>
          [\A s \in Session, u \in Unit :
             task[s][u] = "calling" /\ task'[s][u] \in {"recording", "refused"}
               => ~Completed(prompt[s], u)]_vars
    BY <1>1
  <1> QED BY <1>2, AlwaysInv, PTL DEF Spec, NoRepeatedCall

-----------------------------------------------------------------------------
(***************************************************************************)
(* What a completion counts.  complete_semantic_unit looks the run up      *)
(* again: with the run of its own session on record that is the one it     *)
(* finds, being the latest; the run is only missing when the transaction   *)
(* of another task took it along in its rollback, and then the answer was  *)
(* empty, since items refer to their run.  The older run of the same       *)
(* prompt that is named instead has no items either: they would have made  *)
(* the unit complete under that prompt, unless another prompt came since.  *)
(***************************************************************************)
\* Sessions follow each other.
InOrder == \A s, t \in Session : s < t /\ phase[t] # "new" => phase[s] \in {"ended", "lost"}

\* Items refer to their run.
RunKept(s, u) == task[s][u] \in Inserted /\ got[s][u] # 0 => Recorded(s, u)

\* A completion about to commit names the run of its own session, or an empty one, or the
\* lock hid them all.
NamesRun(s, u) ==
  task[s][u] = "committing" =>
    \/ chosen[s] = s
    \/ chosen[s] = NoSession /\ caseState = "LOCKED"
    \/ got[s][u] = 0 /\ (chosen[s] = NoSession \/ (NoRevert => Stored(chosen[s], u) = {}))

\* Until the lock, a unit with stored items stays complete under the prompt they were made
\* with, until a session with another prompt.
Replaced(t) == \E r \in Session : t < r /\ prompt[r] \notin {None, prompt[t]}
Lineage(t, u) ==
  caseState = "BLIND" /\ Stored(t, u) # {} => completion[u].run # NoSession /\ (Completed(prompt[t], u) \/ Replaced(t))

EvidenceInv ==
  /\ InOrder
  /\ \A s \in Session, u \in Unit : RunKept(s, u) /\ NamesRun(s, u) /\ Lineage(s, u)
  /\ CompletionMatchesEvidence

LEMMA EvidenceInit == Init => EvidenceInv
  <1> SUFFICES ASSUME Init PROVE EvidenceInv
    OBVIOUS
  <1>1. InOrder
    BY DEF Init, InOrder
  <1>2. ASSUME NEW s \in Session, NEW u \in Unit PROVE RunKept(s, u) /\ NamesRun(s, u) /\ Lineage(s, u)
    BY DEF Init, RunKept, NamesRun, Lineage, Stored, Inserted
  <1>3. CompletionMatchesEvidence
    BY DEF Init, CompletionMatchesEvidence, NoRow
  <1> QED BY <1>1, <1>2, <1>3 DEF EvidenceInv

\* A step that stores nothing and completes nothing.
LEMMA StoresNothing ==
  ASSUME SemanticInv, EvidenceInv, InOrder', caseState' \in {caseState, "LOCKED"}, UNCHANGED <<prompt, completion>>, Items' = Items,
         \A s \in Session, u \in Unit : RunKept(s, u)',
         \A s \in Session, u \in Unit : task'[s][u] = "committing" =>
           task[s][u] = "committing" /\ got'[s][u] = got[s][u] /\ chosen'[s] = chosen[s]
  PROVE  EvidenceInv'
  <1>1. \A s, u : Stored(s, u)' = Stored(s, u)
    BY DEF Stored, Items
  <1>2. NoRevert' <=> NoRevert
    BY DEF NoRevert
  <1>3. ASSUME NEW s \in Session, NEW u \in Unit PROVE NamesRun(s, u)'
    BY <1>1, <1>2 DEF EvidenceInv, NamesRun
  <1>4. ASSUME NEW s \in Session, NEW u \in Unit PROVE Lineage(s, u)'
    <2>1. caseState' = "BLIND" => caseState = "BLIND"
      OBVIOUS
    <2> QED BY <1>1, <2>1 DEF EvidenceInv, Lineage, Completed, Replaced
  <1>5. CompletionMatchesEvidence'
    BY <1>1, <1>2 DEF EvidenceInv, CompletionMatchesEvidence
  <1> QED BY <1>3, <1>4, <1>5 DEF EvidenceInv

\* The task of one unit goes on, and not to its commit.
LEMMA TaskGoes ==
  ASSUME SemanticInv, EvidenceInv, NEW s \in Session, NEW u \in Unit, UNCHANGED caseState,
         NEW w \in Where \ {"committing"}, Go(s, u, w),
         UNCHANGED <<prompt, phase, chosen, completion>>, Items' = Items,
         \A t \in Session : t # s => got'[t] = got[t],
         \A v \in Unit : v # u => got'[s][v] = got[s][v],
         \A t \in Session : Seen(t) \subseteq Seen(t)',
         w \in Inserted => got'[s][u] = 0 \/ Recorded(s, u)'
  PROVE  EvidenceInv'
  <1>1. /\ task'[s][u] = w
        /\ \A v \in Unit : v # u => task'[s][v] = task[s][v]
        /\ \A t \in Session : t # s => task'[t] = task[t]
    BY Moved DEF SemanticInv
  <1>2. ASSUME NEW t \in Session, NEW v \in Unit PROVE RunKept(t, v)'
    <2>1. CASE t = s /\ v = u
      BY <1>1, <2>1 DEF RunKept
    <2>2. CASE ~(t = s /\ v = u)
      <3>1. task'[t][v] = task[t][v] /\ got'[t][v] = got[t][v]
        BY <1>1, <2>2
      <3>2. Recorded(t, v) => Recorded(t, v)'
        BY DEF Recorded
      <3> QED BY <3>1, <3>2 DEF EvidenceInv, RunKept
    <2> QED BY <2>1, <2>2
  <1>3. ASSUME NEW t \in Session, NEW v \in Unit, task'[t][v] = "committing"
        PROVE  task[t][v] = "committing" /\ got'[t][v] = got[t][v]
    BY <1>1, <1>3
  <1>4. InOrder'
    BY DEF EvidenceInv, InOrder
  <1> QED BY <1>2, <1>3, <1>4, StoresNothing

LEMMA InterpretEvidence ==
  ASSUME SemanticInv, EvidenceInv, NEW s \in Session, NEW u \in Unit, Interpret(s, u)
  PROVE  EvidenceInv'
  <1>1. Items' = Items
    BY InterpretItems
  <1>2. PICK w \in {"auditing", "calling", "recording", "refused", "failed", "returned"} : Go(s, u, w)
    BY DEF Interpret, Start, Audit, Call, Record
  <1>3. UNCHANGED <<prompt, phase, chosen, completion, caseState>>
    BY DEF Interpret, Start, Audit, Call, Record, caseVars
  <1>4. w \in Where \ {"committing"} /\ w \notin Inserted
    BY DEF Where, Statements, Settled, Inserted
  <1>5. /\ \A t \in Session : t # s => got'[t] = got[t]
        /\ \A v \in Unit : v # u => got'[s][v] = got[s][v]
    <2>1. got' = got \/ \E n : got' = [got EXCEPT ![s][u] = n]
      BY DEF Interpret, Start, Audit, Call, Record
    <2> QED BY <2>1 DEF SemanticInv, TypeOK
  <1>6. \A t \in Session : Seen(t) \subseteq Seen(t)'
    <2>1. CASE Start(s, u) \/ Call(s, u)
      BY <2>1 DEF Start, Call, Seen
    <2>2. ASSUME NEW R, Execute(s, R) PROVE \A t \in Session : Seen(t) \subseteq Seen(t)'
      <3>1. rows \subseteq rows' /\ \A t \in Session : written[t] \subseteq written'[t]
        BY <2>2 DEF Execute, SemanticInv, TypeOK
      <3> QED BY <3>1 DEF Seen
    <2> QED BY <2>1, <2>2 DEF Interpret, Audit, Record
  <1> QED BY <1>1, <1>2, <1>3, <1>4, <1>5, <1>6, TaskGoes

LEMMA StoreEvidence ==
  ASSUME SemanticInv, EvidenceInv, NEW s \in Session, NEW u \in Unit,
         BeginStore(s, u) \/ GuardItems(s, u) \/ AddItems(s, u)
  PROVE  EvidenceInv'
  <1>1. PICK w \in {"storing", "inserting", "completing"} :
          Go(s, u, w) /\ (w = "completing" => got[s][u] = 0 \/ AddItems(s, u))
    BY DEF BeginStore, GuardItems, AddItems
  <1>2. UNCHANGED <<prompt, phase, got, chosen, rows, completion, caseState>>
    BY DEF BeginStore, GuardItems, AddItems, caseVars
  <1>3. w \in Where \ {"committing"} /\ (w \in Inserted => w = "completing")
    BY DEF Where, Statements, Inserted
  <1>4. \A t \in Session : Seen(t) \subseteq Seen(t)'
    <2>1. ASSUME NEW R, written' = [written EXCEPT ![s] = @ \cup R]
          PROVE  \A t \in Session : Seen(t) \subseteq Seen(t)'
      <3>1. \A t \in Session : written[t] \subseteq written'[t]
        BY <2>1 DEF SemanticInv, TypeOK
      <3> QED BY <1>2, <3>1 DEF Seen
    <2>2. written' = written \/ \E R : written' = [written EXCEPT ![s] = @ \cup R]
      BY DEF BeginStore, GuardItems, AddItems
    <2> QED BY <1>2, <2>1, <2>2 DEF Seen
  <1>5. AddItems(s, u) => Recorded(s, u)'
    BY <1>4 DEF AddItems, Recorded
  <1>6. Items' = Items
    BY <1>2 DEF Items
  <1> QED BY <1>1, <1>2, <1>3, <1>4, <1>5, <1>6, TaskGoes

LEMMA RollBackEvidence ==
  ASSUME SemanticInv, EvidenceInv, NEW s \in Session, RollBack(s), phase[s] = "running",
         \A u \in Unit : task'[s][u] \notin Holding,
         \A t \in Session : t # s => task'[t] = task[t] /\ got'[t] = got[t],
         UNCHANGED <<prompt, rows, completion, caseState>>, InOrder'
  PROVE  EvidenceInv'
  <1>1. \A t \in Session : t # s => written'[t] = written[t] /\ chosen'[t] = chosen[t]
    BY DEF RollBack, SemanticInv, TypeOK
  <1>2. ASSUME NEW t \in Session, NEW u \in Unit PROVE RunKept(t, u)'
    <2>1. CASE t = s
      BY <2>1 DEF RunKept, Inserted, Holding
    <2>2. CASE t # s
      BY <1>1, <2>2 DEF EvidenceInv, RunKept, Recorded, Seen
    <2> QED BY <2>1, <2>2
  <1>3. ASSUME NEW t \in Session, NEW u \in Unit, task'[t][u] = "committing"
        PROVE  task[t][u] = "committing" /\ got'[t][u] = got[t][u] /\ chosen'[t] = chosen[t]
    BY <1>1, <1>3 DEF Holding
  <1>4. Items' = Items
    BY DEF Items
  <1> QED BY <1>2, <1>3, <1>4, StoresNothing

LEMMA RaiseEvidence ==
  ASSUME SemanticInv, EvidenceInv, NEW s \in Session, NEW u \in Unit, Raise(s, u)
  PROVE  EvidenceInv'
  <1>1. /\ task[s][u] \in Statements /\ RollBack(s)
        /\ task' = [task EXCEPT ![s] = [v \in Unit |-> IF v \in {u, holder[s]} THEN "raised" ELSE task[s][v]]]
        /\ UNCHANGED <<prompt, phase, got, rows, completion, caseState>>
    BY DEF Raise, Uncaught, caseVars
  <1>2. /\ \A v \in Unit : task'[s][v] = IF v \in {u, holder[s]} THEN "raised" ELSE task[s][v]
        /\ \A t \in Session : t # s => task'[t] = task[t]
    BY <1>1 DEF SemanticInv, TypeOK
  <1>3. \A v \in Unit : task'[s][v] \notin Holding
    <2>1. \A v \in Unit : task[s][v] \in Holding => holder[s] = v
      BY DEF SemanticInv, SessionInv, TaskInv
    <2> QED BY <1>2, <2>1 DEF Holding
  <1>4. phase[s] = "running"
    BY <1>1, UnderWay DEF Statements, Settled
  <1>5. InOrder'
    BY <1>1 DEF EvidenceInv, InOrder
  <1> QED BY <1>1, <1>2, <1>3, <1>4, <1>5, RollBackEvidence

LEMMA CloseEvidence ==
  ASSUME SemanticInv, EvidenceInv, NEW s \in Session, Close(s)
  PROVE  EvidenceInv'
  <1>1. /\ phase[s] = "running" /\ phase' = [phase EXCEPT ![s] = "lost"] /\ RollBack(s)
        /\ task' = [task EXCEPT ![s] = [u \in Unit |-> "none"]]
        /\ got' = [got EXCEPT ![s] = [u \in Unit |-> 0]]
        /\ UNCHANGED <<prompt, rows, completion, caseState>>
    BY DEF Close, caseVars
  <1>2. /\ \A u \in Unit : task'[s][u] \notin Holding
        /\ \A t \in Session : t # s => task'[t] = task[t] /\ got'[t] = got[t]
    BY <1>1 DEF SemanticInv, TypeOK, Holding
  <1>3. InOrder'
    BY <1>1 DEF SemanticInv, TypeOK, EvidenceInv, InOrder
  <1> QED BY <1>1, <1>2, <1>3, RollBackEvidence

LEMMA QuietEvidence ==
  ASSUME SemanticInv, EvidenceInv,
         (\E s \in Session : Finish(s)) \/ LockReads \/ LockCommits \/ UNCHANGED vars
  PROVE  EvidenceInv'
  <1>1. /\ UNCHANGED <<prompt, task, got, written, chosen, rows, completion>>
        /\ caseState' \in {caseState, "LOCKED"}
    BY DEF Finish, LockReads, LockCommits, vars, caseVars
  <1>2. \A s \in Session : phase'[s] = phase[s] \/ (phase[s] = "running" /\ phase'[s] = "ended")
    BY DEF Finish, LockReads, LockCommits, vars, SemanticInv, TypeOK
  <1>3. InOrder'
    BY <1>2 DEF EvidenceInv, InOrder
  <1>4. \A s \in Session, u \in Unit : RunKept(s, u)'
    BY <1>1 DEF EvidenceInv, RunKept, Recorded, Seen
  <1>5. Items' = Items
    BY <1>1 DEF Items
  <1> QED BY <1>1, <1>3, <1>4, <1>5, StoresNothing

\* The plan of a session sets the prompt of the latest one, when no other runs.
LEMMA PlanEvidence ==
  ASSUME SemanticInv, EvidenceInv, NEW s \in Session, Plan(s)
  PROVE  EvidenceInv'
  <1>1. PICK p \in Prompt :
          /\ phase[s] = "new"
          /\ \A t \in Session : phase[t] # "running" /\ (t < s => phase[t] # "new")
          /\ phase' = [phase EXCEPT ![s] = "running"] /\ prompt' = [prompt EXCEPT ![s] = p]
          /\ task' = [task EXCEPT ![s] = [u \in Unit |-> PlanFor(p, u)]]
          /\ UNCHANGED <<got, written, chosen, rows, completion, caseState>>
    BY DEF Plan, caseVars
  <1>2. /\ \A t \in Session : phase'[t] = IF t = s THEN "running" ELSE phase[t]
        /\ \A t \in Session : prompt'[t] = IF t = s THEN p ELSE prompt[t]
        /\ \A t \in Session, u \in Unit : task'[t][u] = IF t = s THEN PlanFor(p, u) ELSE task[t][u]
        /\ p # None
    BY <1>1, SemanticAssumption DEF SemanticInv, TypeOK
  <1>3. \A t \in Session : phase[t] = "new" <=> prompt[t] = None
    BY DEF SemanticInv, SessionInv, TaskInv
  <1>4. \A t \in Session : s < t => phase[t] = "new"
    BY <1>1 DEF EvidenceInv, InOrder
  <1>5. InOrder'
    <2> SUFFICES ASSUME NEW q \in Session, NEW t \in Session, q < t, phase'[t] # "new"
                 PROVE  phase'[q] \in {"ended", "lost"}
      BY DEF InOrder
    <2>1. q # s
      BY <1>2, <1>4 DEF Session
    <2>2. phase[q] \in {"ended", "lost"}
      BY <1>1, <1>2 DEF EvidenceInv, InOrder, SemanticInv, TypeOK
    <2> QED BY <1>2, <2>1, <2>2
  <1>6. ASSUME NEW t \in Session, NEW u \in Unit
        PROVE  task'[t][u] \notin Inserted
    <2>1. task[t][u] \notin Inserted
      BY <1>1 DEF SemanticInv, SessionInv, TaskInv, Inserted, Settled
    <2> QED BY <1>2, <2>1 DEF PlanFor, Inserted
  <1>7. \A t \in Session, u \in Unit : RunKept(t, u)' /\ NamesRun(t, u)'
    BY <1>6 DEF RunKept, NamesRun, Inserted
  <1>8. \A q, u : Stored(q, u)' = Stored(q, u)
    BY <1>1 DEF Stored
  <1>9. ASSUME NEW t \in Session, NEW u \in Unit, caseState = "BLIND", Stored(t, u) # {}
        PROVE  completion[u].run # NoSession /\ (Completed(prompt[t], u)' \/ Replaced(t)')
    <2>1. t # s
      <3>1. Stored(s, u) = ItemsOf(rows, s, u)
        BY DEF Stored, ItemsOf
      <3>2. Stored(s, u) = {}
        BY <1>1, <3>1 DEF SemanticInv, SessionInv, TaskInv, ItemInv
      <3> QED BY <1>9, <3>2
    <2>2. completion[u].run # NoSession /\ (Completed(prompt[t], u) \/ Replaced(t))
      BY <1>9 DEF EvidenceInv, Lineage
    <2>3. completion[u].run \in Session /\ completion[u].run # s
      <3>1. completion[u].run \in 0..Sessions
        BY DEF SemanticInv, TypeOK
      <3> QED BY <1>1, <1>3, <2>2, <3>1, SemanticAssumption DEF SemanticInv, CompletionInv, Session, NoSession
    <2>4. Completed(prompt[t], u) => Completed(prompt[t], u)'
      BY <1>1, <1>2, <2>1, <2>3 DEF Completed
    <2>5. Replaced(t) => Replaced(t)'
      BY <1>1, <1>2, <1>3, <2>1 DEF Replaced
    <2> QED BY <2>2, <2>4, <2>5
  <1>10. \A t \in Session, u \in Unit : Lineage(t, u)'
    BY <1>1, <1>8, <1>9 DEF Lineage
  <1>11. NoRevert' => NoRevert
    <2> SUFFICES ASSUME NoRevert', NEW q \in Session, NEW r \in Session, NEW t \in Session,
                        q < r, r < t, prompt[t] # None, prompt[q] = prompt[t]
                 PROVE  prompt[r] = prompt[t]
      BY DEF NoRevert
    <2>1. q # s /\ t # s
      BY <1>1, <1>3
    <2>2. r # s
      BY <1>3, <1>4 DEF Session
    <2> QED BY <1>2, <2>1, <2>2 DEF NoRevert
  <1>12. CompletionMatchesEvidence'
    BY <1>1, <1>8, <1>11 DEF EvidenceInv, CompletionMatchesEvidence
  <1> QED BY <1>5, <1>7, <1>10, <1>12 DEF EvidenceInv

LEMMA CompleteEvidence ==
  ASSUME SemanticInv, EvidenceInv, NEW s \in Session, NEW u \in Unit, Complete(s, u)
  PROVE  EvidenceInv'
  <1> DEFINE c == LatestRun(s, u)
  <1>1. /\ task[s][u] = "completing" /\ Go(s, u, "committing")
        /\ chosen' = [chosen EXCEPT ![s] = c]
        /\ UNCHANGED <<prompt, phase, got, written, rows, completion, caseState>>
    BY DEF Complete, caseVars
  <1>2. phase[s] = "running" /\ prompt[s] # None
    BY <1>1, UnderWay DEF Settled
  <1>3. c \in Candidates(s, u) \cup {NoSession} /\ \A y \in Candidates(s, u) \cup {NoSession} : c >= y
    <2>1. Candidates(s, u) \cup {NoSession} \subseteq 0..Sessions
      BY SemanticAssumption DEF Candidates, Session, NoSession
    <2> QED BY <2>1, LatestExists DEF LatestRun
  <1> HIDE DEF c
  <1>4. c = NoSession \/ (c \in Session /\ prompt[c] = prompt[s] /\ c <= s)
    <2> SUFFICES ASSUME c # NoSession PROVE c \in Session /\ prompt[c] = prompt[s] /\ c <= s
      OBVIOUS
    <2>1. c \in Session /\ prompt[c] = prompt[s]
      BY <1>3 DEF Candidates
    <2>2. phase[c] # "new"
      BY <1>2, <2>1 DEF SemanticInv, SessionInv, TaskInv
    <2>3. ~(s < c)
      BY <1>2, <2>1, <2>2 DEF EvidenceInv, InOrder
    <2> QED BY <2>1, <2>3, SemanticAssumption DEF Session
  <1>5. /\ task'[s][u] = "committing"
        /\ \A v \in Unit : v # u => task'[s][v] = task[s][v]
        /\ \A t \in Session : t # s => task'[t] = task[t] /\ chosen'[t] = chosen[t]
        /\ chosen'[s] = c
    <2>1. c \in 0..Sessions
      BY <1>4, SemanticAssumption DEF Session, NoSession
    <2> QED BY <1>1, <2>1, Moved DEF SemanticInv, TypeOK, Where, Statements
  <1>6. ASSUME NEW t \in Session, NEW v \in Unit PROVE RunKept(t, v)'
    <2>1. Recorded(t, v)' <=> Recorded(t, v)
      BY <1>1 DEF Recorded, Seen
    <2>2. task'[t][v] \in Inserted => task[t][v] \in Inserted
      BY <1>1, <1>5 DEF Inserted
    <2> QED BY <1>1, <2>1, <2>2 DEF EvidenceInv, RunKept
  <1>7. Recorded(s, u) /\ caseState = "BLIND" => c = s
    <2> SUFFICES ASSUME Recorded(s, u), caseState = "BLIND" PROVE c = s
      OBVIOUS
    <2>1. c >= s
      BY <1>3 DEF Candidates, Recorded, RunsVisible
    <2>2. c <= s /\ c \in Int
      BY <1>4, <2>1, SemanticAssumption DEF Session, NoSession
    <2> QED BY <2>1, <2>2, SemanticAssumption DEF Session
  <1> caseState = "BLIND" \/ (c = NoSession /\ caseState = "LOCKED")
    BY <1>3 DEF Candidates, RunsVisible, SemanticInv, TypeOK
  <1>8. ~Recorded(s, u) => got[s][u] = 0
    BY <1>1 DEF EvidenceInv, RunKept, Inserted
  <1>9. ASSUME NoRevert, c # NoSession, c # s PROVE Stored(c, u) = {}
    <2> SUFFICES ASSUME Stored(c, u) # {} PROVE FALSE
      OBVIOUS
    <2>1. Completed(prompt[s], u) \/ Replaced(c)
      BY <1>4, <1>9 DEF EvidenceInv, Lineage
    <2>2. ~Completed(prompt[s], u)
      BY <1>1, <1>2 DEF SemanticInv, SessionInv, CoverInv, Unfinished, Called, Holding
    <2>3. PICK r \in Session : c < r /\ prompt[r] # None /\ prompt[r] # prompt[s]
      BY <1>4, <1>9, <2>1, <2>2 DEF Replaced
    <2>4. phase[r] # "new"
      BY <2>3 DEF SemanticInv, SessionInv, TaskInv
    <2>5. ~(s < r) /\ r # s
      BY <1>2, <2>3, <2>4 DEF EvidenceInv, InOrder
    <2>6. r < s
      BY <2>5, SemanticAssumption DEF Session
    <2> QED BY <1>2, <1>4, <1>9, <2>3, <2>6 DEF NoRevert
  <1>10. \A q, v : Stored(q, v)' = Stored(q, v)
    BY <1>1 DEF Stored
  <1>11. NoRevert' <=> NoRevert
    BY <1>1 DEF NoRevert
  <1>12. ASSUME NEW t \in Session, NEW v \in Unit PROVE NamesRun(t, v)'
    <2>1. CASE t = s /\ v = u
      BY <1>1, <1>5, <1>7, <1>8, <1>9, <1>10, <1>11, <2>1 DEF NamesRun
    <2>2. CASE t = s /\ v # u
      <3>1. task[s][v] \notin Holding
        BY <1>1, <2>2, Holds DEF Holding
      <3> QED BY <1>5, <2>2, <3>1 DEF NamesRun, Holding
    <2>3. CASE t # s
      BY <1>1, <1>5, <1>10, <1>11, <2>3 DEF EvidenceInv, NamesRun
    <2> QED BY <2>1, <2>2, <2>3
  <1>13. \A t \in Session, v \in Unit : Lineage(t, v)'
    BY <1>1, <1>10 DEF EvidenceInv, Lineage, Completed, Replaced
  <1>14. InOrder' /\ CompletionMatchesEvidence'
    BY <1>1, <1>10, <1>11 DEF EvidenceInv, InOrder, CompletionMatchesEvidence
  <1> QED BY <1>6, <1>12, <1>13, <1>14 DEF EvidenceInv

LEMMA CommitEvidence ==
  ASSUME SemanticInv, EvidenceInv, NEW s \in Session, NEW u \in Unit, Commit(s, u)
  PROVE  EvidenceInv'
  <1>1. /\ task[s][u] = "committing" /\ Go(s, u, "done") /\ rows' = rows \cup written[s]
        /\ completion' = IF chosen[s] = NoSession THEN completion
                         ELSE [completion EXCEPT ![u] = [run |-> chosen[s], count |-> got[s][u]]]
        /\ written' = [written EXCEPT ![s] = {}]
        /\ chosen' = [chosen EXCEPT ![s] = NoSession]
        /\ UNCHANGED <<prompt, phase, got, caseState>>
    BY DEF Commit, caseVars
  <1>2. task[s][u] \in Holding /\ task[s][u] \in Inserted
    BY <1>1 DEF Holding, Inserted
  <1>3. SessionInv(s) /\ phase[s] = "running" /\ prompt[s] # None
    BY <1>1, UnderWay DEF SemanticInv, Settled
  <1>4. /\ task'[s][u] = "done"
        /\ \A v \in Unit : v # u => task'[s][v] = task[s][v] /\ task[s][v] \notin Holding
        /\ \A t \in Session : t # s =>
             task'[t] = task[t] /\ written'[t] = written[t] /\ chosen'[t] = chosen[t]
        /\ written'[s] = {}
    BY <1>1, <1>2, Moved, Holds DEF SemanticInv, TypeOK, Where, Settled
  <1>5. /\ \A v \in Unit : v # u => completion'[v] = completion[v]
        /\ chosen[s] = NoSession => completion' = completion
        /\ chosen[s] # NoSession => completion'[u] = [run |-> chosen[s], count |-> got[s][u]]
    BY <1>1 DEF SemanticInv, TypeOK
  <1>6. NoRevert' <=> NoRevert
    BY <1>1 DEF NoRevert
  \* What the commit stores: the items of this unit and session.
  <1>7. \A t \in Session, v \in Unit : t # s \/ v # u => Stored(t, v)' = Stored(t, v)
    <2>1. \A r \in written[s] : r.session = s
      BY <1>3 DEF SessionInv, ItemInv
    <2>2. \A v \in Unit : v # u => ItemsOf(written[s], s, v) = {}
      BY <1>3, <1>4 DEF SessionInv, ItemInv, Inserted, Holding
    <2> QED BY <1>1, <2>1, <2>2 DEF Stored, ItemsOf
  <1>8. Stored(s, u)' = ItemRows(s, u, got[s][u])
    <2>1. ItemsOf(written[s], s, u) = ItemRows(s, u, got[s][u]) /\ ItemsOf(rows, s, u) = {}
      BY <1>1, <1>2, <1>3 DEF SessionInv, ItemInv
    <2>2. Stored(s, u)' = ItemsOf(rows, s, u) \cup ItemsOf(written[s], s, u)
      BY <1>1 DEF Stored, ItemsOf
    <2> QED BY <2>1, <2>2
  <1>9. got[s][u] \in Nat
    BY <1>2, Holds, SemanticAssumption
  <1>10. ASSUME NEW t \in Session, NEW v \in Unit PROVE RunKept(t, v)'
    <2>1. CASE t = s
      BY <1>4, <2>1 DEF RunKept, Inserted, Holding
    <2>2. CASE t # s
      <3>1. Recorded(t, v) => Recorded(t, v)'
        BY <1>1, <1>4, <2>2 DEF Recorded, Seen
      <3> QED BY <1>1, <1>4, <2>2, <3>1 DEF EvidenceInv, RunKept
    <2> QED BY <2>1, <2>2
  <1>11. ASSUME NEW t \in Session, NEW v \in Unit PROVE NamesRun(t, v)'
    <2>1. CASE t = s
      BY <1>4, <2>1 DEF NamesRun, Holding
    <2>2. CASE t # s
      <3> SUFFICES ASSUME task[t][v] = "committing" PROVE FALSE
        BY <1>4, <2>2 DEF NamesRun
      <3>1. phase[t] = "running"
        BY UnderWay DEF Settled
      <3> QED BY <1>3, <2>2, <3>1 DEF SemanticInv, OneRunning
    <2> QED BY <2>1, <2>2
  <1>12. chosen[s] # NoSession => chosen[s] \in Session /\ prompt[chosen[s]] = prompt[s]
    <2>1. chosen[s] \in 0..Sessions
      BY DEF SemanticInv, TypeOK
    <2> QED BY <1>3, <2>1, SemanticAssumption DEF SessionInv, TaskInv, Session, NoSession
  <1>13. NoSession \notin Session
    BY SemanticAssumption DEF NoSession, Session
  <1>14. ASSUME NEW t \in Session, NEW v \in Unit, caseState = "BLIND", Stored(t, v)' # {}
         PROVE  completion'[v].run # NoSession /\ (Completed(prompt[t], v)' \/ Replaced(t)')
    <2>1. Replaced(t)' <=> Replaced(t)
      BY <1>1 DEF Replaced
    <2>2. CASE v # u
      BY <1>1, <1>5, <1>7, <1>14, <2>1, <2>2 DEF EvidenceInv, Lineage, Completed
    <2>3. CASE v = u /\ t = s
      <3>1. got[s][u] # 0
        BY <1>8, <1>14, <2>3 DEF ItemRows
      <3>2. chosen[s] = s
        BY <1>1, <1>14, <3>1 DEF EvidenceInv, NamesRun
      <3> QED BY <1>1, <1>5, <1>13, <2>3, <3>2 DEF Completed
    <2>4. CASE v = u /\ t # s
      <3>1. completion[u].run # NoSession /\ (Completed(prompt[t], u) \/ Replaced(t))
        BY <1>7, <1>14, <2>4 DEF EvidenceInv, Lineage
      <3>2. CASE chosen[s] = NoSession
        BY <1>1, <1>5, <2>1, <2>4, <3>1, <3>2 DEF Completed
      <3>3. CASE chosen[s] # NoSession /\ prompt[s] = prompt[t]
        BY <1>1, <1>5, <1>12, <2>4, <3>3 DEF Completed
      <3>4. CASE chosen[s] # NoSession /\ prompt[s] # prompt[t]
        <4>1. phase[t] # "new"
          <5>1. Stored(t, u) = ItemsOf(rows, t, u)
            BY DEF Stored, ItemsOf
          <5> QED BY <1>7, <1>14, <2>4, <5>1 DEF SemanticInv, SessionInv, TaskInv, ItemInv
        <4>2. ~(s < t)
          BY <1>3, <4>1 DEF EvidenceInv, InOrder
        <4>3. t < s
          BY <2>4, <4>2, SemanticAssumption DEF Session
        <4> QED BY <1>3, <1>5, <2>1, <2>4, <3>4, <4>3 DEF Replaced
      <3> QED BY <3>2, <3>3, <3>4
    <2> QED BY <2>2, <2>3, <2>4
  <1>15. \A t \in Session, v \in Unit : Lineage(t, v)'
    BY <1>1, <1>14 DEF Lineage
  <1>16. ASSUME NoRevert, NEW v \in Unit, completion'[v].run # NoSession
         PROVE  completion'[v].count = Cardinality(ItemsOf(rows', completion'[v].run, v))
    <2> \A t, w : ItemsOf(rows, t, w) = Stored(t, w)
      BY DEF ItemsOf, Stored
    <2>1. completion[v].run # NoSession =>
            /\ completion[v].run \in Session
            /\ completion[v].count = Cardinality(ItemsOf(rows, completion[v].run, v))
      <3>1. completion[v].run \in 0..Sessions
        BY DEF SemanticInv, TypeOK
      <3> QED BY <1>16, <3>1, SemanticAssumption
              DEF EvidenceInv, CompletionMatchesEvidence, Session, NoSession
    <2>2. \A t \in Session, w \in Unit : t # s \/ w # u => ItemsOf(rows', t, w) = ItemsOf(rows, t, w)
      BY <1>7 DEF ItemsOf, Stored
    <2>3. ItemsOf(rows', s, u) = ItemRows(s, u, got[s][u])
      BY <1>8 DEF ItemsOf, Stored
    <2>4. CASE v # u
      BY <1>5, <1>16, <2>1, <2>2, <2>4
    <2>5. CASE v = u /\ chosen[s] = s
      BY <1>5, <1>9, <1>13, <2>3, <2>5, ItemRowsSize
    <2>6. CASE v = u /\ chosen[s] # s /\ chosen[s] # NoSession
      <3>1. got[s][u] = 0 /\ Stored(chosen[s], u) = {}
        BY <1>1, <1>16, <2>6 DEF EvidenceInv, NamesRun
      <3>2. ItemsOf(rows', chosen[s], u) = {}
        BY <1>12, <2>2, <2>6, <3>1
      <3> QED BY <1>5, <2>6, <3>1, <3>2, FS_EmptySet
    <2>7. CASE v = u /\ chosen[s] = NoSession
      <3>1. completion[u].run # s
        <4>1. ~Completed(prompt[s], u)
          BY <1>1, <1>3 DEF SessionInv, CoverInv, Unfinished, Called, Holding
        <4> QED BY <1>13, <4>1 DEF Completed
      <3> QED BY <1>5, <1>16, <2>1, <2>2, <2>7, <3>1
    <2> QED BY <2>4, <2>5, <2>6, <2>7
  <1>17. CompletionMatchesEvidence'
    <2>1. \A v \in Unit : Stored(completion[v].run, v)' = ItemsOf(rows', completion'[v].run, v)
      BY DEF Stored, ItemsOf
    <2> QED BY <1>6, <1>16, <2>1 DEF CompletionMatchesEvidence
  <1>18. InOrder'
    BY <1>1 DEF EvidenceInv, InOrder
  <1> QED BY <1>10, <1>11, <1>15, <1>17, <1>18 DEF EvidenceInv

LEMMA EvidenceStep == SemanticInv /\ EvidenceInv /\ [Next]_vars => EvidenceInv'
  <1> SUFFICES ASSUME SemanticInv, EvidenceInv, [Next]_vars PROVE EvidenceInv'
    OBVIOUS
  <1>1. ASSUME NEW s \in Session, NEW u \in Unit, Interpret(s, u) \/ Store(s, u) \/ Raise(s, u)
        PROVE  EvidenceInv'
    BY <1>1, InterpretEvidence, StoreEvidence, CompleteEvidence, CommitEvidence, RaiseEvidence DEF Store
  <1>2. ASSUME NEW s \in Session, Run(s) PROVE EvidenceInv'
    BY <1>1, <1>2, CloseEvidence, QuietEvidence DEF Run, Abort
  <1>3. ASSUME NEW s \in Session, Plan(s) \/ Crash(s) PROVE EvidenceInv'
    BY <1>3, PlanEvidence, CloseEvidence DEF Crash
  <1> QED BY <1>2, <1>3, QuietEvidence DEF Next

\* A completion counts the items stored for the very run it names, though it looked the run
\* up instead of being told, unless a session went back to a template replaced before.
THEOREM CompletionsCount == Spec => []CompletionMatchesEvidence
  <1>1. EvidenceInv => CompletionMatchesEvidence
    BY DEF EvidenceInv
  <1> QED BY <1>1, AlwaysInv, EvidenceInit, EvidenceStep, PTL DEF Spec

\* The steps that neither commit an item nor move a completion.
LEMMA ActiveKept ==
  ASSUME Items' = Items, completion' = completion
  PROVE  Active' = Active
  <1>1. \A r \in rows : r.kind = "item" <=> r \in Items
    BY DEF Items
  <1>2. Active = {r \in Items : completion[r.unit].run = r.session}
    BY DEF Active, Items
  <1>3. Active' = {r \in Items' : completion'[r.unit].run = r.session}
    BY DEF Active, Items
  <1> QED BY <1>2, <1>3

\* A commit after the lock has read the evidence: either it has items and names no run, or
\* it has none and names a run without any.
LEMMA CommitActive ==
  ASSUME SemanticInv, EvidenceInv, NoRevert, locker # "idle",
         NEW s \in Session, NEW u \in Unit, Commit(s, u)
  PROVE  Active' \subseteq Active
  <1>1. /\ task[s][u] = "committing" /\ rows' = rows \cup written[s]
        /\ completion' = IF chosen[s] = NoSession THEN completion
                         ELSE [completion EXCEPT ![u] = [run |-> chosen[s], count |-> got[s][u]]]
    BY DEF Commit
  <1>2. /\ task[s][u] \in Holding /\ task[s][u] \in Inserted /\ task[s][u] # "done"
        /\ task[s][u] \in Unfinished
    BY <1>1 DEF Holding, Inserted, Unfinished, Called
  <1>3. SessionInv(s) /\ phase[s] = "running"
    BY <1>1, UnderWay DEF SemanticInv, Settled
  <1>4. /\ ItemsOf(written[s], s, u) = ItemRows(s, u, got[s][u]) /\ ItemsOf(rows, s, u) = {}
        /\ \A r \in written[s] : r.session = s
    BY <1>2, <1>3 DEF SessionInv, ItemInv
  <1>5. \A r \in written[s] : r.kind = "item" => r.unit = u
    <2>1. \A v \in Unit : v # u => ItemsOf(written[s], s, v) = {}
      BY <1>2, <1>3, Holds DEF SessionInv, ItemInv, Inserted, Holding
    <2>2. \A r \in written[s] : r.unit \in Unit
      BY DEF SemanticInv, TypeOK, RowType
    <2> QED BY <1>4, <2>1, <2>2 DEF ItemsOf
  <1>6. CASE \E r \in written[s] : r.kind = "item"
    <2>1. completion' = completion
      BY <1>1, <1>6 DEF SemanticInv, LockInv
    <2>2. completion[u].run # s
      <3>1. ~Completed(prompt[s], u) /\ s # NoSession
        BY <1>2, <1>3, SemanticAssumption DEF SessionInv, CoverInv, Session, NoSession
      <3> QED BY <3>1 DEF Completed
    <2> QED BY <1>1, <1>4, <1>5, <2>1, <2>2 DEF Active
  <1>7. CASE ~\E r \in written[s] : r.kind = "item"
    <2>1. Items' = Items
      BY <1>1, <1>7 DEF Items
    <2>2. CASE chosen[s] = NoSession
      BY <1>1, <2>1, <2>2, ActiveKept
    <2>3. CASE chosen[s] # NoSession
      <3>1. ItemsOf(rows, chosen[s], u) = {}
        <4>1. Stored(chosen[s], u) = ItemsOf(rows, chosen[s], u)
          BY DEF Stored, ItemsOf
        <4> QED BY <1>1, <1>4, <2>3, <4>1 DEF EvidenceInv, NamesRun
      <3>2. \A r \in rows' : r.kind = "item" => r \in rows /\ r.unit \in Unit
        BY <1>1, <1>7 DEF SemanticInv, TypeOK, RowType
      <3>3. /\ completion'[u].run = chosen[s]
            /\ \A v \in Unit : v # u => completion'[v] = completion[v]
        BY <1>1, <2>3 DEF SemanticInv, TypeOK
      <3> QED BY <3>1, <3>2, <3>3 DEF Active, ItemsOf
    <2> QED BY <2>2, <2>3
  <1> QED BY <1>6, <1>7

\* From the moment the lock has read the active evidence, nothing joins it, whatever was
\* under way and even if items are still committed, unless a session went back to a
\* template replaced before.
THEOREM LockCloses == Spec => LockClosesActive
  <1>1. ASSUME SemanticInv, EvidenceInv, [Next]_vars, NoRevert, locker # "idle"
        PROVE  Active' \subseteq Active
    <2>1. \A s \in Session, u \in Unit : Interpret(s, u) => Items' = Items /\ completion' = completion
      BY InterpretItems DEF Interpret, Start, Audit, Call, Record
    <2>2. \A s \in Session, u \in Unit :
            BeginStore(s, u) \/ GuardItems(s, u) \/ AddItems(s, u) \/ Complete(s, u) \/ Raise(s, u)
              => Items' = Items /\ completion' = completion
      BY DEF BeginStore, GuardItems, AddItems, Complete, Raise, Items
    <2>3. \A s \in Session : Plan(s) \/ Crash(s) \/ Abort(s) \/ Finish(s) =>
            Items' = Items /\ completion' = completion
      BY DEF Plan, Crash, Abort, Close, Finish, Items
    <2>4. LockReads \/ LockCommits \/ UNCHANGED vars => Items' = Items /\ completion' = completion
      BY DEF LockReads, LockCommits, vars, Items
    <2>5. (\E s \in Session, u \in Unit : Commit(s, u)) \/ (Items' = Items /\ completion' = completion)
      BY <1>1, <2>1, <2>2, <2>3, <2>4 DEF Next, Run, Store
    <2> QED BY <1>1, <2>5, CommitActive, ActiveKept
  <1>2. SemanticInv /\ EvidenceInv /\ [Next]_vars =>
          [NoRevert /\ locker # "idle" => Active' \subseteq Active]_vars
    BY <1>1
  <1> QED BY <1>2, AlwaysInv, EvidenceInit, EvidenceStep, PTL DEF Spec, LockClosesActive
=============================================================================
