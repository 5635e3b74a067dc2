------------------------ MODULE ProcessingRuns_proofs ------------------------
(***************************************************************************)
(* Proofs about the structural stage, for any number of operators, cases,  *)
(* documents, lost sessions and failing processors: types, what a          *)
(* successful run has, what a report covers; and that a success is never   *)
(* begun again once no session is at work on it.                           *)
(***************************************************************************)
EXTENDS ProcessingRuns, FiniteSetTheorems, TLAPS

\* Where a session processes a source that has a processor.
Processing == {"process", "add", "complete", "fail"}

Succeeded(r) == {k \in DOMAIN r : r[k] = "SUCCEEDED"}

\* Every item looked at so far is a status or a source, and units are those of the
\* successes.
Accounted(s) ==
  /\ pc[s] = "inventory" => Len(report[s]) + Len(sources[s]) = at[s]
  /\ pc[s] \in AtWork \cup {"select", "ended"} =>
       /\ at[s] <= Len(sources[s])
       /\ Len(report[s]) + Len(sources[s]) = Len(Manifest[s]) + at[s]
  /\ pc[s] \in AtWork => at[s] < Len(sources[s])
  /\ pc[s] = "ended" => at[s] = Len(sources[s])
  /\ Len(sources[s]) <= Len(Manifest[s])
  /\ Len(units[s]) = Cardinality(Succeeded(report[s]))

\* What the run of a session has before its success is recorded.
Ready(s) ==
  /\ pc[s] \in {"add", "complete"} => file[Key(s)] = "whole"
  /\ pc[s] = "complete" => artifact[Key(s)] # None

SessionInv(s) == Accounted(s) /\ Ready(s)
TypeInv == TypeOK /\ SucceededIsStored /\ \A s \in Session : SessionInv(s)

\* What a step of s leaves alone: the other sessions, complete files, artifacts.
Frame(s) ==
  /\ \A t \in Session \ {s} :
       /\ pc'[t] = pc[t] /\ at'[t] = at[t] /\ sources'[t] = sources[t]
       /\ units'[t] = units[t] /\ report'[t] = report[t]
  /\ \A c \in Content : file[c] = "whole" => file'[c] = "whole"
  /\ \A c \in Content : artifact[c] # None => artifact'[c] # None

\* The content of the source at work is the key of a run.
LEMMA KeyType ==
  ASSUME TypeOK, NEW s \in Session, at[s] < Len(sources[s])
  PROVE  Source(s) \in Item /\ Key(s) \in Content
  <1>1. at[s] \in Nat /\ sources[s] \in Seq(Item)
    BY ProcessingAssumption DEF TypeOK
  <1>2. at[s] + 1 \in 1..Len(sources[s])
    BY <1>1
  <1> QED BY <1>1, <1>2 DEF Source, Key, Content

\* What a session adds to its report.
LEMMA CountAppend ==
  ASSUME NEW S, NEW r \in Seq(S), NEW e \in S
  PROVE  /\ IsFiniteSet(Succeeded(r)) /\ Cardinality(Succeeded(r)) \in Nat
         /\ e = "SUCCEEDED" => Cardinality(Succeeded(Append(r, e))) = Cardinality(Succeeded(r)) + 1
         /\ e # "SUCCEEDED" => Cardinality(Succeeded(Append(r, e))) = Cardinality(Succeeded(r))
  <1>1. DOMAIN r = 1..Len(r) /\ Len(r) \in Nat
    OBVIOUS
  <1>2. IsFiniteSet(1..Len(r))
    BY <1>1, FS_Interval
  <1>3. IsFiniteSet(Succeeded(r))
    BY <1>1, <1>2, FS_Subset DEF Succeeded
  <1>4. Cardinality(Succeeded(r)) \in Nat
    BY <1>3, FS_CardinalityType
  <1>5. ASSUME e = "SUCCEEDED" PROVE Succeeded(Append(r, e)) = Succeeded(r) \cup {Len(r) + 1}
    BY <1>1, <1>5 DEF Succeeded
  <1>6. ASSUME e # "SUCCEEDED" PROVE Succeeded(Append(r, e)) = Succeeded(r)
    BY <1>1, <1>6 DEF Succeeded
  <1>7. Len(r) + 1 \notin Succeeded(r)
    BY <1>1 DEF Succeeded
  <1> QED BY <1>3, <1>4, <1>5, <1>6, <1>7, FS_AddElement

LEMMA CountStatus ==
  ASSUME TypeOK, NEW s \in Session, NEW st \in Status \cup Skips, Count(s, st)
  PROVE  /\ report' \in [Session -> Seq(Status \cup Skips)]
         /\ report' = [report EXCEPT ![s] = report'[s]]
         /\ Len(report'[s]) = Len(report[s]) + 1 /\ Len(report[s]) \in Nat
         /\ Cardinality(Succeeded(report[s])) \in Nat
         /\ st = "SUCCEEDED" => Cardinality(Succeeded(report'[s])) = Cardinality(Succeeded(report[s])) + 1
         /\ st # "SUCCEEDED" => Cardinality(Succeeded(report'[s])) = Cardinality(Succeeded(report[s]))
  <1> DEFINE S == Status \cup Skips
  <1>1. report \in [Session -> Seq(S)] /\ report[s] \in Seq(S)
    BY DEF TypeOK
  <1> HIDE DEF S
  <1>2. report' = [report EXCEPT ![s] = Append(report[s], st)] /\ st \in S
    BY DEF Count, S
  <1>3. Append(report[s], st) \in Seq(S) /\ report'[s] = Append(report[s], st)
    BY <1>1, <1>2
  <1>4. report' \in [Session -> Seq(S)]
    BY <1>1, <1>2, <1>3
  <1>5. Len(report'[s]) = Len(report[s]) + 1 /\ Len(report[s]) \in Nat
    BY <1>1, <1>2, <1>3
  <1> QED BY <1>1, <1>2, <1>3, <1>4, <1>5, CountAppend DEF S

\* One more item or source is done.
LEMMA AdvanceType ==
  ASSUME TypeOK, NEW s \in Session, Advance(s), at[s] < Len(Manifest[s])
  PROVE  /\ at' \in [Session -> Nat] /\ at'[s] = at[s] + 1
         /\ \A t \in Session : at'[t] <= Len(Manifest[t])
         /\ \A t \in Session \ {s} : at'[t] = at[t]
  <1>1. at \in [Session -> Nat] /\ \A t \in Session : at[t] <= Len(Manifest[t])
    BY DEF TypeOK
  <1>2. \A t \in Session : Len(Manifest[t]) \in Nat
    BY ProcessingAssumption
  <1>3. at' = [at EXCEPT ![s] = at[s] + 1]
    BY DEF Advance
  <1> QED BY <1>1, <1>2, <1>3

\* Items looked at are statuses or sources.
LEMMA Balance ==
  ASSUME NEW r \in Nat, NEW n \in Nat, NEW m \in Nat, NEW a \in Nat, r + n = m + a
  PROVE  /\ r + 1 + n = m + (a + 1)
         /\ a = n => r = m
         /\ a < n => a + 1 <= n
  OBVIOUS

LEMMA InitInv == Init => TypeInv
  <1> SUFFICES ASSUME Init PROVE TypeInv
    OBVIOUS
  <1>1. TypeOK
    BY ProcessingAssumption DEF Init, TypeOK, Status, Where, Idle
  <1>2. Cardinality(Succeeded(<<>>)) = 0
    BY FS_EmptySet DEF Succeeded
  <1>3. ASSUME NEW s \in Session PROVE SessionInv(s)
    BY <1>2, ProcessingAssumption DEF Init, SessionInv, Accounted, Ready, AtWork
  <1> QED BY <1>1, <1>3 DEF Init, TypeInv, SucceededIsStored

(***************************************************************************)
(* A step of one session keeps the invariant of the others.                *)
(***************************************************************************)
LEMMA OthersKeep ==
  ASSUME TypeInv, TypeOK', NEW s \in Session, Frame(s), NEW t \in Session, t # s
  PROVE  SessionInv(t)'
  <1>1. Accounted(t)'
    BY DEF TypeInv, SessionInv, Accounted, Frame
  <1>2. Source(t)' = Source(t) /\ Key(t)' = Key(t)
    BY DEF Frame, Source, Key
  <1>3. pc[t] \in {"add", "complete"} => Key(t) \in Content
    BY KeyType DEF TypeInv, SessionInv, Accounted, AtWork
  <1>4. Ready(t)'
    BY <1>2, <1>3 DEF TypeInv, SessionInv, Ready, Frame
  <1> QED BY <1>1, <1>4 DEF SessionInv

(***************************************************************************)
(* One lemma per action.                                                   *)
(***************************************************************************)
LEMMA OpenInv ==
  ASSUME TypeInv, NEW s \in Session, Open(s)
  PROVE  TypeInv'
  <1>1. TypeOK' /\ Frame(s)
    <2>1. \A t \in Session : 0 <= Len(Manifest[t])
      BY ProcessingAssumption
    <2>2. at' \in [Session -> Nat] /\ \A t \in Session : at'[t] <= Len(Manifest[t])
      BY <2>1 DEF TypeInv, TypeOK, Open
    <2>3. pc' \in [Session -> Where] /\ UNCHANGED <<tables, faults>>
      BY DEF TypeInv, TypeOK, Open, Go, Where
    <2>4. TypeOK'
      BY <2>2, <2>3 DEF TypeInv, TypeOK, Open, tables, faults
    <2>5. Frame(s)
      BY DEF TypeInv, TypeOK, Frame, Open, tables, Go
    <2> QED BY <2>4, <2>5
  <1>2. Cardinality(Succeeded(<<>>)) = 0
    BY FS_EmptySet DEF Succeeded
  <1>3. pc'[s] = "inventory" /\ at'[s] = 0 /\ sources'[s] = <<>> /\ units'[s] = <<>>
        /\ report'[s] = <<>>
    BY DEF TypeInv, TypeOK, Open, Go
  <1>4. SessionInv(s)'
    BY <1>2, <1>3, ProcessingAssumption DEF SessionInv, Accounted, Ready, AtWork
  <1>5. SucceededIsStored'
    BY DEF TypeInv, SucceededIsStored, Open, tables
  <1> QED BY <1>1, <1>4, <1>5, OthersKeep DEF TypeInv

LEMMA InventoryInv ==
  ASSUME TypeInv, NEW s \in Session, Inventory(s)
  PROVE  TypeInv'
  <1> DEFINE i == Manifest[s][at[s] + 1]
  <1>1. pc[s] = "inventory" /\ at[s] < Len(Manifest[s]) /\ UNCHANGED <<tables, units, faults>>
    BY DEF Inventory
  <1>2. at[s] \in Nat /\ at[s] + 1 \in 1..Len(Manifest[s]) /\ i \in Item
    BY <1>1, ProcessingAssumption DEF TypeInv, TypeOK
  <1>3. SucceededIsStored'
    BY <1>1 DEF TypeInv, SucceededIsStored, tables
  <1>4. CASE Skip(s, i)
    <2>1. PICK st \in Skips : Count(s, st) /\ Advance(s) /\ UNCHANGED <<pc, sources>>
      BY <1>4 DEF Skip, Skips
    <2>2. /\ report' \in [Session -> Seq(Status \cup Skips)]
          /\ report' = [report EXCEPT ![s] = report'[s]]
          /\ Len(report'[s]) = Len(report[s]) + 1
          /\ Cardinality(Succeeded(report'[s])) = Cardinality(Succeeded(report[s]))
      BY <2>1, CountStatus DEF TypeInv, Skips
    <2>3. TypeOK'
      BY <1>1, <2>1, <2>2, AdvanceType DEF TypeInv, TypeOK, tables, faults
    <2>4. Frame(s) /\ at'[s] = at[s] + 1
      BY <1>1, <2>1, <2>2 DEF TypeInv, TypeOK, Frame, Advance, tables
    <2>5. SessionInv(s)'
      BY <1>1, <2>1, <2>2, <2>3, <2>4 DEF TypeInv, TypeOK, SessionInv, Accounted, Ready, AtWork
    <2> QED BY <1>3, <2>3, <2>4, <2>5, OthersKeep DEF TypeInv
  <1>5. CASE Refuse(s, i)
    <2>1. PICK where \in {"refused", "unreadable"} :
            Go(s, where) /\ UNCHANGED <<report, at, sources>>
      BY <1>5 DEF Refuse
    <2>2. TypeOK'
      BY <1>1, <2>1 DEF TypeInv, TypeOK, Go, tables, faults, Where, Idle
    <2>3. Frame(s) /\ pc'[s] \in {"refused", "unreadable"}
      BY <1>1, <2>1 DEF TypeInv, TypeOK, Frame, Go, tables
    <2>4. SessionInv(s)'
      BY <1>1, <2>1, <2>3 DEF TypeInv, SessionInv, Accounted, Ready, AtWork
    <2> QED BY <1>3, <2>2, <2>3, <2>4, OthersKeep DEF TypeInv
  <1>6. CASE Materialize(s, i)
    <2>1. Advance(s) /\ UNCHANGED pc
      BY <1>6 DEF Materialize
    <2>2. CASE sources' = [sources EXCEPT ![s] = Append(@, i)] /\ UNCHANGED report
      <3>1. TypeOK'
        <4>1. sources' \in [Session -> Seq(Item)]
          BY <1>2, <2>2 DEF TypeInv, TypeOK
        <4> QED BY <1>1, <2>1, <2>2, <4>1, AdvanceType DEF TypeInv, TypeOK, tables, faults
      <3>2. Frame(s)
        BY <1>1, <2>1, <2>2 DEF TypeInv, TypeOK, Frame, Advance, tables
      <3>3. Len(sources'[s]) = Len(sources[s]) + 1 /\ at'[s] = at[s] + 1
        BY <1>2, <2>1, <2>2 DEF TypeInv, TypeOK, Advance
      <3>4. SessionInv(s)'
        BY <1>1, <1>2, <2>1, <2>2, <3>1, <3>3, ProcessingAssumption
        DEF TypeInv, TypeOK, SessionInv, Accounted, Ready, AtWork
      <3> QED BY <1>3, <3>1, <3>2, <3>4, OthersKeep DEF TypeInv
    <2>3. CASE Count(s, "FAILED") /\ UNCHANGED sources
      <3>1. /\ report' \in [Session -> Seq(Status \cup Skips)]
            /\ report' = [report EXCEPT ![s] = report'[s]]
            /\ Len(report'[s]) = Len(report[s]) + 1
            /\ Cardinality(Succeeded(report'[s])) = Cardinality(Succeeded(report[s]))
        BY <2>3, CountStatus DEF TypeInv, Status
      <3>2. TypeOK'
        BY <1>1, <2>1, <2>3, <3>1, AdvanceType DEF TypeInv, TypeOK, tables, faults
      <3>3. Frame(s) /\ at'[s] = at[s] + 1
        BY <1>1, <2>1, <2>3, <3>1 DEF TypeInv, TypeOK, Frame, Advance, tables
      <3>4. SessionInv(s)'
        BY <1>1, <2>1, <2>3, <3>1, <3>2, <3>3
        DEF TypeInv, TypeOK, SessionInv, Accounted, Ready, AtWork
      <3> QED BY <1>3, <3>2, <3>3, <3>4, OthersKeep DEF TypeInv
    <2> QED BY <1>6, <2>2, <2>3 DEF Materialize
  <1> QED BY <1>4, <1>5, <1>6 DEF Inventory

\* The steps that only move a session: the end of the inventory, of the sources, of the
\* command, and a loss.
LEMMA MoveInv ==
  ASSUME TypeInv, NEW s \in Session, Inventoried(s) \/ Finish(s) \/ Close(s) \/ Crash(s)
  PROVE  TypeInv'
  <1>1. UNCHANGED <<tables, sources, units, report, failures>>
    BY DEF Inventoried, Finish, Close, Crash, faults
  <1>2. TypeOK'
    <2>1. pc' \in [Session -> Where]
      BY DEF TypeInv, TypeOK, Inventoried, Finish, Close, Crash, Go, Where, Idle
    <2>2. crashes' \in 0..MaxCrashes
      BY ProcessingAssumption DEF TypeInv, TypeOK, Inventoried, Finish, Close, Crash, faults
    <2>3. at' \in [Session -> Nat] /\ \A t \in Session : at'[t] <= Len(Manifest[t])
      <3>1. at' = [at EXCEPT ![s] = 0] \/ at' = at
        BY DEF Inventoried, Finish, Close, Crash
      <3>2. \A t \in Session : 0 <= Len(Manifest[t])
        BY ProcessingAssumption
      <3>3. at \in [Session -> Nat] /\ \A t \in Session : at[t] <= Len(Manifest[t])
        BY DEF TypeInv, TypeOK
      <3> QED BY <3>1, <3>2, <3>3
    <2> QED BY <1>1, <2>1, <2>2, <2>3 DEF TypeInv, TypeOK, tables
  <1>3. Frame(s)
    BY <1>1 DEF TypeInv, TypeOK, Frame, Inventoried, Finish, Close, Crash, Go, tables
  <1>4. SessionInv(s)'
    <2>1. CASE Inventoried(s)
      <3>1. pc[s] = "inventory" /\ at[s] = Len(Manifest[s]) /\ pc'[s] = "select" /\ at'[s] = 0
        BY <2>1 DEF TypeInv, TypeOK, Inventoried, Go
      <3> QED
        BY <1>1, <3>1, ProcessingAssumption
        DEF TypeInv, TypeOK, SessionInv, Accounted, Ready, AtWork
    <2>2. CASE Finish(s)
      BY <1>1, <2>2 DEF TypeInv, TypeOK, SessionInv, Accounted, Ready, Finish, Go, AtWork
    <2>3. CASE Close(s) \/ Crash(s)
      BY <1>1, <2>3 DEF TypeInv, TypeOK, SessionInv, Accounted, Ready, Close, Crash, Go, AtWork
    <2> QED BY <2>1, <2>2, <2>3
  <1>5. SucceededIsStored'
    BY <1>1 DEF TypeInv, SucceededIsStored, tables
  <1> QED BY <1>2, <1>3, <1>4, <1>5, OthersKeep DEF TypeInv

LEMMA SelectInv ==
  ASSUME TypeInv, NEW s \in Session, Select(s)
  PROVE  TypeInv'
  <1>1. /\ pc[s] = "select" /\ at[s] < Len(sources[s]) /\ UNCHANGED <<tables, sources, faults>>
        /\ Key(s) \in Content
    BY KeyType DEF Select, TypeInv
  <1>2. SucceededIsStored'
    BY <1>1 DEF TypeInv, SucceededIsStored, tables
  <1>3. CASE Found(Key(s)) /\ Count(s, "SUCCEEDED") /\ Advance(s) /\ UNCHANGED pc
             /\ units' = [units EXCEPT ![s] = Append(@, artifact[Key(s)])]
    <2>1. artifact[Key(s)] \in Item
      BY <1>1, <1>3 DEF Found, TypeInv, TypeOK, SucceededIsStored
    <2>2. /\ report' \in [Session -> Seq(Status \cup Skips)]
          /\ report' = [report EXCEPT ![s] = report'[s]]
          /\ Len(report'[s]) = Len(report[s]) + 1
          /\ Cardinality(Succeeded(report'[s])) = Cardinality(Succeeded(report[s])) + 1
          /\ Cardinality(Succeeded(report[s])) \in Nat
      BY <1>3, CountStatus DEF TypeInv, Status
    <2>3. at[s] < Len(Manifest[s])
      BY <1>1, ProcessingAssumption DEF TypeInv, TypeOK, SessionInv, Accounted
    <2>4. units' \in [Session -> Seq(Item)] /\ Len(units'[s]) = Len(units[s]) + 1
          /\ units' = [units EXCEPT ![s] = units'[s]]
      BY <1>3, <2>1 DEF TypeInv, TypeOK
    <2>5. TypeOK'
      BY <1>1, <1>3, <2>2, <2>3, <2>4, AdvanceType DEF TypeInv, TypeOK, tables, faults
    <2>6. Frame(s) /\ at'[s] = at[s] + 1
      BY <1>1, <1>3, <2>2, <2>3, <2>4, AdvanceType DEF TypeInv, TypeOK, Frame, tables
    <2>7. SessionInv(s)'
      <3>1. Len(units'[s]) = Cardinality(Succeeded(report'[s]))
        BY <2>2, <2>4 DEF TypeInv, SessionInv, Accounted
      <3>2. at'[s] <= Len(sources'[s])
            /\ Len(report'[s]) + Len(sources'[s]) = Len(Manifest[s]) + at'[s]
        <4> DEFINE r == Len(report[s])  n == Len(sources[s])  m == Len(Manifest[s])
        <4>1. r + n = m + at[s] /\ at[s] < n
          BY <1>1 DEF TypeInv, SessionInv, Accounted
        <4>2. r \in Nat /\ n \in Nat /\ m \in Nat /\ at[s] \in Nat
          BY ProcessingAssumption DEF TypeInv, TypeOK
        <4>3. Len(report'[s]) = r + 1 /\ at'[s] = at[s] + 1 /\ Len(sources'[s]) = n
          BY <1>1, <2>2, <2>6
        <4> HIDE DEF r, n, m
        <4>4. at[s] + 1 <= n /\ r + 1 + n = m + (at[s] + 1)
          BY <4>1, <4>2, Balance
        <4> QED BY <4>3, <4>4 DEF m
      <3> QED BY <1>1, <1>3, <3>1, <3>2 DEF TypeInv, SessionInv, Accounted, Ready, AtWork
    <2> QED BY <1>2, <2>5, <2>6, <2>7, OthersKeep DEF TypeInv
  <1>4. CASE Go(s, "start") /\ UNCHANGED <<units, report, at>>
    <2>1. TypeOK' /\ Frame(s) /\ pc'[s] = "start"
      BY <1>1, <1>4 DEF TypeInv, TypeOK, Frame, Go, tables, faults, Where
    <2>2. SessionInv(s)'
      BY <1>1, <1>4, <2>1 DEF TypeInv, TypeOK, SessionInv, Accounted, Ready, AtWork
    <2> QED BY <1>2, <2>1, <2>2, OthersKeep DEF TypeInv
  <1> QED BY <1>3, <1>4 DEF Select

LEMMA StartInv ==
  ASSUME TypeInv, NEW s \in Session, Start(s)
  PROVE  TypeInv'
  <1>1. /\ pc[s] = "start" /\ run' = [run EXCEPT ![Key(s)] = "RUNNING"]
        /\ UNCHANGED <<stored, artifact, file, at, sources, units, report, faults>>
    BY DEF Start
  <1>2. PICK where \in {"unsupported", "process"} : Go(s, where)
    BY DEF Start
  <1>3. TypeOK' /\ pc'[s] = where
    BY <1>1, <1>2 DEF TypeInv, TypeOK, Go, faults, Status, Where
  <1>4. Frame(s)
    BY <1>1, <1>2 DEF TypeInv, TypeOK, Frame, Go
  <1>5. SessionInv(s)'
    BY <1>1, <1>3 DEF TypeInv, SessionInv, Accounted, Ready, AtWork
  <1>6. SucceededIsStored'
    BY <1>1 DEF TypeInv, TypeOK, SucceededIsStored
  <1> QED BY <1>3, <1>4, <1>5, <1>6, OthersKeep DEF TypeInv

\* The steps of one processing: the processor and the store, the artifact and its units.
LEMMA ProcessInv ==
  ASSUME TypeInv, NEW s \in Session, Process(s) \/ Add(s)
  PROVE  TypeInv'
  <1>1. /\ pc[s] \in {"process", "add"}
        /\ UNCHANGED <<stored, run, at, sources, units, report, crashes>>
    BY DEF Process, Add, faults
  <1>2. at[s] < Len(sources[s])
    BY <1>1 DEF TypeInv, SessionInv, Accounted, AtWork
  <1>3. Source(s) \in Item /\ Key(s) \in Content
    BY <1>2, KeyType DEF TypeInv
  <1>4. Key(s)' = Key(s)
    BY <1>1 DEF Key, Source
  <1>5. TypeOK'
    <2>1. pc' \in [Session -> Where]
      BY DEF TypeInv, TypeOK, Process, Add, ThenAdded, Go, Where, Idle
    <2>2. file' \in [Content -> {"none", "whole"}]
      BY <1>3 DEF TypeInv, TypeOK, Process, Add, Put
    <2>3. artifact' \in [Content -> Item \cup {None}]
      BY <1>3 DEF TypeInv, TypeOK, Process, Add
    <2>4. failures' \in 0..MaxFailures
      BY ProcessingAssumption DEF TypeInv, TypeOK, Process, Add, faults
    <2> QED BY <1>1, <2>1, <2>2, <2>3, <2>4 DEF TypeInv, TypeOK
  <1>6. Frame(s)
    BY <1>1, <1>3, ProcessingAssumption DEF TypeInv, TypeOK, Frame, Process, Add, Put, ThenAdded, Go
  <1>7. Accounted(s)'
    BY <1>1 DEF TypeInv, TypeOK, SessionInv, Accounted, Process, Add, ThenAdded, Go,
            AtWork, Idle
  <1>8. Ready(s)'
    BY <1>3, <1>4, ProcessingAssumption
    DEF TypeInv, TypeOK, SessionInv, Ready, Process, Add, Put, ThenAdded, Go
  <1>9. SucceededIsStored'
    BY <1>1, <1>6 DEF TypeInv, TypeOK, SucceededIsStored, Frame
  <1> QED BY <1>5, <1>6, <1>7, <1>8, <1>9, OthersKeep DEF TypeInv, SessionInv

\* The steps that record the result of a run.
LEMMA ResultInv ==
  ASSUME TypeInv, NEW s \in Session, Unsupported(s) \/ Complete(s) \/ Fail(s)
  PROVE  TypeInv'
  <1>1. PICK st \in {"UNSUPPORTED", "SUCCEEDED", "FAILED"} :
          /\ SetResult(s, st) /\ Count(s, st)
          /\ IF st = "SUCCEEDED"
             THEN pc[s] = "complete" /\ units' = [units EXCEPT ![s] = Append(@, Source(s))]
             ELSE pc[s] \in {"unsupported", "fail"} /\ UNCHANGED units
    BY DEF Unsupported, Complete, Fail, Reported
  <1>2. at[s] < Len(sources[s]) /\ at[s] < Len(Manifest[s])
    BY <1>1, ProcessingAssumption DEF TypeInv, TypeOK, SessionInv, Accounted, AtWork
  <1>3. Source(s) \in Item /\ Key(s) \in Content
    BY <1>2, KeyType DEF TypeInv
  <1>4. /\ run' = [run EXCEPT ![Key(s)] = st] /\ Go(s, "select") /\ Advance(s)
        /\ UNCHANGED <<stored, artifact, file, sources, faults>>
    BY <1>1 DEF SetResult
  <1>5. /\ report' \in [Session -> Seq(Status \cup Skips)]
        /\ report' = [report EXCEPT ![s] = report'[s]]
        /\ Len(report'[s]) = Len(report[s]) + 1
        /\ Len(units'[s]) = Cardinality(Succeeded(report'[s]))
    <2>1. Len(units[s]) = Cardinality(Succeeded(report[s]))
      BY DEF TypeInv, SessionInv, Accounted
    <2>2. st = "SUCCEEDED" => Len(units'[s]) = Len(units[s]) + 1
      BY <1>1, <1>3 DEF TypeInv, TypeOK
    <2> QED BY <1>1, <2>1, <2>2, CountStatus DEF TypeInv, Status
  <1>6. units' \in [Session -> Seq(Item)] /\ units' = [units EXCEPT ![s] = units'[s]]
    <2>1. units \in [Session -> Seq(Item)] /\ Append(units[s], Source(s)) \in Seq(Item)
      BY <1>3 DEF TypeInv, TypeOK
    <2>2. units' = units \/ units' = [units EXCEPT ![s] = Append(units[s], Source(s))]
      BY <1>1
    <2> QED BY <2>1, <2>2
  <1>7. TypeOK'
    BY <1>2, <1>3, <1>4, <1>5, <1>6, AdvanceType
    DEF TypeInv, TypeOK, Go, faults, Status, Where
  <1>8. Frame(s) /\ at'[s] = at[s] + 1 /\ pc'[s] = "select"
    BY <1>2, <1>4, <1>5, <1>6, AdvanceType DEF TypeInv, TypeOK, Frame, Go
  <1>9. SessionInv(s)'
    <2> DEFINE r == Len(report[s])  n == Len(sources[s])  m == Len(Manifest[s])
    <2>1. r + n = m + at[s] /\ at[s] < n
      BY <1>1, <1>2 DEF TypeInv, SessionInv, Accounted, AtWork
    <2>2. r \in Nat /\ n \in Nat /\ m \in Nat /\ at[s] \in Nat
      BY ProcessingAssumption DEF TypeInv, TypeOK
    <2>3. Len(report'[s]) = r + 1 /\ at'[s] = at[s] + 1 /\ Len(sources'[s]) = n
      BY <1>4, <1>5, <1>8
    <2> HIDE DEF r, n, m
    <2>4. at[s] + 1 <= n /\ r + 1 + n = m + (at[s] + 1)
      BY <2>1, <2>2, Balance
    <2>5. at'[s] <= Len(sources'[s]) /\ Len(report'[s]) + Len(sources'[s]) = Len(Manifest[s]) + at'[s]
      BY <2>3, <2>4 DEF m
    <2> QED BY <1>4, <1>5, <1>8, <2>5 DEF TypeInv, SessionInv, Accounted, Ready, AtWork
  <1>10. SucceededIsStored'
    BY <1>1, <1>3, <1>4 DEF TypeInv, TypeOK, SucceededIsStored, SessionInv, Ready
  <1> QED BY <1>7, <1>8, <1>9, <1>10, OthersKeep DEF TypeInv

LEMMA StepInv == TypeInv /\ [Next]_vars => TypeInv'
  <1> SUFFICES ASSUME TypeInv, [Next]_vars PROVE TypeInv'
    OBVIOUS
  <1>1. CASE UNCHANGED vars
    BY <1>1
    DEF vars, tables, faults, TypeInv, TypeOK, SucceededIsStored, SessionInv, Accounted, Ready,
        Key, Source
  <1>2. ASSUME NEW s \in Session, Open(s) \/ Run(s) \/ Crash(s) PROVE TypeInv'
    BY <1>2, OpenInv, InventoryInv, MoveInv, SelectInv, StartInv, ProcessInv, ResultInv DEF Run
  <1> QED BY <1>1, <1>2 DEF Next

LEMMA AlwaysInv == Spec => []TypeInv
  BY InitInv, StepInv, PTL DEF Spec

(* Every reachable state is well typed.                                    *)
THEOREM TypeCorrect == Spec => []TypeOK
  BY AlwaysInv, PTL DEF TypeInv

(* A run that counts as successful has its artifact and a complete file,   *)
(* wherever sessions were lost and however many operators work at once.    *)
THEOREM SuccessStored == Spec => []SucceededIsStored
  BY AlwaysInv, PTL DEF TypeInv

(* The report of a session that reaches it has a status for every item,    *)
(* and the session hands on the units of the sources it calls successful.  *)
THEOREM ReportComplete == Spec => []ReportCovers
  <1>1. TypeInv => ReportCovers
    <2> SUFFICES ASSUME TypeInv, NEW s \in Session, pc[s] = "ended"
                 PROVE  /\ Len(report[s]) = Len(Manifest[s])
                        /\ Len(units[s]) = Cardinality(Succeeded(report[s]))
      BY DEF ReportCovers, Succeeded
    <2> DEFINE r == Len(report[s])  n == Len(sources[s])  m == Len(Manifest[s])
    <2>1. r + n = m + at[s] /\ at[s] = n
      BY DEF TypeInv, SessionInv, Accounted
    <2>2. Len(units[s]) = Cardinality(Succeeded(report[s]))
      BY DEF TypeInv, SessionInv, Accounted
    <2>3. r \in Nat /\ n \in Nat /\ m \in Nat /\ at[s] \in Nat
      BY ProcessingAssumption DEF TypeInv, TypeOK
    <2>4. r = m
      <3> HIDE DEF r, n, m
      <3> QED BY <2>1, <2>3, Balance
    <2> QED BY <2>2, <2>4
  <1> QED BY <1>1, AlwaysInv, PTL

(***************************************************************************)
(* A settled run stays settled.                                            *)
(***************************************************************************)

\* Only documents that have a processor succeed.
OnlyPlain ==
  \A c \in Content : run[c] = "SUCCEEDED" =>
    \A i \in Item : ContentOf[i] = c => KindOf[i] = "plain"

\* What a session starts has a processor or none, what it processes has one.
Kinds ==
  \A s \in Session :
    /\ pc[s] = "start" => KindOf[Source(s)] \in {"plain", "unsupported"}
    /\ pc[s] \in Processing => KindOf[Source(s)] = "plain"

KindInv == TypeInv /\ OnlyPlain /\ Kinds

\* What a step of s does to the successes and to the sources at work.
LEMMA KindStep ==
  ASSUME KindInv, NEW s \in Session, Open(s) \/ Run(s) \/ Crash(s)
  PROVE  /\ OnlyPlain' /\ Kinds'
         /\ \A c \in Content : Settled(c) => Settled(c)'
  <1>0. TypeOK /\ OnlyPlain /\ Kinds /\ SessionInv(s)
    BY DEF KindInv, TypeInv
  <1> DEFINE Others == \A t \in Session \ {s} :
                         pc'[t] = pc[t] /\ Source(t)' = Source(t) /\ Key(t)' = Key(t)
             KindsOf == /\ pc'[s] = "start" => KindOf[Source(s)'] \in {"plain", "unsupported"}
                        /\ pc'[s] \in Processing => KindOf[Source(s)'] = "plain"
             Kept == \A c \in Content : Settled(c) => Settled(c)'
  <1>1. ASSUME Others, KindsOf PROVE Kinds'
    BY <1>0, <1>1 DEF Kinds
  <1>2. ASSUME run' = run PROVE OnlyPlain'
    BY <1>0, <1>2 DEF OnlyPlain
  <1>3. CASE Open(s) \/ Inventory(s) \/ Inventoried(s) \/ Finish(s) \/ Close(s) \/ Crash(s)
    <2>1. run' = run
      BY <1>3 DEF Open, Inventory, Inventoried, Finish, Close, Crash, tables
    <2>2. pc'[s] \notin AtWork
      BY <1>0, <1>3
      DEF TypeOK, Open, Inventory, Inventoried, Finish, Close, Crash, Skip, Refuse, Materialize,
          Go, AtWork
    <2>3. Others
      BY <1>0, <1>3
      DEF TypeOK, Open, Inventory, Inventoried, Finish, Close, Crash, Skip, Refuse, Materialize,
          Go, Advance, Key, Source
    <2>4. KindsOf
      BY <2>2 DEF AtWork, Processing
    <2>5. Kept
      BY <2>1, <2>2, <2>3 DEF Settled
    <2> QED BY <1>1, <1>2, <2>1, <2>3, <2>4, <2>5
  <1>4. CASE Select(s)
    <2>1. run' = run /\ sources' = sources /\ pc[s] = "select"
      BY <1>4 DEF Select, tables
    <2>2. Others
      BY <1>0, <1>4 DEF TypeOK, Select, Go, Advance, Key, Source
    <2>3. CASE UNCHANGED pc
      <3>1. pc'[s] \notin AtWork
        BY <2>1, <2>3 DEF AtWork
      <3>2. KindsOf
        BY <3>1 DEF AtWork, Processing
      <3>3. Kept
        BY <2>1, <2>2, <3>1 DEF Settled
      <3> QED BY <1>1, <1>2, <2>1, <2>2, <3>2, <3>3
    <2>4. CASE Go(s, "start") /\ UNCHANGED at
               /\ \/ KindOf[Source(s)] = "plain" /\ ~Found(Key(s))
                  \/ KindOf[Source(s)] = "unsupported"
      <3>1. pc'[s] = "start" /\ Key(s)' = Key(s) /\ Source(s)' = Source(s)
        BY <1>0, <2>1, <2>4 DEF TypeOK, Go, Key, Source
      <3>2. Source(s) \in Item /\ Key(s) \in Content /\ Key(s) = ContentOf[Source(s)]
        BY <1>0, <1>4, KeyType DEF Select, Key
      <3>3. run[Key(s)] # "SUCCEEDED"
        BY <1>0, <2>4, <3>2 DEF Found, OnlyPlain
      <3>4. KindsOf
        BY <2>4, <3>1 DEF Processing
      <3>5. Kept
        BY <2>1, <2>2, <3>1, <3>3 DEF Settled
      <3> QED BY <1>1, <1>2, <2>1, <2>2, <3>4, <3>5
    <2> QED BY <1>4, <2>3, <2>4 DEF Select
  <1>5. ASSUME NEW st \in Status, pc[s] \in AtWork, run' = [run EXCEPT ![Key(s)] = st], Others,
               pc'[s] \in AtWork => Key(s)' = Key(s)
        PROVE  Kept
    <2>1. Key(s) \in Content
      BY <1>0, <1>5, KeyType DEF SessionInv, Accounted
    <2> QED BY <1>0, <1>5, <2>1 DEF Settled, TypeOK
  <1>6. CASE Start(s)
    <2>1. /\ pc[s] = "start" /\ Key(s)' = Key(s) /\ Source(s)' = Source(s)
          /\ run' = [run EXCEPT ![Key(s)] = "RUNNING"]
      BY <1>6 DEF Start, Key, Source
    <2>2. Others
      BY <1>0, <1>6 DEF TypeOK, Start, Go, Key, Source
    <2>3. pc'[s] = IF KindOf[Source(s)] = "unsupported" THEN "unsupported" ELSE "process"
      BY <1>0, <1>6 DEF TypeOK, Start, Go
    <2>4. KindsOf
      BY <1>0, <2>1, <2>3 DEF Kinds, Processing
    <2>5. Kept
      BY <1>5, <2>1, <2>2 DEF AtWork, Status
    <2>6. OnlyPlain'
      <3>1. Key(s) \in Content
        BY <1>0, <2>1, KeyType DEF SessionInv, Accounted, AtWork
      <3> QED BY <1>0, <2>1, <3>1 DEF OnlyPlain, TypeOK
    <2> QED BY <1>1, <2>2, <2>4, <2>5, <2>6
  <1>7. CASE Process(s) \/ Add(s)
    <2>1. run' = run /\ Key(s)' = Key(s) /\ Source(s)' = Source(s) /\ pc[s] \in Processing
      BY <1>7 DEF Process, Add, Key, Source, Processing
    <2>2. pc'[s] # "start" /\ Others
      BY <1>0, <1>7 DEF TypeOK, Process, Add, ThenAdded, Go, Key, Source
    <2>3. KindsOf
      BY <1>0, <2>1, <2>2 DEF Kinds
    <2>4. Kept
      BY <2>1, <2>2 DEF Settled, Processing, AtWork
    <2> QED BY <1>1, <1>2, <2>1, <2>2, <2>3, <2>4
  <1>8. CASE Unsupported(s) \/ Complete(s) \/ Fail(s)
    <2>1. PICK st \in {"UNSUPPORTED", "SUCCEEDED", "FAILED"} :
            /\ SetResult(s, st) /\ pc[s] \in AtWork
            /\ st = "SUCCEEDED" => pc[s] = "complete"
      BY <1>8 DEF Unsupported, Complete, Fail, AtWork
    <2>2. run' = [run EXCEPT ![Key(s)] = st] /\ pc'[s] = "select"
      BY <1>0, <2>1 DEF SetResult, Go, TypeOK
    <2>3. Others
      BY <1>0, <2>1 DEF TypeOK, SetResult, Go, Advance, Key, Source
    <2>4. KindsOf
      BY <2>2 DEF Processing
    <2>5. Kept
      BY <1>5, <2>1, <2>2, <2>3 DEF AtWork, Status
    <2>6. Source(s) \in Item /\ Key(s) \in Content /\ Key(s) = ContentOf[Source(s)]
      BY <1>0, <2>1, KeyType DEF SessionInv, Accounted, Key
    <2>7. st = "SUCCEEDED" => KindOf[Source(s)] = "plain"
      BY <1>0, <2>1 DEF Kinds, Processing
    <2>8. st = "SUCCEEDED" => \A i \in Item : ContentOf[i] = Key(s) => KindOf[i] = "plain"
      BY <2>6, <2>7, ProcessingAssumption
    <2>9. OnlyPlain'
      BY <1>0, <2>2, <2>6, <2>8 DEF OnlyPlain, TypeOK
    <2> QED BY <1>1, <2>3, <2>4, <2>5, <2>9
  <1> QED BY <1>3, <1>4, <1>6, <1>7, <1>8 DEF Run

\* The kinds are kept by every step, and so is each settled run.
LEMMA SettledStep ==
  ASSUME KindInv, [Next]_vars
  PROVE  KindInv' /\ \A c \in Content : Settled(c) => Settled(c)'
  <1>1. TypeInv'
    BY StepInv DEF KindInv
  <1>2. CASE UNCHANGED vars
    BY <1>1, <1>2 DEF KindInv, OnlyPlain, Kinds, Settled, vars, tables, Key, Source
  <1>3. CASE Next
    BY <1>1, <1>3, KindStep DEF KindInv, Next
  <1> QED BY <1>2, <1>3

(* A successful run is never begun again once the sessions that were at    *)
(* work on it when it succeeded are past it, however many operators repeat *)
(* the command.  (Those sessions have looked before the success, and may.) *)
THEOREM SuccessReused == Spec => SuccessIsReused
  <1>1. Init => KindInv
    BY InitInv DEF Init, KindInv, OnlyPlain, Kinds, Processing
  <1>2. KindInv /\ [Next]_vars => KindInv'
    BY SettledStep
  <1>3. KindInv /\ [Next]_vars => [\A c \in Content : Settled(c) => Settled(c)']_vars
    BY SettledStep
  <1> QED BY <1>1, <1>2, <1>3, PTL DEF Spec, SuccessIsReused
=============================================================================
