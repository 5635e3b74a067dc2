------------------------ MODULE CandidateBatches_proofs ------------------------
(***************************************************************************)
(* Proofs about the candidate stage, for any units, any amounts of         *)
(* evidence, any batch size and any failures: the packing is sound, and    *)
(* no evidence is proposed from twice unless a semantic stage stopped      *)
(* half-way.  The loops of the packing are recursive functions; what they  *)
(* compute is proved by induction over sets of naturals.                   *)
(***************************************************************************)
EXTENDS CandidateBatches, SequenceTheorems, Loops

-----------------------------------------------------------------------------
(***************************************************************************)
(* The size of a batch.                                                    *)
(***************************************************************************)
Sizes == size \in [Unit -> Nat]

IsSum(f, b) == f = [n \in 0..Len(b) |-> IF n = 0 THEN 0 ELSE f[n - 1] + size[b[n]]]

LEMMA SumExists ==
  ASSUME Sizes, NEW b \in Seq(Unit)
  PROVE  \E f : IsSum(f, b)
  <1> DEFINE F == [p \in Nat \X Nat |-> IF p[1] \in 1..Len(b) THEN p[2] + size[b[p[1]]] ELSE 0]
  <1>1. Len(b) \in Nat /\ 0 \in Nat /\ \A n \in 1..Len(b) : b[n] \in Unit
    BY LenProperties, ElementOfSeq
  <1>2. F \in [Nat \X Nat -> Nat]
    BY <1>1 DEF Sizes
  <1>3. PICK f : IsLoop(f, Nat, 0, F, Len(b))
    <2> HIDE DEF F
    <2> QED BY <1>1, <1>2, Recursion
  <1>4. f \in [0..Len(b) -> Nat] /\ f[0] = 0 /\ \A n \in 1..Len(b) : f[n] = F[<<n, f[n - 1]>>]
    BY <1>3 DEF IsLoop
  <1>5. \A n \in 1..Len(b) : f[n] = f[n - 1] + size[b[n]]
    <2> SUFFICES ASSUME NEW n \in 1..Len(b) PROVE f[n] = f[n - 1] + size[b[n]]
      OBVIOUS
    <2>1. <<n, f[n - 1]>> \in Nat \X Nat
      BY <1>1, <1>4
    <2> QED BY <1>4, <2>1
  <1>6. IsSum(f, b)
    <2>1. \A n \in 0..Len(b) : f[n] = IF n = 0 THEN 0 ELSE f[n - 1] + size[b[n]]
      BY <1>1, <1>4, <1>5
    <2> QED BY <1>4, <2>1 DEF IsSum
  <1> QED BY <1>6

LEMMA WeightSum ==
  ASSUME Sizes, NEW b \in Seq(Unit)
  PROVE  \E f : IsSum(f, b) /\ Weight(b) = f[Len(b)]
  BY SumExists DEF Weight, IsSum

\* The steps of a sum.
LEMMA SumSteps ==
  ASSUME Sizes, NEW b \in Seq(Unit), NEW f, IsSum(f, b)
  PROVE  /\ f[0] = 0 /\ \A n \in 1..Len(b) : f[n] = f[n - 1] + size[b[n]]
         /\ \A n \in 0..Len(b) : f[n] \in Nat
  <1>1. Len(b) \in Nat /\ \A n \in 1..Len(b) : b[n] \in Unit
    BY LenProperties, ElementOfSeq
  <1>2. f[0] = 0 /\ \A n \in 1..Len(b) : f[n] = f[n - 1] + size[b[n]]
    BY <1>1 DEF IsSum
  <1>3. Stays(f, Nat, Len(b))
    BY <1>1, <1>2 DEF Sizes, Stays
  <1> QED BY <1>1, <1>2, <1>3, LoopStays

LEMMA WeightAppend ==
  ASSUME Sizes, NEW b \in Seq(Unit), NEW u \in Unit
  PROVE  Weight(b) \in Nat /\ Weight(Append(b, u)) = Weight(b) + size[u]
  <1>1. Len(b) \in Nat
    BY LenProperties
  <1>2. PICK f : IsSum(f, b) /\ Weight(b) = f[Len(b)]
    BY WeightSum
  <1>3. /\ Append(b, u) \in Seq(Unit) /\ Len(Append(b, u)) = Len(b) + 1
        /\ \A n \in 1..Len(b) : Append(b, u)[n] = b[n]
        /\ Append(b, u)[Len(b) + 1] = u
    BY AppendProperties
  <1>4. PICK g : IsSum(g, Append(b, u)) /\ Weight(Append(b, u)) = g[Len(b) + 1]
    BY <1>3, WeightSum
  <1>5. /\ f[0] = 0 /\ \A n \in 1..Len(b) : f[n] = f[n - 1] + size[b[n]]
        /\ f[Len(b)] \in Nat
    BY <1>1, <1>2, SumSteps
  <1>6. g[0] = 0 /\ \A n \in 1..(Len(b) + 1) : g[n] = g[n - 1] + size[Append(b, u)[n]]
    <2>1. g[0] = 0 /\ \A n \in 1..Len(Append(b, u)) : g[n] = g[n - 1] + size[Append(b, u)[n]]
      BY <1>3, <1>4, SumSteps
    <2> QED BY <1>3, <2>1
  <1> DEFINE T == {m \in Nat : m <= Len(b) => g[m] = f[m]}
  <1>7. T = Nat
    <2>1. 0 \in T
      BY <1>5, <1>6
    <2>2. ASSUME NEW m \in T PROVE m + 1 \in T
      <3> SUFFICES ASSUME m + 1 <= Len(b) PROVE g[m + 1] = f[m + 1]
        OBVIOUS
      <3>1. m + 1 \in 1..Len(b) /\ (m + 1) - 1 = m /\ g[m] = f[m]
        BY <1>1
      <3>2. m + 1 \in 1..(Len(b) + 1)
        BY <1>1, <3>1
      <3>3. g[m + 1] = g[m] + size[b[m + 1]]
        BY <1>3, <1>6, <3>1, <3>2
      <3>4. f[m + 1] = f[m] + size[b[m + 1]]
        BY <1>5, <3>1
      <3> QED BY <3>1, <3>3, <3>4
    <2> HIDE DEF T
    <2> QED BY <2>1, <2>2, SetInduction DEF T
  <1>8. g[Len(b)] = f[Len(b)]
    BY <1>1, <1>7
  <1>9. g[Len(b) + 1] = g[Len(b)] + size[u]
    <2>1. Len(b) + 1 \in 1..(Len(b) + 1) /\ (Len(b) + 1) - 1 = Len(b)
      BY <1>1
    <2> QED BY <1>3, <1>6, <2>1
  <1> QED BY <1>2, <1>4, <1>5, <1>8, <1>9

LEMMA WeightOne ==
  ASSUME Sizes, NEW u \in Unit
  PROVE  Weight(<<u>>) = size[u]
  <1>1. <<>> \in Seq(Unit) /\ Len(<<>>) = 0 /\ Append(<<>>, u) = <<u>>
    BY EmptySeq
  <1>2. PICK f : IsSum(f, <<>>) /\ Weight(<<>>) = f[0]
    BY <1>1, WeightSum
  <1>3. Weight(<<>>) = 0
    BY <1>1, <1>2, SumSteps
  <1>4. Weight(Append(<<>>, u)) = Weight(<<>>) + size[u]
    BY <1>1, WeightAppend
  <1>5. size[u] \in Nat
    BY DEF Sizes
  <1> QED BY <1>1, <1>3, <1>4, <1>5

-----------------------------------------------------------------------------
(***************************************************************************)
(* The packing.                                                            *)
(***************************************************************************)
SomeBatches == Seq(Seq(Unit))

IsPack(f, units) == f = [n \in 0..Len(units) |-> IF n = 0 THEN <<>> ELSE Grouped(f[n - 1], units[n])]

LEMMA GroupedType ==
  ASSUME NEW B \in SomeBatches, NEW u \in Unit
  PROVE  Grouped(B, u) \in SomeBatches
  <1>1. <<u>> \in Seq(Unit)
    OBVIOUS
  <1>2. Append(B, <<u>>) \in SomeBatches
    BY <1>1, AppendProperties DEF SomeBatches
  <1>3. ASSUME B # <<>> PROVE [B EXCEPT ![Len(B)] = Append(@, u)] \in SomeBatches
    <2>1. Len(B) \in 1..Len(B) /\ B[Len(B)] \in Seq(Unit)
      BY <1>3, EmptySeq, ElementOfSeq DEF SomeBatches
    <2>2. Append(B[Len(B)], u) \in Seq(Unit)
      BY <2>1, AppendProperties
    <2> QED BY <2>1, <2>2, ExceptSeq DEF SomeBatches
  <1> QED BY <1>2, <1>3 DEF Grouped

LEMMA PackExists ==
  ASSUME NEW units \in Seq(Unit)
  PROVE  \E f : IsPack(f, units)
  <1> DEFINE F == [p \in Nat \X SomeBatches |->
                     IF p[1] \in 1..Len(units) THEN Grouped(p[2], units[p[1]]) ELSE <<>>]
  <1>1. Len(units) \in Nat /\ <<>> \in SomeBatches /\ \A n \in 1..Len(units) : units[n] \in Unit
    BY LenProperties, ElementOfSeq, EmptySeq DEF SomeBatches
  <1>2. F \in [Nat \X SomeBatches -> SomeBatches]
    BY <1>1, GroupedType
  <1>3. PICK f : IsLoop(f, SomeBatches, <<>>, F, Len(units))
    <2> HIDE DEF F
    <2> QED BY <1>1, <1>2, Recursion
  <1>4. /\ f \in [0..Len(units) -> SomeBatches] /\ f[0] = <<>>
        /\ \A n \in 1..Len(units) : f[n] = F[<<n, f[n - 1]>>]
    BY <1>3 DEF IsLoop
  <1>5. \A n \in 1..Len(units) : f[n] = Grouped(f[n - 1], units[n])
    <2> SUFFICES ASSUME NEW n \in 1..Len(units) PROVE f[n] = Grouped(f[n - 1], units[n])
      OBVIOUS
    <2>1. <<n, f[n - 1]>> \in Nat \X SomeBatches
      BY <1>1, <1>4
    <2> QED BY <1>4, <2>1
  <1>6. IsPack(f, units)
    <2>1. \A n \in 0..Len(units) : f[n] = IF n = 0 THEN <<>> ELSE Grouped(f[n - 1], units[n])
      BY <1>1, <1>4, <1>5
    <2> QED BY <1>4, <2>1 DEF IsPack
  <1> QED BY <1>6

LEMMA PackLoop ==
  ASSUME NEW units \in Seq(Unit)
  PROVE  \E f : IsPack(f, units) /\ Packed(units) = f[Len(units)]
  BY PackExists DEF Packed, IsPack

\* What the batches B of the first n units have to do with these units.
Follows(units, n, u, v) == \E p, q \in 1..n : p < q /\ units[p] = u /\ units[q] = v

AllPacked(B, units, n) ==
  /\ \A k \in 1..Len(B) : \A i \in 1..Len(B[k]) :
       size[B[k][i]] > 0 /\ \E p \in 1..n : units[p] = B[k][i]
  /\ \A p \in 1..n : size[units[p]] > 0 =>
       \E k \in 1..Len(B) : \E i \in 1..Len(B[k]) : B[k][i] = units[p]
InOrder(B, units, n) ==
  \A k, l \in 1..Len(B) : \A i \in 1..Len(B[k]), j \in 1..Len(B[l]) :
    k < l \/ (k = l /\ i < j) => Follows(units, n, B[k][i], B[l][j])
WellFilled(B) ==
  \A k \in 1..Len(B) :
    /\ Len(B[k]) > 0
    /\ Weight(B[k]) <= BatchSize \/ Len(B[k]) = 1
    /\ k > 1 => Weight(B[k - 1]) + size[B[k][1]] > BatchSize
Sound(B, units, n) ==
  B \in SomeBatches /\ AllPacked(B, units, n) /\ InOrder(B, units, n) /\ WellFilled(B)

LEMMA FollowsStill ==
  ASSUME NEW units, NEW n \in Nat, NEW u, NEW v, Follows(units, n, u, v)
  PROVE  Follows(units, n + 1, u, v)
  <1>1. PICK p \in 1..n, q \in 1..n : p < q /\ units[p] = u /\ units[q] = v
    BY DEF Follows
  <1>2. p \in 1..(n + 1) /\ q \in 1..(n + 1)
    OBVIOUS
  <1> QED BY <1>1, <1>2 DEF Follows

LEMMA FollowsLast ==
  ASSUME NEW units, NEW n \in Nat, NEW p \in 1..n
  PROVE  Follows(units, n + 1, units[p], units[n + 1])
  <1>1. p \in 1..(n + 1) /\ n + 1 \in 1..(n + 1) /\ p < n + 1
    OBVIOUS
  <1> QED BY <1>1 DEF Follows

LEMMA SoundStart ==
  ASSUME NEW units
  PROVE  Sound(<<>>, units, 0)
  BY EmptySeq DEF Sound, SomeBatches, AllPacked, InOrder, WellFilled

\* A unit without items.
LEMMA SoundSkip ==
  ASSUME NEW B, NEW units, NEW n \in Nat, Sound(B, units, n), size[units[n + 1]] = 0
  PROVE  Sound(B, units, n + 1)
  <1>1. \A p \in 1..n : p \in 1..(n + 1)
    OBVIOUS
  <1>2. \A p \in 1..(n + 1) : p \in 1..n \/ p = n + 1
    OBVIOUS
  <1>3. AllPacked(B, units, n + 1)
    BY <1>1, <1>2 DEF Sound, AllPacked
  <1>4. InOrder(B, units, n + 1)
    BY FollowsStill DEF Sound, InOrder
  <1> QED BY <1>3, <1>4 DEF Sound

\* A unit that opens a batch.
LEMMA SoundOpen ==
  ASSUME Sizes, NEW units \in Seq(Unit), NEW n \in Nat, n + 1 \in 1..Len(units),
         NEW B, Sound(B, units, n), size[units[n + 1]] > 0,
         B = <<>> \/ ~Fits(B[Len(B)], units[n + 1])
  PROVE  Sound(Append(B, <<units[n + 1]>>), units, n + 1)
  <1> DEFINE u == units[n + 1]
             C == Append(B, <<u>>)
             m == Len(B)
  <1>1. u \in Unit /\ B \in SomeBatches
    BY ElementOfSeq DEF Sound
  <1>2. /\ C \in SomeBatches /\ Len(C) = m + 1 /\ C[m + 1] = <<u>> /\ m \in Nat
        /\ \A k \in 1..m : C[k] = B[k]
    BY <1>1, AppendProperties, LenProperties DEF SomeBatches
  <1>3. Len(C[m + 1]) = 1 /\ C[m + 1][1] = u
    <2>1. Len(<<u>>) = 1 /\ <<u>>[1] = u
      OBVIOUS
    <2> HIDE DEF C, m, u
    <2> QED BY <1>2, <2>1, Zenon
  <1> HIDE DEF C
  <1>4. \A k \in 1..(m + 1) : k \in 1..m \/ k = m + 1
    BY <1>2
  <1>5. \A p \in 1..n : p \in 1..(n + 1) /\ p < n + 1
    OBVIOUS
  <1>6. n + 1 \in 1..(n + 1) /\ \A p \in 1..(n + 1) : p \in 1..n \/ p = n + 1
    OBVIOUS
  <1>7. AllPacked(C, units, n + 1)
    <2>1. ASSUME NEW k \in 1..(m + 1), NEW i \in 1..Len(C[k])
          PROVE  size[C[k][i]] > 0 /\ \E p \in 1..(n + 1) : units[p] = C[k][i]
      <3>1. CASE k \in 1..m
        BY <1>2, <1>5, <2>1, <3>1 DEF Sound, AllPacked
      <3>2. CASE k = m + 1
        <4>1. i = 1 /\ C[k][i] = u
          <5>1. i \in 1..1
            BY <1>3, <2>1, <3>2
          <5> QED BY <1>3, <3>2, <5>1
        <4> QED BY <1>6, <4>1
      <3> QED BY <1>4, <3>1, <3>2
    <2>2. ASSUME NEW p \in 1..(n + 1), size[units[p]] > 0
          PROVE  \E k \in 1..(m + 1) : \E i \in 1..Len(C[k]) : C[k][i] = units[p]
      <3>1. CASE p \in 1..n
        <4>1. PICK k \in 1..m : \E i \in 1..Len(B[k]) : B[k][i] = units[p]
          BY <2>2, <3>1 DEF Sound, AllPacked
        <4> QED BY <1>2, <4>1
      <3>2. CASE p = n + 1
        <4>1. m + 1 \in 1..(m + 1) /\ 1 \in 1..Len(C[m + 1]) /\ C[m + 1][1] = u
          BY <1>2, <1>3
        <4> QED BY <3>2, <4>1
      <3> QED BY <1>6, <3>1, <3>2
    <2> QED BY <1>2, <2>1, <2>2 DEF AllPacked
  <1>8. InOrder(C, units, n + 1)
    <2> SUFFICES ASSUME NEW k \in 1..(m + 1), NEW l \in 1..(m + 1),
                        NEW i \in 1..Len(C[k]), NEW j \in 1..Len(C[l]),
                        k < l \/ (k = l /\ i < j)
                 PROVE  Follows(units, n + 1, C[k][i], C[l][j])
      BY <1>2 DEF InOrder
    <2>1. CASE l \in 1..m
      <3>1. k \in 1..m
        BY <1>2, <2>1
      <3>2. Follows(units, n, B[k][i], B[l][j])
        BY <1>2, <2>1, <3>1 DEF Sound, InOrder
      <3>3. C[k][i] = B[k][i] /\ C[l][j] = B[l][j]
        BY <1>2, <2>1, <3>1
      <3> QED BY <3>2, <3>3, FollowsStill
    <2>2. CASE l = m + 1
      <3>1. j = 1 /\ C[l][j] = u
        <4>1. j \in 1..1
          BY <1>3, <2>2
        <4> QED BY <1>3, <2>2, <4>1
      <3>2. k \in 1..m
        <4>1. k = m + 1 => i \in 1..1
          BY <1>3
        <4>2. k = m + 1 => i = 1
          BY <4>1
        <4> QED BY <1>2, <2>2, <3>1, <4>2
      <3>3. i \in 1..Len(B[k]) /\ C[k][i] = B[k][i]
        BY <1>2, <3>2
      <3>4. PICK p \in 1..n : units[p] = C[k][i]
        BY <3>2, <3>3 DEF Sound, AllPacked
      <3>5. Follows(units, n + 1, units[p], u)
        BY FollowsLast
      <3> QED BY <3>1, <3>4, <3>5
    <2> QED BY <1>4, <2>1, <2>2
  <1>9. WellFilled(C)
    <2> SUFFICES ASSUME NEW k \in 1..(m + 1)
                 PROVE  /\ Len(C[k]) > 0
                        /\ Weight(C[k]) <= BatchSize \/ Len(C[k]) = 1
                        /\ k > 1 => Weight(C[k - 1]) + size[C[k][1]] > BatchSize
      BY <1>2 DEF WellFilled
    <2>1. CASE k \in 1..m
      <3>1. k > 1 => C[k - 1] = B[k - 1]
        BY <1>2, <2>1
      <3> QED BY <1>2, <2>1, <3>1 DEF Sound, WellFilled
    <2>2. CASE k = m + 1
      <3>1. ASSUME k > 1 PROVE Weight(C[k - 1]) + size[C[k][1]] > BatchSize
        <4>1. m \in 1..m /\ C[k - 1] = B[m] /\ C[k][1] = u
          <5>1. m \in 1..m /\ k - 1 = m
            BY <1>2, <2>2, <3>1
          <5> QED BY <1>2, <1>3, <2>2, <5>1
        <4>2. ~Fits(B[m], u)
          <5>1. Len(B) = 0 => m \notin 1..m
            OBVIOUS
          <5>2. Len(<<>>) = 0
            OBVIOUS
          <5> QED BY <4>1, <5>1, <5>2
        <4>3. B[m] \in Seq(Unit)
          BY <1>1, <4>1, ElementOfSeq DEF SomeBatches
        <4>4. Weight(B[m]) \in Nat /\ size[u] \in Nat
          BY <1>1, <4>3, WeightAppend DEF Sizes
        <4>5. ~(Weight(B[m]) + size[u] <= BatchSize)
          BY <4>2 DEF Fits
        <4>6. Weight(C[k - 1]) + size[C[k][1]] = Weight(B[m]) + size[u]
          BY <4>1
        <4> HIDE DEF m, u
        <4> QED BY <4>4, <4>5, <4>6, CandidatesAssumption
      <3>2. Len(C[k]) = 1
        BY <1>3, <2>2
      <3> QED BY <3>1, <3>2
    <2> QED BY <1>4, <2>1, <2>2
  <1>10. Sound(C, units, n + 1)
    BY <1>2, <1>7, <1>8, <1>9 DEF Sound
  <1> QED BY <1>10 DEF C

\* A unit that goes into the last batch.
LEMMA SoundExtend ==
  ASSUME Sizes, NEW units \in Seq(Unit), NEW n \in Nat, n + 1 \in 1..Len(units),
         NEW B, Sound(B, units, n), size[units[n + 1]] > 0,
         B # <<>>, Fits(B[Len(B)], units[n + 1])
  PROVE  Sound([B EXCEPT ![Len(B)] = Append(@, units[n + 1])], units, n + 1)
  <1> DEFINE u == units[n + 1]
             m == Len(B)
             C == [B EXCEPT ![m] = Append(@, u)]
             h == Len(B[m])
  <1>1. u \in Unit /\ B \in SomeBatches
    BY ElementOfSeq DEF Sound
  <1>2. m \in Nat /\ m \in 1..m /\ B[m] \in Seq(Unit) /\ DOMAIN B = 1..m
    BY <1>1, EmptySeq, ElementOfSeq, LenProperties DEF SomeBatches
  <1>3. /\ h \in Nat /\ Len(Append(B[m], u)) = h + 1 /\ Append(B[m], u)[h + 1] = u
        /\ \A i \in 1..h : Append(B[m], u)[i] = B[m][i]
        /\ Append(B[m], u) \in Seq(Unit)
    BY <1>1, <1>2, AppendProperties, LenProperties
  <1>4. /\ C \in SomeBatches /\ Len(C) = m /\ C[m] = Append(B[m], u)
        /\ \A k \in 1..m : k # m => C[k] = B[k]
    <2>1. C = [B EXCEPT ![m] = Append(B[m], u)]
      OBVIOUS
    <2>2. /\ [B EXCEPT ![m] = Append(B[m], u)] \in SomeBatches
          /\ Len([B EXCEPT ![m] = Append(B[m], u)]) = m
      BY <1>1, <1>2, <1>3, ExceptSeq DEF SomeBatches
    <2>3. C[m] = Append(B[m], u) /\ \A k \in 1..m : k # m => C[k] = B[k]
      BY <1>2
    <2> QED BY <2>1, <2>2, <2>3
  <1>5. h > 0 /\ Weight(C[m]) <= BatchSize
    BY <1>1, <1>2, <1>4, WeightAppend DEF Sound, WellFilled, Fits
  <1> HIDE DEF C
  <1>6. \A p \in 1..n : p \in 1..(n + 1) /\ p < n + 1
    OBVIOUS
  <1>7. n + 1 \in 1..(n + 1) /\ \A p \in 1..(n + 1) : p \in 1..n \/ p = n + 1
    OBVIOUS
  \* every place of C is the one of B, or the new one
  <1>8. ASSUME NEW k \in 1..m, NEW i \in 1..Len(C[k])
        PROVE  \/ i \in 1..Len(B[k]) /\ C[k][i] = B[k][i]
               \/ k = m /\ i = h + 1 /\ C[k][i] = u
    <2>1. CASE k # m
      BY <1>4, <2>1
    <2>2. CASE k = m
      <3>1. i \in 1..(h + 1)
        BY <1>3, <1>4, <1>8, <2>2
      <3>2. i \in 1..h \/ i = h + 1
        BY <1>3, <3>1
      <3> QED BY <1>3, <1>4, <2>2, <3>2
    <2> QED BY <2>1, <2>2
  <1>9. ASSUME NEW k \in 1..m, NEW i \in 1..Len(B[k])
        PROVE  i \in 1..Len(C[k]) /\ C[k][i] = B[k][i]
    <2>1. CASE k # m
      BY <1>4, <2>1
    <2>2. CASE k = m
      BY <1>3, <1>4, <2>2
    <2> QED BY <2>1, <2>2
  <1>10. AllPacked(C, units, n + 1)
    <2>1. ASSUME NEW k \in 1..m, NEW i \in 1..Len(C[k])
          PROVE  size[C[k][i]] > 0 /\ \E p \in 1..(n + 1) : units[p] = C[k][i]
      <3>1. CASE i \in 1..Len(B[k]) /\ C[k][i] = B[k][i]
        <4>1. size[B[k][i]] > 0 /\ \E p \in 1..n : units[p] = B[k][i]
          BY <3>1 DEF Sound, AllPacked
        <4> QED BY <1>6, <3>1, <4>1
      <3>2. CASE C[k][i] = u
        BY <1>7, <3>2
      <3> QED BY <1>8, <3>1, <3>2
    <2>2. ASSUME NEW p \in 1..(n + 1), size[units[p]] > 0
          PROVE  \E k \in 1..m : \E i \in 1..Len(C[k]) : C[k][i] = units[p]
      <3>1. CASE p \in 1..n
        BY <1>9, <2>2, <3>1 DEF Sound, AllPacked
      <3>2. CASE p = n + 1
        <4>1. h + 1 \in 1..Len(C[m]) /\ C[m][h + 1] = u
          BY <1>3, <1>4
        <4> QED BY <1>2, <3>2, <4>1
      <3> QED BY <1>7, <3>1, <3>2
    <2> QED BY <1>4, <2>1, <2>2 DEF AllPacked
  <1>11. InOrder(C, units, n + 1)
    <2> SUFFICES ASSUME NEW k \in 1..m, NEW l \in 1..m,
                        NEW i \in 1..Len(C[k]), NEW j \in 1..Len(C[l]),
                        k < l \/ (k = l /\ i < j)
                 PROVE  Follows(units, n + 1, C[k][i], C[l][j])
      BY <1>4 DEF InOrder
    <2>1. CASE i \in 1..Len(B[k]) /\ j \in 1..Len(B[l]) /\ C[k][i] = B[k][i] /\ C[l][j] = B[l][j]
      <3>1. Follows(units, n, B[k][i], B[l][j])
        BY <2>1 DEF Sound, InOrder
      <3> QED BY <2>1, <3>1, FollowsStill
    <2>2. CASE i \in 1..Len(B[k]) /\ C[k][i] = B[k][i] /\ C[l][j] = u
      <3>1. PICK p \in 1..n : units[p] = C[k][i]
        BY <2>2 DEF Sound, AllPacked
      <3>2. Follows(units, n + 1, units[p], u)
        BY FollowsLast
      <3> QED BY <2>2, <3>1, <3>2
    <2>3. CASE k = m /\ i = h + 1
      <3> HIDE DEF u, m, h
      <3>1. l = m
        <4>1. m \in Nat /\ k = m
          BY <1>2, <2>3
        <4>2. k <= l
          BY <4>1
        <4> QED BY <4>1, <4>2
      <3>2. Len(C[l]) = h + 1
        BY <1>3, <1>4, <3>1
      <3>3. j \in 1..(h + 1)
        BY <3>2
      <3>4. i < j
        BY <1>2, <2>3, <3>1
      <3> QED BY <1>3, <2>3, <3>3, <3>4
    <2> QED BY <1>8, <2>1, <2>2, <2>3
  <1>12. WellFilled(C)
    <2> SUFFICES ASSUME NEW k \in 1..m
                 PROVE  /\ Len(C[k]) > 0
                        /\ Weight(C[k]) <= BatchSize \/ Len(C[k]) = 1
                        /\ k > 1 => Weight(C[k - 1]) + size[C[k][1]] > BatchSize
      BY <1>4 DEF WellFilled
    <2>1. k > 1 => C[k - 1] = B[k - 1]
      <3>1. k > 1 => k - 1 \in 1..m /\ k - 1 # m
        BY <1>2
      <3> QED BY <1>4, <3>1
    <2>2. C[k][1] = B[k][1]
      <3>1. 1 \in 1..Len(B[k])
        <4>1. B[k] \in Seq(Unit) /\ Len(B[k]) \in Nat
          BY <1>1, ElementOfSeq, LenProperties DEF SomeBatches
        <4> QED BY <4>1 DEF Sound, WellFilled
      <3> QED BY <1>9, <3>1
    <2>3. k > 1 => Weight(C[k - 1]) + size[C[k][1]] > BatchSize
      BY <2>1, <2>2 DEF Sound, WellFilled
    <2>4. Len(C[k]) > 0 /\ (Weight(C[k]) <= BatchSize \/ Len(C[k]) = 1)
      <3>1. CASE k = m
        <4>1. Len(C[m]) = h + 1
          BY <1>3, <1>4
        <4> HIDE DEF u, m, h
        <4> QED BY <1>3, <1>5, <3>1, <4>1
      <3>2. CASE k # m
        <4>1. C[k] = B[k]
          BY <1>4, <3>2
        <4>2. Len(B[k]) > 0 /\ (Weight(B[k]) <= BatchSize \/ Len(B[k]) = 1)
          BY DEF Sound, WellFilled
        <4> QED BY <4>1, <4>2
      <3> QED BY <3>1, <3>2
    <2> QED BY <2>3, <2>4
  <1>13. Sound(C, units, n + 1)
    BY <1>4, <1>10, <1>11, <1>12 DEF Sound
  <1> QED BY <1>13 DEF C

\* The packing of all the units is sound.
LEMMA PackedSound ==
  ASSUME Sizes, NEW units \in Seq(Unit)
  PROVE  Sound(Packed(units), units, Len(units))
  <1>1. PICK f : IsPack(f, units) /\ Packed(units) = f[Len(units)]
    BY PackLoop
  <1>2. Len(units) \in Nat /\ \A n \in 1..Len(units) : units[n] \in Unit
    BY LenProperties, ElementOfSeq
  <1>3. f[0] = <<>> /\ \A n \in 1..Len(units) : f[n] = Grouped(f[n - 1], units[n])
    BY <1>1, <1>2 DEF IsPack
  <1> DEFINE T == {n \in Nat : n <= Len(units) => Sound(f[n], units, n)}
  <1>4. 0 \in T
    BY <1>3, SoundStart
  <1>5. ASSUME NEW n \in T PROVE n + 1 \in T
    <2> SUFFICES ASSUME n + 1 <= Len(units) PROVE Sound(f[n + 1], units, n + 1)
      OBVIOUS
    <2> DEFINE u == units[n + 1]
               B == f[n]
    <2>1. n \in Nat /\ n + 1 \in 1..Len(units) /\ Sound(B, units, n)
      BY <1>2
    <2>2. f[n + 1] = Grouped(B, u)
      <3>1. (n + 1) - 1 = n
        BY <2>1
      <3> QED BY <1>3, <2>1, <3>1
    <2>3. size[u] \in Nat
      BY <1>2, <2>1 DEF Sizes
    <2>4. CASE size[u] = 0
      <3>1. f[n + 1] = B
        BY <2>2, <2>4 DEF Grouped
      <3>2. Sound(B, units, n + 1)
        BY <2>1, <2>4, SoundSkip
      <3> QED BY <3>1, <3>2
    <2>5. CASE size[u] > 0 /\ (B = <<>> \/ ~Fits(B[Len(B)], u))
      <3>1. f[n + 1] = Append(B, <<u>>)
        BY <2>2, <2>5 DEF Grouped
      <3>2. Sound(Append(B, <<u>>), units, n + 1)
        BY <2>1, <2>5, SoundOpen
      <3> QED BY <3>1, <3>2
    <2>6. CASE size[u] > 0 /\ B # <<>> /\ Fits(B[Len(B)], u)
      <3>1. f[n + 1] = [B EXCEPT ![Len(B)] = Append(@, u)]
        BY <2>2, <2>6 DEF Grouped
      <3>2. Sound([B EXCEPT ![Len(B)] = Append(@, u)], units, n + 1)
        BY <2>1, <2>6, SoundExtend
      <3> QED BY <3>1, <3>2
    <2> QED BY <2>3, <2>4, <2>5, <2>6
  <1>6. T = Nat
    <2> HIDE DEF T
    <2> QED BY <1>4, <1>5, SetInduction DEF T
  <1> QED BY <1>1, <1>2, <1>6

-----------------------------------------------------------------------------
(***************************************************************************)
(* The order in which the evidence is listed.                              *)
(***************************************************************************)
IsList(f, S) ==
  f = [n \in 0..Len(Units) |->
         IF n = 0 THEN <<>>
         ELSE IF Units[n] \in S THEN Append(f[n - 1], Units[n]) ELSE f[n - 1]]

LEMMA UnitsType ==
  /\ Units \in Seq(Unit) /\ Len(Units) \in Nat
  /\ DOMAIN Units = 1..Len(Units) /\ \A n \in 1..Len(Units) : Units[n] \in Unit
  <1>1. Units \in Seq(Unit)
    BY CandidatesAssumption DEF Unit
  <1>2. DOMAIN Units = 1..Len(Units)
    BY <1>1, LenProperties
  <1> QED BY <1>1, <1>2, LenProperties, ElementOfSeq

Listings == Seq(Unit)

LEMMA ListExists ==
  ASSUME NEW S
  PROVE  \E f : IsList(f, S)
  <1> DEFINE F == [p \in Nat \X Listings |->
                     IF p[1] \in 1..Len(Units)
                     THEN IF Units[p[1]] \in S THEN Append(p[2], Units[p[1]]) ELSE p[2]
                     ELSE <<>>]
  <1>1. Len(Units) \in Nat /\ <<>> \in Listings
    BY UnitsType, EmptySeq DEF Listings
  <1>2. \A n \in 1..Len(Units) : \A l \in Listings : Append(l, Units[n]) \in Listings
    BY UnitsType, AppendProperties DEF Listings
  <1>3. F \in [Nat \X Listings -> Listings]
    <2>1. \A p \in Nat \X Listings : p[1] \in Nat /\ p[2] \in Listings
      OBVIOUS
    <2> QED BY <1>1, <1>2, <2>1
  <1>4. PICK f : IsLoop(f, Listings, <<>>, F, Len(Units))
    <2> HIDE DEF F
    <2> QED BY <1>1, <1>3, Recursion
  <1>5. /\ f \in [0..Len(Units) -> Listings] /\ f[0] = <<>>
        /\ \A n \in 1..Len(Units) : f[n] = F[<<n, f[n - 1]>>]
    BY <1>4 DEF IsLoop
  <1>6. \A n \in 1..Len(Units) :
          f[n] = IF Units[n] \in S THEN Append(f[n - 1], Units[n]) ELSE f[n - 1]
    <2> SUFFICES ASSUME NEW n \in 1..Len(Units)
                 PROVE  f[n] = IF Units[n] \in S THEN Append(f[n - 1], Units[n]) ELSE f[n - 1]
      OBVIOUS
    <2>1. <<n, f[n - 1]>> \in Nat \X Listings
      BY <1>1, <1>5
    <2> QED BY <1>5, <2>1
  <1> HIDE DEF F
  <1>7. \A n \in 0..Len(Units) :
          f[n] = IF n = 0 THEN <<>>
                 ELSE IF Units[n] \in S THEN Append(f[n - 1], Units[n]) ELSE f[n - 1]
    <2> DEFINE G(n, x) == IF Units[n] \in S THEN Append(x, Units[n]) ELSE x
    <2>1. \A n \in 1..Len(Units) : f[n] = G(n, f[n - 1])
      BY <1>6
    <2> HIDE DEF G
    <2>2. \A n \in 0..Len(Units) : f[n] = IF n = 0 THEN <<>> ELSE G(n, f[n - 1])
      BY <1>1, <1>5, <2>1
    <2> QED BY <2>2 DEF G
  <1> QED BY <1>5, <1>7 DEF IsList

\* The rounds of the listing.
LEMMA ListSteps ==
  ASSUME NEW S
  PROVE  \E f : /\ Among(S) = f[Len(Units)] /\ f[0] = <<>>
                /\ \A n \in 1..Len(Units) :
                     f[n] = IF Units[n] \in S THEN Append(f[n - 1], Units[n]) ELSE f[n - 1]
  <1>1. PICK f : IsList(f, S) /\ Among(S) = f[Len(Units)]
    BY ListExists DEF Among, IsList
  <1>2. f[0] = <<>> /\ \A n \in 1..Len(Units) :
          f[n] = IF Units[n] \in S THEN Append(f[n - 1], Units[n]) ELSE f[n - 1]
    <2>1. Len(Units) \in Nat
      BY UnitsType
    <2> DEFINE N == Len(Units)
               G(n, x) == IF Units[n] \in S THEN Append(x, Units[n]) ELSE x
    <2>2. f = [n \in 0..N |-> IF n = 0 THEN <<>> ELSE G(n, f[n - 1])]
      BY <1>1 DEF IsList
    <2>3. f[0] = <<>> /\ \A n \in 1..N : f[n] = G(n, f[n - 1])
      <3> HIDE DEF N, G
      <3>1. N \in Nat
        BY <2>1 DEF N
      <3> QED BY <2>2, <3>1
    <2> QED BY <2>3
  <1> QED BY <1>1, <1>2

LEMMA AmongType ==
  ASSUME NEW S
  PROVE  Among(S) \in Seq(Unit)
  <1>1. PICK f : /\ Among(S) = f[Len(Units)] /\ f[0] = <<>>
                 /\ \A n \in 1..Len(Units) :
                      f[n] = IF Units[n] \in S THEN Append(f[n - 1], Units[n]) ELSE f[n - 1]
    BY ListSteps
  <1>2. \A n \in 1..Len(Units) : \A l \in Seq(Unit) : Append(l, Units[n]) \in Seq(Unit)
    BY UnitsType, AppendProperties
  <1>3. Stays(f, Seq(Unit), Len(Units))
    BY <1>1, <1>2, EmptySeq DEF Stays
  <1> QED BY <1>1, <1>3, LoopStays, UnitsType

LEMMA AmongNone == Among({}) = <<>>
  <1> SUFFICES ASSUME NEW S, S = {} PROVE Among(S) = <<>>
    OBVIOUS
  <1>1. PICK f : /\ Among(S) = f[Len(Units)] /\ f[0] = <<>>
                 /\ \A n \in 1..Len(Units) :
                      f[n] = IF Units[n] \in S THEN Append(f[n - 1], Units[n]) ELSE f[n - 1]
    BY ListSteps
  <1>2. Stays(f, {<<>>}, Len(Units))
    BY <1>1 DEF Stays
  <1> QED BY <1>1, <1>2, LoopStays, UnitsType

LEMMA AmongAll == Among(Unit) = Units
  <1>1. PICK f : /\ Among(Unit) = f[Len(Units)] /\ f[0] = <<>>
                 /\ \A n \in 1..Len(Units) :
                      f[n] = IF Units[n] \in Unit THEN Append(f[n - 1], Units[n]) ELSE f[n - 1]
    BY ListSteps
  <1> DEFINE Copied(m) == /\ f[m] \in Seq(Unit) /\ Len(f[m]) = m
                          /\ \A i \in 1..m : f[m][i] = Units[i]
             T == {m \in Nat : m <= Len(Units) => Copied(m)}
  <1>2. 0 \in T
    <2>1. f[0] \in Seq(Unit) /\ Len(f[0]) = 0
      BY <1>1, EmptySeq
    <2>2. Copied(0)
      BY <2>1
    <2> HIDE DEF Copied
    <2> QED BY <2>2
  <1>3. ASSUME NEW m \in T PROVE m + 1 \in T
    <2> SUFFICES ASSUME m + 1 <= Len(Units) PROVE Copied(m + 1)
      OBVIOUS
    <2>1. m \in Nat /\ m + 1 \in 1..Len(Units) /\ (m + 1) - 1 = m /\ Copied(m)
      BY UnitsType
    <2>2. Units[m + 1] \in Unit /\ f[m + 1] = Append(f[m], Units[m + 1])
      <3>1. Units[m + 1] \in Unit
        BY <2>1, UnitsType
      <3>2. f[m + 1] = IF Units[m + 1] \in Unit THEN Append(f[(m + 1) - 1], Units[m + 1])
                       ELSE f[(m + 1) - 1]
        BY <1>1, <2>1
      <3> QED BY <2>1, <3>1, <3>2
    <2>3. /\ f[m + 1] \in Seq(Unit) /\ Len(f[m + 1]) = m + 1
          /\ \A i \in 1..m : f[m + 1][i] = f[m][i]
          /\ f[m + 1][m + 1] = Units[m + 1]
      BY <2>1, <2>2, AppendProperties
    <2>4. \A i \in 1..(m + 1) : i \in 1..m \/ i = m + 1
      BY <2>1
    <2> QED BY <2>1, <2>3, <2>4
  <1>4. T = Nat
    <2> HIDE DEF T
    <2> QED BY <1>2, <1>3, SetInduction DEF T
  <1>5. Copied(Len(Units))
    BY <1>4, UnitsType
  <1> QED BY <1>1, <1>5, SeqEqual, UnitsType

LEMMA ListedType ==
  ASSUME NEW fresh
  PROVE  Listed(fresh) \in Seq(Unit)
  BY AmongType, ConcatProperties DEF Listed

\* All the units at once are listed in the order of the plan.
LEMMA ListedAll ==
  ASSUME NEW fresh \in {{}, Unit}
  PROVE  Listed(fresh) = Units
  <1>1. Unit \ {} = Unit /\ Unit \ Unit = {}
    OBVIOUS
  <1>2. CASE fresh = {}
    <2>1. Listed({}) = Units \o <<>>
      BY <1>1, AmongNone, AmongAll DEF Listed
    <2> QED BY <1>2, <2>1, ConcatEmptySeq, UnitsType
  <1>3. CASE fresh = Unit
    <2>1. Listed(Unit) = <<>> \o Units
      BY <1>1, AmongNone, AmongAll DEF Listed
    <2> QED BY <1>3, <2>1, ConcatEmptySeq, UnitsType
  <1> QED BY <1>2, <1>3

-----------------------------------------------------------------------------
(***************************************************************************)
(* The packing of a session is sound.                                      *)
(***************************************************************************)
LEMMA SizesAre == size \in [Unit -> 0..MaxSize] => Sizes
  BY CandidatesAssumption DEF Sizes

LEMMA PackingFromSound ==
  ASSUME Sizes, order \in Seq(Unit)
  PROVE  PackingSound
  <1> DEFINE B == Packed(order)
             N == Len(order)
  <1>1. Sound(B, order, N) /\ N \in Nat /\ DOMAIN order = 1..N
    BY PackedSound, LenProperties
  <1>2. DOMAIN B = 1..Len(B) /\ \A k \in 1..Len(B) : B[k] \in Seq(Unit) /\ DOMAIN B[k] = 1..Len(B[k])
    <2>1. B \in SomeBatches
      BY <1>1 DEF Sound
    <2>2. \A k \in 1..Len(B) : B[k] \in Seq(Unit)
      BY <2>1, ElementOfSeq DEF SomeBatches
    <2> QED BY <2>1, <2>2, LenProperties DEF SomeBatches
  <1> HIDE DEF B, N
  <1>3. AllPacked(B, order, N) /\ InOrder(B, order, N) /\ WellFilled(B)
    BY <1>1 DEF Sound
  <1>4. UNION {ToSet(b) : b \in ToSet(B)} = {u \in ToSet(order) : size[u] > 0}
    <2>1. ASSUME NEW k \in 1..Len(B), NEW i \in 1..Len(B[k])
          PROVE  B[k][i] \in ToSet(order) /\ size[B[k][i]] > 0
      BY <1>1, <1>3 DEF AllPacked, ToSet
    <2>2. ASSUME NEW u \in ToSet(order), size[u] > 0
          PROVE  \E k \in 1..Len(B) : \E i \in 1..Len(B[k]) : B[k][i] = u
      <3>1. PICK p \in 1..N : order[p] = u
        BY <1>1 DEF ToSet
      <3> QED BY <1>3, <2>2, <3>1 DEF AllPacked
    <2>3. \A u : u \in UNION {ToSet(b) : b \in ToSet(B)}
             <=> \E k \in 1..Len(B) : \E i \in 1..Len(B[k]) : B[k][i] = u
      BY <1>2 DEF ToSet
    <2>4. ASSUME NEW u \in UNION {ToSet(b) : b \in ToSet(B)}
          PROVE  u \in ToSet(order) /\ size[u] > 0
      <3>1. PICK k \in 1..Len(B) : \E i \in 1..Len(B[k]) : B[k][i] = u
        BY <2>3
      <3>2. PICK i \in 1..Len(B[k]) : B[k][i] = u
        BY <3>1
      <3> QED BY <2>1, <3>2
    <2>5. \A u \in ToSet(order) : size[u] > 0 => u \in UNION {ToSet(b) : b \in ToSet(B)}
      BY <2>2, <2>3
    <2> QED BY <2>4, <2>5
  <1>5. ASSUME NEW u, NEW v, Follows(order, N, u, v) PROVE Before(u, v)
    BY <1>1, <1>5 DEF Follows, Before
  <1>6. \A k, l \in DOMAIN B : \A i \in DOMAIN B[k], j \in DOMAIN B[l] :
          k < l \/ (k = l /\ i < j) => Before(B[k][i], B[l][j])
    BY <1>2, <1>3, <1>5 DEF InOrder
  <1>7. \A k \in DOMAIN B : /\ Weight(B[k]) <= BatchSize \/ Len(B[k]) = 1
                            /\ k > 1 => Weight(B[k - 1]) + size[B[k][1]] > BatchSize
    BY <1>2, <1>3 DEF WellFilled
  <1> QED BY <1>4, <1>6, <1>7 DEF PackingSound, B

Listing == size \in [Unit -> 0..MaxSize] /\ order \in Seq(Unit)

LEMMA ListingInit == Init => Listing
  BY EmptySeq DEF Init, Listing

LEMMA ListingStep == Listing /\ [Next]_vars => Listing'
  <1> SUFFICES ASSUME Listing, [Next]_vars PROVE Listing'
    OBVIOUS
  <1>1. size' = size
    BY DEF Next, Run, Interpret, Propose, Reject, Finish, Crash, vars
  <1>2. order' = order \/ order' = <<>> \/ \E fresh : order' = Listed(fresh)
    BY DEF Next, Run, Interpret, Propose, Reject, Finish, Crash, vars
  <1> QED BY <1>1, <1>2, ListedType, EmptySeq DEF Listing

\* Whatever way the units are packed, the batches hold all the evidence, each unit of it in one
\* place and in the listed order, none too large unless it is a single unit, and none that the
\* first unit of the next one would have fitted (`_candidate_batches`).
THEOREM PackingIsSound == Spec => []PackingSound
  <1>1. Listing => PackingSound
    BY SizesAre, PackingFromSound DEF Listing
  <1> QED BY <1>1, ListingInit, ListingStep, PTL DEF Spec

-----------------------------------------------------------------------------
(***************************************************************************)
(* Nothing is proposed from twice.                                         *)
(***************************************************************************)
Batches == {ToSet(l) : l \in ToSet(Packed(Units))}

\* When the semantic stage completes all units or none, every session packs the units in the order
\* of the plan: its batches are the same, and apart from each other.
Once ==
  ~partial => /\ done \in {{}, Unit}
              /\ completed \subseteq Batches /\ pending \subseteq Batches \ completed
              /\ cited = [u \in Unit |-> IF u \in UNION completed THEN 1 ELSE 0]

LEMMA BatchesApart ==
  ASSUME Sizes, NEW a \in Batches, NEW b \in Batches, a # b
  PROVE  a \cap b = {}
  <1> DEFINE B == Packed(Units)
             N == Len(Units)
  <1>1. B \in SomeBatches /\ InOrder(B, Units, N)
    BY PackedSound, UnitsType DEF Sound
  <1>2. DOMAIN B = 1..Len(B) /\ \A k \in 1..Len(B) : DOMAIN B[k] = 1..Len(B[k])
    <2>1. \A k \in 1..Len(B) : B[k] \in Seq(Unit)
      BY <1>1, ElementOfSeq DEF SomeBatches
    <2> QED BY <1>1, <2>1, LenProperties DEF SomeBatches
  <1>3. DOMAIN Units = 1..N /\ N \in Nat /\ Len(B) \in Nat
    BY <1>1, UnitsType, LenProperties DEF SomeBatches
  <1> HIDE DEF B, N
  <1>4. PICK k \in 1..Len(B), l \in 1..Len(B) : a = ToSet(B[k]) /\ b = ToSet(B[l])
    BY <1>2 DEF Batches, ToSet, B
  <1>5. ASSUME NEW u, Follows(Units, N, u, u) PROVE FALSE
    <2>1. PICK p \in 1..N, q \in 1..N : p < q /\ Units[p] = u /\ Units[q] = u
      BY <1>5 DEF Follows
    <2>2. p = q
      BY <1>3, <2>1, CandidatesAssumption DEF IsInjective
    <2> QED BY <1>3, <2>1, <2>2
  <1>6. ASSUME NEW g \in 1..Len(B), NEW h \in 1..Len(B), g < h,
               NEW u, u \in ToSet(B[g]), u \in ToSet(B[h])
        PROVE  FALSE
    <2>1. PICK i \in 1..Len(B[g]) : B[g][i] = u
      BY <1>2, <1>6 DEF ToSet
    <2>2. PICK j \in 1..Len(B[h]) : B[h][j] = u
      BY <1>2, <1>6 DEF ToSet
    <2>3. Follows(Units, N, B[g][i], B[h][j])
      BY <1>1, <1>6 DEF InOrder
    <2> QED BY <1>5, <2>1, <2>2, <2>3
  <1>7. k < l \/ l < k
    <2>1. k # l
      BY <1>4
    <2> QED BY <1>3, <2>1
  <1> QED BY <1>4, <1>6, <1>7

LEMMA BatchesHold ==
  ASSUME size' = size
  PROVE  Batches' = Batches
  <1>1. \A l \in {Units} : Packed(l)' = Packed(l)
    BY DEF Packed, Grouped, Fits, Weight
  <1> QED BY <1>1 DEF Batches

OnceInv == Listing /\ Once

LEMMA OnceInit == Init => OnceInv
  BY ListingInit DEF Init, OnceInv, Once

\* All the units of the case are interpreted, at once or in an earlier session.
LEMMA InterpretOnce == OnceInv /\ Interpret => Once'
  <1> SUFFICES ASSUME OnceInv, Interpret, ~partial PROVE Once'
    BY DEF Interpret, Once
  <1>1. size' = size /\ partial' = partial /\ completed' = completed /\ cited' = cited
    BY DEF Interpret
  <1>2. Batches' = Batches
    BY <1>1, BatchesHold
  <1>3. PICK fresh \in SUBSET (Unit \ done) :
          /\ done' = done \cup fresh /\ done' = Unit /\ order' = Listed(fresh)
          /\ pending' = {b \in {ToSet(l) : l \in ToSet(Packed(order'))} : ~HasCompleted(b)}
    BY DEF Interpret
  <1>4. fresh \in {{}, Unit}
    BY <1>3 DEF OnceInv, Once
  <1>5. order' = Units
    BY <1>3, <1>4, ListedAll
  <1>6. pending' = {b \in Batches : ~HasCompleted(b)}
    BY <1>3, <1>5 DEF Batches
  <1> QED BY <1>1, <1>2, <1>3, <1>6 DEF OnceInv, Once, HasCompleted

\* A batch that is proposed shares no unit with a completed one.
LEMMA ProposeOnce ==
  ASSUME OnceInv, NEW b \in pending, Propose(b)
  PROVE  Once'
  <1> SUFFICES ASSUME ~partial PROVE Once'
    BY DEF Propose, Once
  <1>1. /\ size' = size /\ partial' = partial /\ done' = done
        /\ pending' = pending \ {b} /\ completed' = completed \cup {b} /\ cited' = Cite(b)
    BY DEF Propose
  <1>2. Batches' = Batches
    BY <1>1, BatchesHold
  <1>3. /\ done \in {{}, Unit} /\ completed \subseteq Batches
        /\ pending \subseteq Batches \ completed
        /\ cited = [u \in Unit |-> IF u \in UNION completed THEN 1 ELSE 0]
    BY DEF OnceInv, Once
  <1>4. b \in Batches /\ b \notin completed
    BY <1>3
  <1>5. \A u \in b : u \notin UNION completed
    <2>1. Sizes
      BY SizesAre DEF OnceInv, Listing
    <2>2. \A c \in completed : b \cap c = {}
      BY <1>3, <1>4, <2>1, BatchesApart
    <2> QED BY <2>2
  <1>6. cited' = [u \in Unit |-> IF u \in UNION completed' THEN 1 ELSE 0]
    <2>1. cited' = [u \in Unit |-> IF u \in b /\ cited[u] < 2 THEN cited[u] + 1 ELSE cited[u]]
      BY <1>1 DEF Cite
    <2>2. \A u : u \in UNION completed' <=> u \in UNION completed \/ u \in b
      BY <1>1
    <2>3. ASSUME NEW u \in Unit
          PROVE  (IF u \in b /\ cited[u] < 2 THEN cited[u] + 1 ELSE cited[u])
                   = (IF u \in UNION completed' THEN 1 ELSE 0)
      <3>1. CASE u \in b
        <4>1. cited[u] = 0
          BY <1>3, <1>5, <3>1
        <4> QED BY <2>2, <3>1, <4>1
      <3>2. CASE u \notin b
        BY <1>3, <2>2, <3>2
      <3> QED BY <3>1, <3>2
    <2> QED BY <2>1, <2>3
  <1> QED BY <1>1, <1>2, <1>3, <1>4, <1>6 DEF Once

\* The other steps complete nothing and only take batches out of the pending ones.
LEMMA QuietOnce ==
  ASSUME OnceInv, size' = size, partial' = partial, done' = done, completed' = completed,
         cited' = cited, pending' \subseteq pending
  PROVE  Once'
  <1>1. Batches' = Batches
    BY BatchesHold
  <1> QED BY <1>1 DEF OnceInv, Once

LEMMA OnceStep == OnceInv /\ [Next]_vars => OnceInv'
  <1> SUFFICES ASSUME OnceInv, [Next]_vars PROVE OnceInv'
    OBVIOUS
  <1>1. Listing'
    BY ListingStep DEF OnceInv
  <1>2. CASE Interpret
    BY <1>1, <1>2, InterpretOnce DEF OnceInv
  <1>3. ASSUME NEW b \in pending, Propose(b) PROVE OnceInv'
    BY <1>1, <1>3, ProposeOnce DEF OnceInv
  <1>4. ASSUME NEW b \in pending, Reject(b) PROVE OnceInv'
    BY <1>1, <1>4, QuietOnce DEF OnceInv, Reject
  <1>5. CASE Finish \/ Crash \/ UNCHANGED vars
    BY <1>1, <1>5, QuietOnce DEF OnceInv, Finish, Crash, vars
  <1> QED BY <1>2, <1>3, <1>4, <1>5 DEF Next, Run

\* Unless a semantic stage stopped half-way, no evidence is proposed from twice, whatever calls
\* failed, whatever crashed and however often the command is repeated (`has_completed_candidate_batch`).
THEOREM NothingProposedTwice == Spec => []NoDuplicates
  <1>1. OnceInv => NoDuplicates
    BY DEF OnceInv, Once, NoDuplicates
  <1> QED BY <1>1, OnceInit, OnceStep, PTL DEF Spec
=============================================================================
