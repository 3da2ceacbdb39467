------------------------ MODULE ArcStatisticsProofs ------------------------
(***************************************************************************)
(* Proofs that what ArcHistory tells of an arc is what its samples say,    *)
(* although it is computed from the hourly rows: quantiles, means, the     *)
(* dwell time of free flow and the slope of the regression; and that no    *)
(* sample behind it is from before the change of the arc's sensors.        *)
(*                                                                         *)
(* A row is the aggregate of the samples filed under its key               *)
(* (ArcHistoryProofs), and the samples that a summary stands for are       *)
(* divided up among the rows that it reads.  So a sum over the rows is a   *)
(* sum over the samples, a count of a bucket is the number of the samples  *)
(* in it, and a rank among the buckets is a rank among the samples.        *)
(***************************************************************************)
EXTENDS ArcHistoryProofs

-----------------------------------------------------------------------------
(* Ranks *)

IsRank(q, U, val, rank) == IsQuantile(q, U, LAMBDA s : val[s], rank)

\* The counts of the values that the elements of U have.
CountsOf(count, U, val) ==
  count = [q \in {val[s] : s \in U} |-> Cardinality({s \in U : val[s] = q})]

Rank == {rank \in (Nat \ {0}) \X (Nat \ {0}) : rank[1] <= rank[2]}

LEMMA RankReads ==
  ASSUME NEW q, NEW U, NEW val, NEW rank
  PROVE  IsRank(q, U, val, rank) <=>
           /\ \E s \in U : val[s] = q
           /\ rank[2] * Cardinality({s \in U : val[s] < q}) < rank[1] * Cardinality(U)
           /\ rank[2] * Cardinality({s \in U : val[s] > q}) <=
                (rank[2] - rank[1]) * Cardinality(U)
  BY DEF IsRank, IsQuantile

\* The count of the buckets up to q is the number of elements in them.
LEMMA CumulativeReads ==
  ASSUME NEW U, IsFiniteSet(U), NEW val, NEW count, CountsOf(count, U, val),
         NEW Q \in SUBSET DOMAIN count
  PROVE  SumOver(count, Q) = Cardinality({s \in U : val[s] \in Q})
<1> DEFINE part == [q \in Q |-> {s \in U : val[s] = q}]
           A == {s \in U : val[s] \in Q}
<1>1. IsFiniteSet(Q)
  <2>1. IsFiniteSet({val[s] : s \in U})
    BY ImageIsFinite
  <2> QED
    BY <2>1, FS_Subset DEF CountsOf
<1>2. /\ \A q \in Q : part[q] \subseteq U
      /\ \A p, q \in Q : p # q => part[p] \cap part[q] = {}
  OBVIOUS
<1>3. \A q \in Q : count[q] = Cardinality(part[q])
  BY DEF CountsOf
<1>4. A = UNION {part[q] : q \in Q}
  OBVIOUS
<1> HIDE DEF part, A
<1>5. SumOver(count, Q) = Cardinality(UNION {part[q] : q \in Q})
  BY <1>1, <1>2, <1>3, CountOfParts
<1> QED
  BY <1>4, <1>5 DEF A

\* The quantile of the counts is the quantile of the elements.
LEMMA QuantileReads ==
  ASSUME NEW U, IsFiniteSet(U), U # {}, NEW val, \A s \in U : val[s] \in Int,
         NEW count, CountsOf(count, U, val), NEW rank \in Rank
  PROVE  IsRank(Quantile(count, rank), U, val, rank)
<1> DEFINE D == DOMAIN count
           upTo(q) == {s \in U : val[s] <= q}
           reached == {q \in D : rank[2] * Cumulative(count, q) >= rank[1] * SumFunction(count)}
           N == Cardinality(U)
           a == rank[1]
           b == rank[2]
<1>1. D = {val[s] : s \in U} /\ IsFiniteSet(D) /\ D # {} /\ D \in SUBSET Int
  <2>1. IsFiniteSet({val[s] : s \in U})
    BY ImageIsFinite
  <2> QED
    BY <2>1 DEF CountsOf
<1>2. SumFunction(count) = N
  <2>1. {s \in U : val[s] \in D} = U
    BY <1>1
  <2>2. SumOver(count, D) = N
    BY <2>1, CumulativeReads
  <2>3. count = [q \in DOMAIN count |-> count[q]]
    BY DEF CountsOf
  <2> QED
    BY <2>2, <2>3 DEF SumOver
<1>3. \A q \in D : Cumulative(count, q) = Cardinality(upTo(q))
  <2> TAKE q \in D
  <2> DEFINE Q == {p \in D : p <= q}
  <2>1. Cumulative(count, q) = SumOver(count, Q)
    BY DEF Cumulative, Total, SumOver
  <2>2. {s \in U : val[s] \in Q} = upTo(q)
    BY <1>1
  <2>3. Q \in SUBSET D
    OBVIOUS
  <2> HIDE DEF Q, upTo
  <2> QED
    BY <2>1, <2>2, <2>3, CumulativeReads
<1>4. \A S \in SUBSET U : Cardinality(S) \in Nat /\ IsFiniteSet(S)
  BY FS_Subset, FS_CardinalityType
<1>5. N \in Nat \ {0} /\ a \in Nat \ {0} /\ b \in Nat \ {0} /\ a <= b
  BY <1>4, FS_EmptySet DEF Rank
<1>6. reached = {q \in D : b * Cardinality(upTo(q)) >= a * N}
  BY <1>2, <1>3
<1> HIDE DEF D, N, a, b, reached
<1>7. reached # {}
  <2>1. Max(D) \in D /\ \A q \in D : q <= Max(D)
    BY <1>1, MaxReads
  <2>2. upTo(Max(D)) = U
    BY <1>1, <2>1
  <2>3. b * N >= a * N
    BY <1>5
  <2> QED
    BY <1>6, <2>1, <2>2, <2>3 DEF N
<1> DEFINE q == Quantile(count, rank)
           below == {s \in U : val[s] < q}
           above == {s \in U : val[s] > q}
<1>8. q \in reached /\ \A p \in reached : q <= p
  <2>1. q = Min(reached)
    BY DEF Quantile, reached, D, a, b
  <2>2. reached \in SUBSET Int /\ IsFiniteSet(reached)
    BY <1>1, FS_Subset DEF reached
  <2> QED
    BY <1>7, <2>1, <2>2, MinReads
<1> HIDE DEF q
<1>9. q \in D /\ q \in Int /\ b * Cardinality(upTo(q)) >= a * N
  BY <1>1, <1>6, <1>8
<1>10. b * Cardinality(below) < a * N
  <2>1. CASE below = {}
    <3>1. Cardinality(below) = 0
      BY <2>1, FS_EmptySet
    <3>2. 0 < a * N
      BY <1>5
    <3> QED
      BY <1>5, <3>1, <3>2
  <2>2. CASE below # {}
    <3> DEFINE P == {p \in D : p < q}
    <3>1. P \in SUBSET Int /\ IsFiniteSet(P) /\ P # {}
      BY <1>1, <2>2, FS_Subset
    <3> DEFINE p == Max(P)
    <3>2. p \in P /\ \A x \in P : x <= p
      BY <3>1, MaxReads
    <3> HIDE DEF p
    <3>3. p \in D /\ p \notin reached /\ p \in Int
      BY <1>8, <1>9, <3>1, <3>2
    <3>4. upTo(p) = below
      BY <1>1, <1>9, <3>2, <3>3
    <3>5. b * Cardinality(below) \in Nat /\ a * N \in Nat
      <4>1. Cardinality(below) \in Nat
        BY <1>4
      <4> QED
        BY <1>5, <4>1
    <3>6. ~ (b * Cardinality(below) >= a * N)
      BY <1>6, <3>3, <3>4
    <3> HIDE DEF below
    <3> QED
      BY <3>5, <3>6
  <2> QED
    BY <2>1, <2>2
<1>11. b * Cardinality(above) <= (b - a) * N
  <2>1. upTo(q) \in SUBSET U /\ above = U \ upTo(q)
    BY <1>9
  <2> DEFINE n == Cardinality(upTo(q))
             m == Cardinality(above)
  <2>2. n \in Nat /\ m = N - n
    <3>1. U \cap upTo(q) = upTo(q)
      BY <2>1
    <3> HIDE DEF above, upTo
    <3> QED
      BY <1>4, <2>1, <3>1, FS_Difference DEF N
  <2>3. b * n >= a * N
    BY <1>9
  <2> HIDE DEF n, m
  <2>4. b * m = b * N - b * n /\ (b - a) * N = b * N - a * N
    BY <1>5, <2>2
  <2>5. {b * N, b * n, a * N} \subseteq Int
    BY <1>5, <2>2
  <2>6. b * m <= (b - a) * N
    BY <2>3, <2>4, <2>5
  <2> QED
    BY <2>6 DEF m
<1>12. \E s \in U : val[s] = q
  BY <1>1, <1>9
<1> QED
  BY <1>10, <1>11, <1>12, RankReads DEF q, N, a, b

\* There is one quantile only.
LEMMA QuantileIsUnique ==
  ASSUME NEW U, IsFiniteSet(U), NEW val, \A s \in U : val[s] \in Int,
         NEW rank \in Rank, NEW p, IsRank(p, U, val, rank), NEW q, IsRank(q, U, val, rank)
  PROVE  p = q
<1>1. ASSUME NEW x, IsRank(x, U, val, rank), NEW y, IsRank(y, U, val, rank), x < y
      PROVE  FALSE
  <2> DEFINE A == {s \in U : val[s] > x}
             B == {s \in U : val[s] < y}
             a == rank[1]
             b == rank[2]
             N == Cardinality(U)
  <2>1. x \in Int /\ y \in Int
    BY <1>1, RankReads
  <2>2. b * Cardinality(A) <= (b - a) * N /\ b * Cardinality(B) < a * N
    BY <1>1, RankReads
  <2>3. A \cup B = U
    BY <1>1, <2>1
  <2>4. IsFiniteSet(A) /\ IsFiniteSet(B)
    BY FS_Subset
  <2> DEFINE m == Cardinality(A)
             n == Cardinality(B)
  <2>5. m \in Nat /\ n \in Nat /\ N \in Nat /\ m + n >= N
    <3> HIDE DEF A, B
    <3>1. /\ Cardinality(A \cup B) = Cardinality(A) + Cardinality(B) - Cardinality(A \cap B)
          /\ IsFiniteSet(A \cap B)
      BY <2>4, FS_Union, FS_Intersection
    <3>2. /\ Cardinality(A \cap B) \in Nat /\ Cardinality(A) \in Nat
          /\ Cardinality(B) \in Nat /\ Cardinality(U) \in Nat
      BY <2>4, <3>1, FS_CardinalityType
    <3>3. Cardinality(A \cup B) = Cardinality(U)
      BY <2>3, Zenon
    <3> QED
      BY <3>1, <3>2, <3>3
  <2>6. a \in Nat \ {0} /\ b \in Nat \ {0}
    BY DEF Rank
  <2>7. b * m <= (b - a) * N /\ b * n < a * N
    BY <2>2
  <2> HIDE DEF A, B, a, b, N, m, n
  <2>8. b * (m + n) >= b * N
    BY <2>5, <2>6
  <2>9. b * (m + n) = b * m + b * n /\ (b - a) * N = b * N - a * N
    BY <2>5, <2>6
  <2>10. {b * m, b * n, b * N, a * N} \subseteq Int
    BY <2>5, <2>6
  <2> QED
    BY <2>7, <2>8, <2>9, <2>10
<1>2. p \in Int /\ q \in Int
  BY RankReads
<1> QED
  BY <1>1, <1>2

-----------------------------------------------------------------------------
(* Samples and rows *)

Rows(table, r, since) == {k \in Current(table, since) : k.route = r}

\* The keys under which the samples of r are filed.
StagnationKeys(r) == [s \in SamplesOf(r) |-> StagnationKeyOf(r, s.end, s.scores[r])]
KeysOfDwell(r) == [s \in SamplesOf(r) |-> DwellKeyOf(r, s.end, s.scores[r])]

With(K, k) == {s \in DOMAIN K : K[s] = k}

\* The rows of r in the table are those of its samples, filed by K.
FiledBy(table, K, r) ==
  /\ DOMAIN K = SamplesOf(r)
  /\ \A k \in DOMAIN table : k.route = r => \E s \in DOMAIN K : K[s] = k
  /\ \A s \in DOMAIN K :
       /\ K[s] \in DOMAIN table /\ K[s].route = r /\ K[s].hour = Hour(s.end)
       /\ table[K[s]].count = Cardinality(With(K, K[s]))
       /\ table[K[s]].firstStart = Earliest(With(K, K[s]))
       /\ table[K[s]].lastEnd = Last(With(K, K[s]))

Used(r, since, K) == UsedSamples(r, since, LAMBDA s : K[s])

LEMMA SamplesRead ==
  ASSUME IInv, NEW r \in Route
  PROVE  /\ IsFiniteSet(SamplesOf(r)) /\ SamplesOf(r) \subseteq snapshots
         /\ \A s \in SamplesOf(r) : /\ s.end \in Window..MaxTime /\ s.end \in Int
                                    /\ s.scores[r] \in Sample
<1>1. IsFiniteSet(SamplesOf(r)) /\ SamplesOf(r) \subseteq snapshots
  BY FS_Subset DEF IInv, SamplesOf
<1>2. \A s \in SamplesOf(r) : s.end \in Window..MaxTime /\ s.scores[r] \in Sample
  BY KeptCounts DEF SamplesOf, Counts
<1>3. Window \in Int
  BY ArcAssumption
<1> QED
  BY <1>1, <1>2, <1>3

\* The samples filed in a row are those with its key.
LEMMA FiledReads ==
  ASSUME NEW r, NEW k, k.route = r
  PROVE  /\ Filed(snapshots, k) = With(StagnationKeys(r), k)
         /\ FiledDwell(snapshots, k) = With(KeysOfDwell(r), k)
BY DEF Filed, FiledDwell, With, StagnationKeys, KeysOfDwell, SamplesOf

\* Every row of r is that of the samples filed in it.
LEMMA TablesAreFiled ==
  ASSUME IInv, NEW r \in Route
  PROVE  FiledBy(stagnation, StagnationKeys(r), r) /\ FiledBy(dwell, KeysOfDwell(r), r)
<1>1. /\ \A k \in DOMAIN stagnation : stagnation[k] = StagnationRowOf(k.route, Filed(snapshots, k))
      /\ \A k \in DOMAIN dwell : dwell[k] = DwellRowOf(FiledDwell(snapshots, k))
  BY DEF IInv, RowsAggregateSnapshots
<1>2. ASSUME NEW k, k.route = r
      PROVE  /\ Filed(snapshots, k) = With(StagnationKeys(r), k)
             /\ FiledDwell(snapshots, k) = With(KeysOfDwell(r), k)
  BY <1>2, FiledReads
<1>3. FiledBy(stagnation, StagnationKeys(r), r)
  <2> DEFINE K == StagnationKeys(r)
  <2>1. /\ DOMAIN K = SamplesOf(r)
        /\ \A s \in SamplesOf(r) : K[s] = StagnationKeyOf(r, s.end, s.scores[r])
    BY DEF StagnationKeys
  <2>2. \A s \in SamplesOf(r) : K[s].route = r /\ K[s].hour = Hour(s.end)
    BY <2>1, KeyFields
  <2> HIDE DEF K
  <2>3. ASSUME NEW k \in DOMAIN stagnation, k.route = r
        PROVE  \E s \in DOMAIN K : K[s] = k
    <3>1. With(K, k) # {}
      BY <1>2, <2>3, RowExists DEF K
    <3> QED
      BY <3>1 DEF With
  <2>4. ASSUME NEW s \in SamplesOf(r)
        PROVE  /\ K[s] \in DOMAIN stagnation
               /\ stagnation[K[s]].count = Cardinality(With(K, K[s]))
               /\ stagnation[K[s]].firstStart = Earliest(With(K, K[s]))
               /\ stagnation[K[s]].lastEnd = Last(With(K, K[s]))
    <3> DEFINE k == K[s]
    <3>1. k.route = r /\ s \in With(K, k)
      BY <2>1, <2>2 DEF With
    <3> HIDE DEF k
    <3>2. Filed(snapshots, k) = With(K, k)
      BY <1>2, <3>1 DEF K
    <3>3. k \in DOMAIN stagnation
      BY <3>1, <3>2, RowExists
    <3>4. stagnation[k] = StagnationRowOf(r, With(K, k))
      BY <1>1, <3>1, <3>2, <3>3
    <3>5. /\ stagnation[k].count = Cardinality(With(K, k))
          /\ stagnation[k].firstStart = Earliest(With(K, k))
          /\ stagnation[k].lastEnd = Last(With(K, k))
      <4> DEFINE S == With(K, k)
      <4> HIDE DEF S
      <4>1. /\ StagnationRowOf(r, S).count = Cardinality(S)
            /\ StagnationRowOf(r, S).firstStart = Earliest(S)
            /\ StagnationRowOf(r, S).lastEnd = Last(S)
        BY DEF StagnationRowOf
      <4> QED
        BY <3>4, <4>1 DEF S
    <3> QED
      BY <3>3, <3>5 DEF k
  <2> QED
    BY <2>1, <2>2, <2>3, <2>4 DEF FiledBy, K
<1>4. FiledBy(dwell, KeysOfDwell(r), r)
  <2> DEFINE K == KeysOfDwell(r)
  <2>1. /\ DOMAIN K = SamplesOf(r)
        /\ \A s \in SamplesOf(r) : K[s] = DwellKeyOf(r, s.end, s.scores[r])
    BY DEF KeysOfDwell
  <2>2. \A s \in SamplesOf(r) : K[s].route = r /\ K[s].hour = Hour(s.end)
    BY <2>1, KeyFields
  <2> HIDE DEF K
  <2>3. ASSUME NEW k \in DOMAIN dwell, k.route = r
        PROVE  \E s \in DOMAIN K : K[s] = k
    <3>1. With(K, k) # {}
      BY <1>2, <2>3, RowExists DEF K
    <3> QED
      BY <3>1 DEF With
  <2>4. ASSUME NEW s \in SamplesOf(r)
        PROVE  /\ K[s] \in DOMAIN dwell
               /\ dwell[K[s]].count = Cardinality(With(K, K[s]))
               /\ dwell[K[s]].firstStart = Earliest(With(K, K[s]))
               /\ dwell[K[s]].lastEnd = Last(With(K, K[s]))
    <3> DEFINE k == K[s]
    <3>1. k.route = r /\ s \in With(K, k)
      BY <2>1, <2>2 DEF With
    <3> HIDE DEF k
    <3>2. FiledDwell(snapshots, k) = With(K, k)
      BY <1>2, <3>1 DEF K
    <3>3. k \in DOMAIN dwell
      BY <3>1, <3>2, RowExists
    <3>4. dwell[k] = DwellRowOf(With(K, k))
      BY <1>1, <3>1, <3>2, <3>3
    <3>5. /\ dwell[k].count = Cardinality(With(K, k))
          /\ dwell[k].firstStart = Earliest(With(K, k))
          /\ dwell[k].lastEnd = Last(With(K, k))
      BY <3>4 DEF DwellRowOf
    <3> QED
      BY <3>3, <3>5 DEF k
  <2> QED
    BY <2>1, <2>2, <2>3, <2>4 DEF FiledBy, K
<1> QED
  BY <1>3, <1>4

LEMMA EndsRead ==
  ASSUME IInv, NEW r \in Route, NEW S \in SUBSET SamplesOf(r), S # {}
  PROVE  /\ \E s \in S : Earliest(S) = s.end - Window /\ Min({t.end : t \in S}) = s.end
         /\ \A s \in S : Earliest(S) <= s.end - Window /\ s.end <= Last(S)
         /\ \E s \in S : Last(S) = s.end
<1> DEFINE E == {s.end : s \in S}
<1>1. E \in SUBSET (Window..MaxTime) /\ E # {}
  BY SamplesRead
<1>2. IsFiniteSet(Window..MaxTime) /\ Window..MaxTime \in SUBSET Int /\ Window \in Int
  BY ArcAssumption, FS_Interval
<1>3. \A s \in S : s.end \in E
  OBVIOUS
<1>4. \A e \in E : \E s \in S : e = s.end
  OBVIOUS
<1>5. Earliest(S) = Min(E) - Window /\ Last(S) = Max(E)
  BY DEF Earliest, Last
<1>6. /\ Min(E) \in E /\ \A e \in E : Min(E) <= e
      /\ Max(E) \in E /\ \A e \in E : e <= Max(E)
  <2> HIDE DEF E
  <2>1. E \in SUBSET Int /\ IsFiniteSet(E)
    BY <1>1, <1>2, FS_Subset
  <2> QED
    BY <1>1, <2>1, MinReads, MaxReads
<1>7. \A s \in S : s.end \in Int
  BY SamplesRead
<1>8. Min(E) = Min({t.end : t \in S})
  OBVIOUS
<1> DEFINE low == Min(E)
           high == Max(E)
<1>9. /\ low \in E /\ \A e \in E : low <= e
      /\ high \in E /\ \A e \in E : e <= high
      /\ Earliest(S) = low - Window /\ Last(S) = high /\ Min({t.end : t \in S}) = low
  BY <1>5, <1>6
<1> HIDE DEF E, low, high
<1>10. \A s \in S : low <= s.end /\ s.end <= high
  BY <1>3, <1>9
<1>11. (\E s \in S : s.end = low) /\ (\E s \in S : s.end = high)
  BY <1>4, <1>9
<1>12. low \in Int /\ high \in Int
  BY <1>7, <1>11
<1>13. \E s \in S : Earliest(S) = s.end - Window /\ Min({t.end : t \in S}) = s.end
  BY <1>9, <1>11
<1>14. \A s \in S : Earliest(S) <= s.end - Window /\ s.end <= Last(S)
  BY <1>2, <1>7, <1>9, <1>10, <1>12
<1> QED
  BY <1>9, <1>11, <1>13, <1>14

\* The samples that a summary stands for are those filed in the rows it reads.
LEMMA UsedAreFiled ==
  ASSUME IInv, NEW r \in Route, NEW since, NEW table, NEW K, FiledBy(table, K, r)
  PROVE  /\ Used(r, since, K) = {s \in SamplesOf(r) : K[s] \in Rows(table, r, since)}
         /\ \A k \in Rows(table, r, since) : \E s \in Used(r, since, K) : K[s] = k
<1> DEFINE late == {s \in SamplesOf(r) : s.end - Window < changedAt[r]}
<1>1. Used(r, since, K) =
        {s \in SamplesOf(r) : Hour(s.end) >= since /\ K[s] \notin {K[l] : l \in late}}
  BY DEF Used, UsedSamples
<1>2. \A k : k \in Rows(table, r, since) <=>
        /\ k \in DOMAIN table /\ k.hour >= since
        /\ table[k].firstStart >= changedAt[r] /\ k.route = r
  BY DEF Rows, Current
<1>3. /\ \A s \in SamplesOf(r) : s.end \in Int
      /\ changedAt[r] \in Int /\ Window \in Int
  BY SamplesRead, ArcAssumption DEF IInv, TInv, TypeOK, Time
<1>4. ASSUME NEW s \in SamplesOf(r)
      PROVE  K[s] \in {K[l] : l \in late} <=> ~ (table[K[s]].firstStart >= changedAt[r])
  <2> DEFINE S == With(K, K[s])
  <2>1. s \in S /\ S \in SUBSET SamplesOf(r) /\ table[K[s]].firstStart = Earliest(S)
    BY <1>4 DEF FiledBy, With
  <2>2. \A t : t \in S <=> t \in SamplesOf(r) /\ K[t] = K[s]
    BY DEF FiledBy, With
  <2> HIDE DEF S
  <2>3. PICK t \in S : Earliest(S) = t.end - Window
    BY <2>1, EndsRead
  <2>4. \A u \in S : Earliest(S) <= u.end - Window
    BY <2>1, EndsRead
  <2>5. K[s] \in {K[l] : l \in late} <=> \E u \in S : u.end - Window < changedAt[r]
    BY <2>2
  <2> QED
    BY <1>3, <2>1, <2>2, <2>3, <2>4, <2>5
<1>5. \A s \in SamplesOf(r) : /\ K[s] \in DOMAIN table /\ K[s].route = r
                              /\ K[s].hour = Hour(s.end)
  BY DEF FiledBy
<1> HIDE DEF late
<1>6. \A s \in SamplesOf(r) :
        s \in Used(r, since, K) <=> K[s] \in Rows(table, r, since)
  BY <1>1, <1>2, <1>4, <1>5
<1>7. Used(r, since, K) \subseteq SamplesOf(r)
  BY <1>1
<1>8. \A k \in Rows(table, r, since) : \E s \in SamplesOf(r) : K[s] = k
  BY <1>2 DEF FiledBy
<1> QED
  BY <1>6, <1>7, <1>8

\* What there is to know about the samples and the rows of a summary.
LEMMA SummaryOf ==
  ASSUME IInv, NEW r \in Route, NEW since, NEW table, NEW K, FiledBy(table, K, r),
         NEW R, R = Rows(table, r, since), NEW A, A = Used(r, since, K)
  PROVE  /\ A \subseteq SamplesOf(r) /\ IsFiniteSet(A) /\ IsFiniteSet(R)
         /\ R \subseteq DOMAIN table /\ \A k \in R : k.route = r
         /\ R = {} <=> A = {}
         /\ R = {K[s] : s \in A}
         /\ \A k \in R : With(K, k) = {s \in A : K[s] = k}
         /\ \A k \in R : table[k].count = Cardinality(With(K, k))
<1>1. A = {s \in SamplesOf(r) : K[s] \in R} /\ \A k \in R : \E s \in A : K[s] = k
  BY UsedAreFiled
<1>2. R = {K[s] : s \in A}
  BY <1>1
<1>3. A \subseteq SamplesOf(r) /\ IsFiniteSet(A)
  BY <1>1, SamplesRead, FS_Subset
<1>4. IsFiniteSet(R)
  BY <1>2, <1>3, ImageIsFinite
<1>5. R \subseteq DOMAIN table /\ \A k \in R : k.route = r
  BY DEF Rows, Current
<1>6. \A k \in R : With(K, k) = {s \in A : K[s] = k}
  BY <1>1 DEF With, FiledBy
<1>7. \A k \in R : table[k].count = Cardinality(With(K, k))
  BY <1>1 DEF FiledBy
<1>8. R = {} <=> A = {}
  BY <1>2
<1> QED
  BY <1>2, <1>3, <1>4, <1>5, <1>6, <1>7, <1>8, Zenon

\* The span of the rows is that of the samples.
LEMMA SpanReads ==
  ASSUME IInv, NEW r \in Route, NEW since, NEW table, NEW K, FiledBy(table, K, r),
         NEW R, R = Rows(table, r, since), NEW A, A = Used(r, since, K), A # {}
  PROVE  Span(table, R) = Max({s.end : s \in A}) - Min({s.end : s \in A}) + Window
<1> DEFINE E == {table[k].lastEnd : k \in R}
           F == {table[k].firstStart : k \in R}
<1>1. /\ A \subseteq SamplesOf(r) /\ A # {} /\ R # {}
      /\ R = {K[s] : s \in A} /\ \A k \in R : With(K, k) = {s \in A : K[s] = k}
      /\ IsFiniteSet(R)
  BY SummaryOf
<1>2. ASSUME NEW k \in R
      PROVE  /\ With(K, k) \in SUBSET SamplesOf(r) /\ With(K, k) # {}
             /\ table[k].firstStart = Earliest(With(K, k))
             /\ table[k].lastEnd = Last(With(K, k))
  <2>1. PICK s \in A : k = K[s]
    BY <1>1
  <2>2. s \in SamplesOf(r) /\ s \in With(K, k)
    BY <1>1, <2>1
  <2> QED
    BY <1>1, <2>1, <2>2 DEF FiledBy
<1>3. \A s \in A : s.end \in Int
  BY <1>1, SamplesRead
<1>4. Window \in Int
  BY ArcAssumption
<1>5. ASSUME NEW k \in R
      PROVE  /\ \E s \in A : table[k].firstStart = s.end - Window
             /\ \E s \in A : table[k].lastEnd = s.end
             /\ \A s \in A : K[s] = k =>
                  table[k].firstStart <= s.end - Window /\ s.end <= table[k].lastEnd
  <2> DEFINE S == With(K, k)
  <2>1. S \in SUBSET SamplesOf(r) /\ S # {} /\ S = {s \in A : K[s] = k}
    BY <1>1, <1>2
  <2>2. table[k].firstStart = Earliest(S) /\ table[k].lastEnd = Last(S)
    BY <1>2
  <2> HIDE DEF S
  <2>3. /\ \E s \in S : Earliest(S) = s.end - Window
        /\ \A s \in S : Earliest(S) <= s.end - Window /\ s.end <= Last(S)
        /\ \E s \in S : Last(S) = s.end
    BY <2>1, EndsRead
  <2> QED
    BY <2>1, <2>2, <2>3
<1>6. E \in SUBSET Int /\ F \in SUBSET Int /\ E # {} /\ F # {}
  BY <1>1, <1>3, <1>4, <1>5
<1>7. IsFiniteSet(E) /\ IsFiniteSet(F)
  <2> DEFINE e == [k \in R |-> table[k].lastEnd]
             f == [k \in R |-> table[k].firstStart]
  <2>1. E = {e[k] : k \in R} /\ F = {f[k] : k \in R}
    OBVIOUS
  <2> HIDE DEF e, f, E, F
  <2> QED
    BY <1>1, <2>1, ImageIsFinite
<1> DEFINE high == Max(E)
           low == Min(F)
<1>8. /\ high \in E /\ \A x \in E : x <= high
      /\ low \in F /\ \A x \in F : low <= x
  <2> HIDE DEF E, F
  <2> QED
    BY <1>6, <1>7, MaxReads, MinReads
<1>9. Span(table, R) = high - low
  BY DEF Span
<1>10. /\ \E k \in R : table[k].lastEnd = high
       /\ \E k \in R : table[k].firstStart = low
       /\ \A k \in R : table[k].lastEnd <= high /\ low <= table[k].firstStart
  BY <1>8
<1>11. high \in Int /\ low \in Int
  BY <1>6, <1>8
<1> HIDE DEF high, low, E, F
<1>12. \A k \in R : table[k].firstStart \in Int /\ table[k].lastEnd \in Int
  BY <1>3, <1>4, <1>5
<1> DEFINE first == Min({s.end : s \in A})
           last == Max({s.end : s \in A})
<1>13. /\ \E s \in A : first = s.end
       /\ \A s \in A : first <= s.end /\ s.end <= last
       /\ \E s \in A : last = s.end
  <2>1. /\ \E s \in A : Earliest(A) = s.end - Window /\ first = s.end
        /\ \A s \in A : Earliest(A) <= s.end - Window /\ s.end <= Last(A)
        /\ \E s \in A : Last(A) = s.end
    BY <1>1, EndsRead
  <2>2. last = Last(A)
    BY DEF Last
  <2> HIDE DEF first, last
  <2> QED
    BY <1>3, <1>4, <2>1, <2>2
<1> HIDE DEF first, last
<1>14. low = first - Window
  <2>1. PICK s \in A : first = s.end
    BY <1>13
  <2>2. K[s] \in R
    BY <1>1
  <2>3. low <= first - Window
    BY <1>3, <1>4, <1>5, <1>10, <1>11, <1>12, <2>1, <2>2
  <2>4. PICK k \in R : table[k].firstStart = low
    BY <1>10
  <2>5. PICK t \in A : low = t.end - Window
    BY <1>5, <2>4
  <2>6. first <= t.end
    BY <1>13
  <2> QED
    BY <1>3, <1>4, <1>11, <2>1, <2>3, <2>5, <2>6
<1>15. high = last
  <2>1. PICK s \in A : last = s.end
    BY <1>13
  <2>2. K[s] \in R
    BY <1>1
  <2>3. last <= high
    BY <1>3, <1>5, <1>10, <1>11, <1>12, <2>1, <2>2
  <2>4. PICK k \in R : table[k].lastEnd = high
    BY <1>10
  <2>5. PICK t \in A : high = t.end
    BY <1>5, <2>4
  <2>6. t.end <= last
    BY <1>13
  <2> QED
    BY <1>3, <1>11, <2>1, <2>3, <2>5, <2>6
<1>16. first \in Int /\ last \in Int
  BY <1>3, <1>13
<1>17. Span(table, R) = last - first + Window
  BY <1>4, <1>9, <1>14, <1>15, <1>16
<1> QED
  BY <1>17 DEF first, last

-----------------------------------------------------------------------------
(* Counts and sums of rows *)

\* The counts n of the rows R by the buckets b.
CountedBy(count, R, n, b) ==
  count = [q \in {b[k] : k \in R} |-> SumOver(n, {k \in R : b[k] = q})]

\* The counts of the rows by their buckets are the counts of the samples.
LEMMA CountsRead ==
  ASSUME NEW A, IsFiniteSet(A), NEW K, NEW R, R = {K[s] : s \in A},
         NEW n, \A k \in R : n[k] = Cardinality({s \in A : K[s] = k}),
         NEW b, NEW val, \A s \in A : val[s] = b[K[s]],
         NEW count, CountedBy(count, R, n, b)
  PROVE  CountsOf(count, A, val)
<1>1. {b[k] : k \in R} = {val[s] : s \in A}
  OBVIOUS
<1>2. ASSUME NEW q
      PROVE  SumOver(n, {k \in R : b[k] = q}) = Cardinality({s \in A : val[s] = q})
  <2> DEFINE I == {k \in R : b[k] = q}
             part == [k \in I |-> {s \in A : K[s] = k}]
             B == {s \in A : val[s] = q}
  <2>1. IsFiniteSet(I)
    <3>1. IsFiniteSet(R)
      BY ImageIsFinite
    <3> QED
      BY <3>1, FS_Subset
  <2>2. /\ \A k \in I : part[k] \subseteq A /\ n[k] = Cardinality(part[k])
        /\ \A k, l \in I : k # l => part[k] \cap part[l] = {}
        /\ B = UNION {part[k] : k \in I}
    <3>1. \A k \in I : part[k] = {s \in A : K[s] = k} /\ part[k] \subseteq A
      OBVIOUS
    <3>2. \A k \in I : n[k] = Cardinality(part[k])
      <4> HIDE DEF part
      <4> QED
        BY <3>1, Zenon
    <3>3. \A k, l \in I : k # l => part[k] \cap part[l] = {}
      BY <3>1
    <3>4. \A s \in A : K[s] \in R
      OBVIOUS
    <3> HIDE DEF part
    <3>5. ASSUME NEW s \in B
          PROVE  s \in UNION {part[k] : k \in I}
      BY <3>1, <3>4
    <3>6. ASSUME NEW k \in I, NEW s \in part[k]
          PROVE  s \in B
      BY <3>1
    <3>7. B = UNION {part[k] : k \in I}
      <4> HIDE DEF B, I
      <4> QED
        BY <3>5, <3>6
    <3> QED
      BY <3>1, <3>2, <3>3, <3>7
  <2> HIDE DEF I, part, B
  <2>3. SumOver(n, I) = Cardinality(UNION {part[k] : k \in I})
    BY <2>1, <2>2, CountOfParts
  <2> QED
    BY <2>2, <2>3 DEF I, B
<1> QED
  BY <1>1, <1>2 DEF CountsOf, CountedBy

\* The values of the samples of r.
Stagnations(r) == [s \in SamplesOf(r) |-> s.scores[r].stagnation]
Flows(r) == [s \in SamplesOf(r) |-> s.scores[r].flow]
FlowSquares(r) == [s \in SamplesOf(r) |-> s.scores[r].flow * s.scores[r].flow]
FlowStagnations(r) == [s \in SamplesOf(r) |-> s.scores[r].flow * s.scores[r].stagnation]

LEMMA ValuesRead ==
  ASSUME IInv, NEW r \in Route
  PROVE  /\ \A s \in SamplesOf(r) :
              /\ Stagnations(r)[s] \in Nat /\ Flows(r)[s] \in Nat
              /\ FlowSquares(r)[s] \in Nat /\ FlowStagnations(r)[s] \in Nat
         /\ IsProduct(FlowSquares(r), Flows(r), Flows(r), SamplesOf(r))
         /\ IsProduct(FlowStagnations(r), Flows(r), Stagnations(r), SamplesOf(r))
<1>1. \A s \in SamplesOf(r) : s.scores[r].stagnation \in Nat /\ s.scores[r].flow \in Nat
  BY SamplesRead DEF Sample
<1>2. \A s \in SamplesOf(r) :
        /\ s.scores[r].flow * s.scores[r].flow \in Nat
        /\ s.scores[r].flow * s.scores[r].stagnation \in Nat
  BY <1>1
<1> QED
  BY <1>1, <1>2 DEF Stagnations, Flows, FlowSquares, FlowStagnations, IsProduct

\* A row has the sums over the samples filed in it.
LEMMA RowSums ==
  ASSUME IInv, NEW r \in Route, NEW k \in DOMAIN stagnation, k.route = r,
         NEW S, S = With(StagnationKeys(r), k)
  PROVE  /\ stagnation[k]["count"] = Cardinality(S)
         /\ stagnation[k]["stagnation"] = SumOver(Stagnations(r), S)
         /\ stagnation[k]["flow"] = SumOver(Flows(r), S)
         /\ stagnation[k]["flowSquare"] = SumOver(FlowSquares(r), S)
         /\ stagnation[k]["flowStagnation"] = SumOver(FlowStagnations(r), S)
<1>1. Filed(snapshots, k) = S /\ S \subseteq SamplesOf(r)
  BY DEF Filed, With, StagnationKeys, SamplesOf
<1>2. stagnation[k] = StagnationRowOf(r, S)
  BY <1>1 DEF IInv, RowsAggregateSnapshots
<1>3. /\ SumOver(Stagnations(r), S) = SumFunction([s \in S |-> s.scores[r].stagnation])
      /\ SumOver(Flows(r), S) = SumFunction([s \in S |-> s.scores[r].flow])
      /\ SumOver(FlowSquares(r), S) =
           SumFunction([s \in S |-> s.scores[r].flow * s.scores[r].flow])
      /\ SumOver(FlowStagnations(r), S) =
           SumFunction([s \in S |-> s.scores[r].flow * s.scores[r].stagnation])
  <2>1. /\ \A s \in S : Stagnations(r)[s] = s.scores[r].stagnation
        /\ \A s \in S : Flows(r)[s] = s.scores[r].flow
        /\ \A s \in S : FlowSquares(r)[s] = s.scores[r].flow * s.scores[r].flow
        /\ \A s \in S : FlowStagnations(r)[s] = s.scores[r].flow * s.scores[r].stagnation
    BY <1>1 DEF Stagnations, Flows, FlowSquares, FlowStagnations
  <2>2. /\ [s \in S |-> Stagnations(r)[s]] = [s \in S |-> s.scores[r].stagnation]
        /\ [s \in S |-> Flows(r)[s]] = [s \in S |-> s.scores[r].flow]
        /\ [s \in S |-> FlowSquares(r)[s]] = [s \in S |-> s.scores[r].flow * s.scores[r].flow]
        /\ [s \in S |-> FlowStagnations(r)[s]] =
             [s \in S |-> s.scores[r].flow * s.scores[r].stagnation]
    BY <2>1
  <2> QED
    BY <2>2, Zenon DEF SumOver
<1>4. StagnationRowOf(r, S) =
        [count |-> Cardinality(S),
         stagnation |-> SumFunction([s \in S |-> s.scores[r].stagnation]),
         flow |-> SumFunction([s \in S |-> s.scores[r].flow]),
         flowSquare |-> SumFunction([s \in S |-> s.scores[r].flow * s.scores[r].flow]),
         flowStagnation |-> SumFunction([s \in S |-> s.scores[r].flow * s.scores[r].stagnation]),
         firstStart |-> Earliest(S), lastEnd |-> Last(S)]
  BY DEF StagnationRowOf, Total
<1>5. StagnationRowOf(r, S) =
        [count |-> Cardinality(S),
         stagnation |-> SumOver(Stagnations(r), S), flow |-> SumOver(Flows(r), S),
         flowSquare |-> SumOver(FlowSquares(r), S),
         flowStagnation |-> SumOver(FlowStagnations(r), S),
         firstStart |-> Earliest(S), lastEnd |-> Last(S)]
  BY <1>3, <1>4, Zenon
<1> QED
  BY <1>2, <1>5

LEMMA SummedReads ==
  ASSUME IInv, NEW r \in Route, NEW since,
         NEW R \in SUBSET Rows(stagnation, r, since),
         NEW B, B = {s \in SamplesOf(r) : StagnationKeys(r)[s] \in R},
         NEW v, NEW f, \A k \in R : stagnation[k][f] = SumOver(v, With(StagnationKeys(r), k)),
         \A s \in SamplesOf(r) : v[s] \in Nat
  PROVE  Summed(R, f) = SumOver(v, B)
<1> DEFINE K == StagnationKeys(r)
           part == [k \in R |-> With(K, k)]
           e == [k \in R |-> stagnation[k][f]]
<1>1. FiledBy(stagnation, K, r) /\ IsFiniteSet(SamplesOf(r))
  BY TablesAreFiled, SamplesRead
<1>2. IsFiniteSet(R)
  <2>1. IsFiniteSet(Rows(stagnation, r, since))
    <3> DEFINE Q == Rows(stagnation, r, since)
               A == Used(r, since, K)
    <3>1. Q = Rows(stagnation, r, since) /\ A = Used(r, since, K)
      OBVIOUS
    <3> HIDE DEF K, Q, A
    <3>2. IsFiniteSet(Q)
      BY <1>1, <3>1, SummaryOf
    <3> QED
      BY <3>1, <3>2
  <2> QED
    BY <2>1, FS_Subset
<1>3. /\ \A k \in R : part[k] \subseteq SamplesOf(r) /\ e[k] = SumOver(v, part[k])
      /\ \A k, l \in R : k # l => part[k] \cap part[l] = {}
      /\ B = UNION {part[k] : k \in R}
  <2>1. \A k : With(K, k) = {s \in SamplesOf(r) : K[s] = k}
    BY <1>1 DEF With, FiledBy
  <2>2. \A k \in R : part[k] = With(K, k) /\ e[k] = stagnation[k][f]
    OBVIOUS
  <2>3. \A k \in R : stagnation[k][f] = SumOver(v, With(K, k))
    OBVIOUS
  <2>4. B = {s \in SamplesOf(r) : K[s] \in R}
    OBVIOUS
  <2> HIDE DEF part, e, K
  <2>5. \A k \in R : part[k] \subseteq SamplesOf(r) /\ e[k] = SumOver(v, part[k])
    BY <2>1, <2>2, <2>3
  <2>6. \A k, l \in R : k # l => part[k] \cap part[l] = {}
    BY <2>1, <2>2
  <2>7. B = UNION {part[k] : k \in R}
    BY <2>1, <2>2, <2>4
  <2> QED
    BY <2>5, <2>6, <2>7
<1>4. Summed(R, f) = SumOver(e, R)
  <2>1. Summed(R, f) = SumFunction(e)
    BY DEF Summed, Total
  <2>2. e = [k \in R |-> e[k]]
    OBVIOUS
  <2> HIDE DEF e
  <2> QED
    BY <2>1, <2>2 DEF SumOver
<1> HIDE DEF part, e, K
<1>5. SumOver(e, R) = SumOver(v, UNION {part[k] : k \in R})
  BY <1>1, <1>2, <1>3, SumOfParts
<1> QED
  BY <1>3, <1>4, <1>5

LEMMA RegressionReads ==
  ASSUME IInv, NEW r \in Route, NEW since,
         NEW R \in SUBSET Rows(stagnation, r, since),
         NEW B, B = {s \in SamplesOf(r) : StagnationKeys(r)[s] \in R}
  PROVE  FlowRegression(R) =
           [count |-> Cardinality(B), stagnation |-> SumOver(Stagnations(r), B),
            flow |-> SumOver(Flows(r), B), flowSquare |-> SumOver(FlowSquares(r), B),
            flowStagnation |-> SumOver(FlowStagnations(r), B)]
<1> DEFINE K == StagnationKeys(r)
           one == [s \in SamplesOf(r) |-> 1]
<1>1. \A k \in R : k \in DOMAIN stagnation /\ k.route = r
  BY DEF Rows, Current
<1>2. \A k \in R :
        /\ stagnation[k]["count"] = Cardinality(With(K, k))
        /\ stagnation[k]["stagnation"] = SumOver(Stagnations(r), With(K, k))
        /\ stagnation[k]["flow"] = SumOver(Flows(r), With(K, k))
        /\ stagnation[k]["flowSquare"] = SumOver(FlowSquares(r), With(K, k))
        /\ stagnation[k]["flowStagnation"] = SumOver(FlowStagnations(r), With(K, k))
  BY <1>1, RowSums
<1>3. \A S \in SUBSET SamplesOf(r) : SumOver(one, S) = Cardinality(S)
  <2>1. \A s \in SamplesOf(r) : one[s] = 1
    OBVIOUS
  <2>2. \A S \in SUBSET SamplesOf(r) : IsFiniteSet(S)
    BY SamplesRead, FS_Subset
  <2> HIDE DEF one
  <2> QED
    BY <2>1, <2>2, CardinalityIsSum
<1>4. Summed(R, "count") = Cardinality(B)
  <2>1. \A s \in SamplesOf(r) : one[s] \in Nat
    OBVIOUS
  <2>2. \A k \in R : With(K, k) \in SUBSET SamplesOf(r)
    BY DEF With, StagnationKeys
  <2>3. B \in SUBSET SamplesOf(r)
    OBVIOUS
  <2> HIDE DEF one
  <2>4. \A k \in R : stagnation[k]["count"] = SumOver(one, With(K, k))
    BY <1>2, <1>3, <2>2
  <2>5. Summed(R, "count") = SumOver(one, B)
    BY <2>1, <2>4, SummedReads
  <2> QED
    BY <1>3, <2>3, <2>5
<1>5. /\ Summed(R, "stagnation") = SumOver(Stagnations(r), B)
      /\ Summed(R, "flow") = SumOver(Flows(r), B)
      /\ Summed(R, "flowSquare") = SumOver(FlowSquares(r), B)
      /\ Summed(R, "flowStagnation") = SumOver(FlowStagnations(r), B)
  <2>1. \A s \in SamplesOf(r) :
          /\ Stagnations(r)[s] \in Nat /\ Flows(r)[s] \in Nat
          /\ FlowSquares(r)[s] \in Nat /\ FlowStagnations(r)[s] \in Nat
    BY ValuesRead
  <2>2. Summed(R, "stagnation") = SumOver(Stagnations(r), B)
    BY <1>2, <2>1, SummedReads
  <2>3. Summed(R, "flow") = SumOver(Flows(r), B)
    BY <1>2, <2>1, SummedReads
  <2>4. Summed(R, "flowSquare") = SumOver(FlowSquares(r), B)
    BY <1>2, <2>1, SummedReads
  <2>5. Summed(R, "flowStagnation") = SumOver(FlowStagnations(r), B)
    BY <1>2, <2>1, SummedReads
  <2> QED
    BY <2>2, <2>3, <2>4, <2>5
<1> QED
  BY <1>4, <1>5 DEF FlowRegression

-----------------------------------------------------------------------------
(* The summary of stagnation *)

UsedStagnation(r, since) == Used(r, since, StagnationKeys(r))

LEMMA StagnationSummary ==
  ASSUME IInv, NEW r \in Route, NEW since,
         NEW R, R = Rows(stagnation, r, since), NEW A, A = UsedStagnation(r, since),
         NEW val, val = [s \in SamplesOf(r) |-> Bucket(s.scores[r].stagnation)]
  PROVE  IF A = {} THEN SummarizeArcStagnation(r, since) = Null
         ELSE \E p90 :
                /\ SummarizeArcStagnation(r, since) =
                     [p90 |-> p90, all |-> FlowRegression(R),
                      sameSensor |-> FlowRegression({k \in R : k.sameSensor}),
                      span |-> Max({s.end : s \in A}) - Min({s.end : s \in A}) + Window]
                /\ IsRank(p90, A, val, HighRank)
<1> DEFINE K == StagnationKeys(r)
           n == [k \in R |-> stagnation[k].count]
           b == [k \in R |-> k.bucket]
           count == [q \in {b[k] : k \in R} |-> SumOver(n, {k \in R : b[k] = q})]
           p90 == Quantile(count, HighRank)
<1>1. FiledBy(stagnation, K, r) /\ A = Used(r, since, K)
  BY TablesAreFiled DEF UsedStagnation
<1>2. /\ A \subseteq SamplesOf(r) /\ IsFiniteSet(A) /\ (R = {} <=> A = {})
      /\ R = {K[s] : s \in A}
      /\ \A k \in R : stagnation[k].count = Cardinality({s \in A : K[s] = k})
  <2> HIDE DEF K, n, b, count, p90
  <2>1. /\ A \subseteq SamplesOf(r) /\ IsFiniteSet(A) /\ (R = {} <=> A = {})
        /\ R = {K[s] : s \in A}
    BY <1>1, SummaryOf
  <2>2. /\ \A k \in R : With(K, k) = {s \in A : K[s] = k}
        /\ \A k \in R : stagnation[k].count = Cardinality(With(K, k))
    BY <1>1, SummaryOf
  <2>3. \A k \in R : stagnation[k].count = Cardinality({s \in A : K[s] = k})
    BY <2>2, Zenon
  <2> QED
    BY <2>1, <2>3
<1>3. CountBy(R, LAMBDA k : k.bucket, LAMBDA k : stagnation[k].count) = count
  <2>1. {k.bucket : k \in R} = {b[k] : k \in R}
    OBVIOUS
  <2>2. ASSUME NEW q
        PROVE  SumFunction([x \in {k \in R : k.bucket = q} |-> stagnation[x].count]) =
                 SumOver(n, {k \in R : b[k] = q})
    <3>1. [x \in {k \in R : k.bucket = q} |-> stagnation[x].count] =
            [x \in {k \in R : b[k] = q} |-> n[x]]
      OBVIOUS
    <3> QED
      BY <3>1, Zenon DEF SumOver
  <2>3. CountBy(R, LAMBDA k : k.bucket, LAMBDA k : stagnation[k].count) =
          [q \in {k.bucket : k \in R} |->
             SumFunction([x \in {k \in R : k.bucket = q} |-> stagnation[x].count])]
    BY DEF CountBy, Total
  <2> QED
    BY <2>1, <2>2, <2>3
<1>4. \A s \in A : val[s] = b[K[s]] /\ val[s] \in Int
  <2>1. ASSUME NEW s \in A
        PROVE  val[s] = b[K[s]] /\ val[s] \in Int
    <3>1. s \in SamplesOf(r) /\ K[s] \in R /\ s.scores[r].stagnation \in Nat
      BY <1>2, SamplesRead DEF Sample
    <3>2. K[s].bucket = Bucket(s.scores[r].stagnation)
      BY <3>1 DEF StagnationKeys, StagnationKeyOf
    <3>3. Bucket(s.scores[r].stagnation) \in Nat
      BY <3>1, BucketType
    <3> HIDE DEF K
    <3> QED
      BY <3>1, <3>2, <3>3
  <2> QED
    BY <2>1
<1>5. CountsOf(count, A, val)
  <2>1. \A k \in R : n[k] = Cardinality({s \in A : K[s] = k})
    BY <1>2
  <2>2. CountedBy(count, R, n, b)
    BY DEF CountedBy
  <2>3. IsFiniteSet(A) /\ R = {K[s] : s \in A}
    BY <1>2
  <2>4. \A s \in A : val[s] = b[K[s]]
    BY <1>4
  <2> HIDE DEF K, n, b, count
  <2> QED
    BY <2>1, <2>2, <2>3, <2>4, CountsRead
<1>6. SummarizeArcStagnation(r, since) =
        IF R = {} THEN Null ELSE
          [p90 |-> Quantile(CountBy(R, LAMBDA k : k.bucket, LAMBDA k : stagnation[k].count),
                           HighRank),
           all |-> FlowRegression(R),
           sameSensor |-> FlowRegression({k \in R : k.sameSensor}),
           span |-> Span(stagnation, R)]
  BY Zenon DEF SummarizeArcStagnation, Rows
<1>7. CASE A = {}
  <2>1. R = {}
    BY <1>2, <1>7
  <2>2. SummarizeArcStagnation(r, since) = Null
    BY <1>6, <2>1, Zenon
  <2> QED
    BY <1>7, <2>2
<1>8. CASE A # {}
  <2>1. R # {}
    BY <1>2, <1>8
  <2>2. Span(stagnation, R) = Max({s.end : s \in A}) - Min({s.end : s \in A}) + Window
    <3> HIDE DEF K
    <3> QED
      BY <1>1, <1>8, SpanReads
  <2>3. SummarizeArcStagnation(r, since) =
          [p90 |-> p90, all |-> FlowRegression(R),
           sameSensor |-> FlowRegression({k \in R : k.sameSensor}),
           span |-> Max({s.end : s \in A}) - Min({s.end : s \in A}) + Window]
    BY <1>3, <1>6, <2>1, <2>2, Zenon
  <2>4. IsRank(p90, A, val, HighRank)
    <3>1. HighRank \in Rank
      BY ArcAssumption DEF Rank
    <3> HIDE DEF count
    <3> QED
      BY <1>2, <1>4, <1>5, <1>8, <3>1, QuantileReads
  <2> QED
    BY <1>8, <2>3, <2>4
<1> QED
  BY <1>7, <1>8

\* The samples of the properties are those filed by the function of the proofs.
LEMMA UsedStagnationReads ==
  ASSUME NEW r, NEW since
  PROVE  StagnationSamples(r, since) = UsedStagnation(r, since)
<1> DEFINE K == StagnationKeys(r)
           late == {t \in SamplesOf(r) : t.end - Window < changedAt[r]}
<1>1. UsedStagnation(r, since) =
        {s \in SamplesOf(r) : Hour(s.end) >= since /\ K[s] \notin {K[l] : l \in late}}
  BY DEF UsedStagnation, Used, UsedSamples
<1>2. StagnationSamples(r, since) =
        {s \in SamplesOf(r) :
           /\ Hour(s.end) >= since
           /\ StagnationKeyOf(r, s.end, s.scores[r]) \notin
                {StagnationKeyOf(r, l.end, l.scores[r]) : l \in late}}
  BY Zenon DEF StagnationSamples, UsedSamples
<1>3. \A s \in SamplesOf(r) : K[s] = StagnationKeyOf(r, s.end, s.scores[r])
  BY DEF StagnationKeys
<1>4. late \subseteq SamplesOf(r)
  OBVIOUS
<1> HIDE DEF K, late
<1>5. {K[l] : l \in late} = {StagnationKeyOf(r, l.end, l.scores[r]) : l \in late}
  BY <1>3, <1>4
<1> QED
  BY <1>1, <1>2, <1>3, <1>5

\* What SummaryIsOfSamples asks of a summary h of the samples A.
SummaryFits(h, r, A) ==
  IF A = {} THEN h = Null ELSE
    /\ IsQuantile(h.p90, A, LAMBDA s : Bucket(s.scores[r].stagnation), HighRank)
    /\ h.all.count = Cardinality(A)
    /\ h.all.stagnation = Total(LAMBDA s : s.scores[r].stagnation, A)
    /\ h.span = Max({s.end : s \in A}) - Min({s.end : s \in A}) + Window

\* The rows that a summary reads hold the samples it stands for.
LEMMA UsedStagnationRows ==
  ASSUME IInv, NEW r \in Route, NEW since
  PROVE  /\ UsedStagnation(r, since) =
              {s \in SamplesOf(r) : StagnationKeys(r)[s] \in Rows(stagnation, r, since)}
         /\ UsedStagnation(r, since) \subseteq SamplesOf(r)
<1> DEFINE K == StagnationKeys(r)
<1>1. FiledBy(stagnation, K, r) /\ UsedStagnation(r, since) = Used(r, since, K)
  BY TablesAreFiled DEF UsedStagnation
<1> HIDE DEF K
<1>2. UsedStagnation(r, since) = {s \in SamplesOf(r) : K[s] \in Rows(stagnation, r, since)}
  BY <1>1, UsedAreFiled
<1> QED
  BY <1>2 DEF K

LEMMA SummaryHolds ==
  IInv => SummaryIsOfSamples
<1> SUFFICES ASSUME IInv, NEW r \in Route, NEW since \in Since
             PROVE  SummaryFits(SummarizeArcStagnation(r, since), r, StagnationSamples(r, since))
  BY Zenon DEF SummaryIsOfSamples, SummaryFits, StagnationSamples, UsedSamples, IsQuantile, Total
<1> DEFINE h == SummarizeArcStagnation(r, since)
           A == UsedStagnation(r, since)
           R == Rows(stagnation, r, since)
           val == [s \in SamplesOf(r) |-> Bucket(s.scores[r].stagnation)]
<1>1. StagnationSamples(r, since) = A
  BY UsedStagnationReads
<1>2. A \subseteq SamplesOf(r)
  BY UsedStagnationRows
<1>3. CASE A = {}
  <2>1. h = Null
    <3> HIDE DEF h, A
    <3>1. IF A = {} THEN SummarizeArcStagnation(r, since) = Null ELSE TRUE
      BY StagnationSummary DEF A
    <3> QED
      BY <1>3, <3>1 DEF h
  <2> QED
    BY <1>1, <1>3, <2>1, Zenon DEF SummaryFits
<1>4. CASE A # {}
  <2>1. PICK p90 :
          /\ h = [p90 |-> p90, all |-> FlowRegression(R),
                  sameSensor |-> FlowRegression({k \in R : k.sameSensor}),
                  span |-> Max({s.end : s \in A}) - Min({s.end : s \in A}) + Window]
          /\ IsRank(p90, A, val, HighRank)
    BY <1>4, StagnationSummary
  <2>2. /\ h.p90 = p90 /\ h.all = FlowRegression(R)
        /\ h.span = Max({s.end : s \in A}) - Min({s.end : s \in A}) + Window
    <3> HIDE DEF h
    <3> QED
      BY <2>1
  <2>3. IsQuantile(p90, A, LAMBDA s : Bucket(s.scores[r].stagnation), HighRank)
    <3>1. \A s \in A : val[s] = Bucket(s.scores[r].stagnation)
      BY <1>2
    <3>2. /\ {s \in A : val[s] < p90} = {s \in A : Bucket(s.scores[r].stagnation) < p90}
          /\ {s \in A : val[s] > p90} = {s \in A : Bucket(s.scores[r].stagnation) > p90}
          /\ (\E s \in A : val[s] = p90) <=> \E s \in A : Bucket(s.scores[r].stagnation) = p90
      <4> HIDE DEF val, A
      <4> QED
        BY <3>1
    <3> HIDE DEF val, A
    <3> QED
      BY <2>1, <3>2, Zenon DEF IsRank, IsQuantile
  <2>4. FlowRegression(R).count = Cardinality(A)
        /\ FlowRegression(R).stagnation = SumOver(Stagnations(r), A)
    <3>1. R \in SUBSET Rows(stagnation, r, since)
      OBVIOUS
    <3>2. A = {s \in SamplesOf(r) : StagnationKeys(r)[s] \in R}
      BY UsedStagnationRows
    <3> HIDE DEF R, A
    <3>3. FlowRegression(R) =
            [count |-> Cardinality(A), stagnation |-> SumOver(Stagnations(r), A),
             flow |-> SumOver(Flows(r), A), flowSquare |-> SumOver(FlowSquares(r), A),
             flowStagnation |-> SumOver(FlowStagnations(r), A)]
      BY <3>1, <3>2, RegressionReads
    <3> QED
      BY <3>3
  <2>5. SumOver(Stagnations(r), A) = SumFunction([s \in A |-> s.scores[r].stagnation])
    <3>1. \A s \in A : Stagnations(r)[s] = s.scores[r].stagnation
      BY <1>2 DEF Stagnations
    <3>2. [s \in A |-> Stagnations(r)[s]] = [s \in A |-> s.scores[r].stagnation]
      BY <3>1
    <3> QED
      BY <3>2, Zenon DEF SumOver
  <2> HIDE DEF h, A, R
  <2>6. IsQuantile(h.p90, A, LAMBDA s : Bucket(s.scores[r].stagnation), HighRank)
    BY <2>2, <2>3, Zenon DEF IsQuantile
  <2>7. h.all.count = Cardinality(A) /\ h.all.stagnation = SumOver(Stagnations(r), A)
    BY <2>2, <2>4, Zenon
  <2>8. SummaryFits(h, r, A)
    BY <1>4, <2>2, <2>5, <2>6, <2>7, Zenon DEF SummaryFits, Total, IsQuantile
  <2> QED
    BY <1>1, <2>8, Zenon DEF h
<1> QED
  BY <1>3, <1>4

\* What is said of the stagnation of an arc is what its samples say: the 90th
\* percentile, the mean and the span (SummarizeArcHistory,
\* infra/db/snapshot.go:207).
THEOREM SummariesAreOfSamples ==
  Spec => []SummaryIsOfSamples
  BY SummaryHolds, InitInvariant, InvariantStep, PTL DEF Spec

-----------------------------------------------------------------------------
(* The slope of the regression *)

Ends(r) == [s \in SamplesOf(r) |-> s.end]

\* The pairs of samples, and how much they differ in flow and stagnation, and
\* in flow alone.
Pairs(S) == {p \in S \X S : p[1].end < p[2].end}
Joint(r) ==
  [p \in SamplesOf(r) \X SamplesOf(r) |->
     (Flows(r)[p[1]] - Flows(r)[p[2]]) * (Stagnations(r)[p[1]] - Stagnations(r)[p[2]])]
Square(r) ==
  [p \in SamplesOf(r) \X SamplesOf(r) |->
     (Flows(r)[p[1]] - Flows(r)[p[2]]) * (Flows(r)[p[1]] - Flows(r)[p[2]])]

LEMMA EndsAreIndex ==
  ASSUME IInv, NEW r \in Route
  PROVE  IsIndex(Ends(r), SamplesOf(r))
<1>1. \A s, t \in snapshots : s.end = t.end => s = t
  BY DEF IInv, EndsDiffer
<1> QED
  BY <1>1, SamplesRead DEF IsIndex, Ends

\* The sums of a regression are those over the pairs.
LEMMA PairsRead ==
  ASSUME IInv, NEW r \in Route, NEW B \in SUBSET SamplesOf(r)
  PROVE  /\ SumOver(Joint(r), Pairs(B)) =
              Cardinality(B) * SumOver(FlowStagnations(r), B)
                - SumOver(Flows(r), B) * SumOver(Stagnations(r), B)
         /\ SumOver(Square(r), Pairs(B)) =
              Cardinality(B) * SumOver(FlowSquares(r), B)
                - SumOver(Flows(r), B) * SumOver(Flows(r), B)
<1> DEFINE x == Flows(r)
           y == Stagnations(r)
           t == Ends(r)
           P == {p \in B \X B : t[p[1]] < t[p[2]]}
<1>1. IsFiniteSet(B)
  BY SamplesRead, FS_Subset
<1>2. \A s \in B : x[s] \in Int /\ y[s] \in Int
  BY ValuesRead
<1>3. IsProduct(FlowStagnations(r), x, y, B) /\ IsProduct(FlowSquares(r), x, x, B)
  BY ValuesRead DEF IsProduct
<1>4. IsIndex(t, B)
  BY EndsAreIndex DEF IsIndex
<1>5. IsJointDifference(Joint(r), x, y, B) /\ IsJointDifference(Square(r), x, x, B)
  BY DEF IsJointDifference, Joint, Square
<1>6. P = Pairs(B)
  BY DEF Pairs, Ends
<1> HIDE DEF x, y, t
<1>7. SumOver(Joint(r), P) =
        Cardinality(B) * SumOver(FlowStagnations(r), B) - SumOver(x, B) * SumOver(y, B)
  BY <1>1, <1>2, <1>3, <1>4, <1>5, SumOfPairs
<1>8. SumOver(Square(r), P) =
        Cardinality(B) * SumOver(FlowSquares(r), B) - SumOver(x, B) * SumOver(x, B)
  BY <1>1, <1>2, <1>3, <1>4, <1>5, SumOfPairs
<1> HIDE DEF P
<1> QED
  BY <1>6, <1>7, <1>8, Zenon DEF x, y

\* Flow and stagnation can only fall together where flow differs.
LEMMA SlopeHasRun ==
  ASSUME IInv, NEW r \in Route, NEW B \in SUBSET SamplesOf(r)
  PROVE  /\ SumOver(Joint(r), Pairs(B)) \in Int /\ SumOver(Square(r), Pairs(B)) \in Nat
         /\ SumOver(Joint(r), Pairs(B)) < 0 => SumOver(Square(r), Pairs(B)) > 0
<1> DEFINE P == Pairs(B)
           w == Joint(r)
           v == Square(r)
<1>1. IsFiniteSet(P)
  <2>1. IsFiniteSet(B \X B)
    BY SamplesRead, FS_Subset, FS_Product
  <2>2. P \in SUBSET (B \X B)
    BY DEF Pairs
  <2> DEFINE BB == B \X B
  <2>3. IsFiniteSet(BB) /\ P \in SUBSET BB
    BY <2>1, <2>2
  <2> HIDE DEF BB, P
  <2> QED
    BY <2>3, FS_Subset
<1>2. ASSUME NEW p \in P
      PROVE  w[p] \in Int /\ v[p] \in Nat /\ (v[p] = 0 => w[p] = 0)
  <2> DEFINE d == Flows(r)[p[1]] - Flows(r)[p[2]]
             e == Stagnations(r)[p[1]] - Stagnations(r)[p[2]]
  <2>1. p[1] \in SamplesOf(r) /\ p[2] \in SamplesOf(r) /\ p \in SamplesOf(r) \X SamplesOf(r)
    BY DEF Pairs
  <2>2. d \in Int /\ e \in Int
    BY <2>1, ValuesRead
  <2>3. w[p] = d * e /\ v[p] = d * d
    BY <2>1 DEF Joint, Square
  <2> HIDE DEF d, e, w, v
  <2> QED
    BY <2>2, <2>3
<1> HIDE DEF P, w, v
<1>3. SumOver(w, P) \in Int /\ SumOver(v, P) \in Nat
  <2>1. P \in SUBSET P
    OBVIOUS
  <2>2. \A p \in P : w[p] \in Int
    BY <1>2
  <2>3. \A p \in P : v[p] \in Nat
    BY <1>2
  <2>4. SumOver(w, P) \in Int
    BY <1>1, <2>1, <2>2, SumOverReads
  <2>5. SumOver(v, P) \in Nat
    BY <1>1, <2>1, <2>3, SumOverReads
  <2> QED
    BY <2>4, <2>5
<1>4. ASSUME SumOver(v, P) = 0
      PROVE  SumOver(w, P) = 0
  <2>1. \A p \in P : v[p] \in Nat
    BY <1>2
  <2>2. \A p \in P : v[p] = 0
    BY <1>1, <1>4, <2>1, SumIsZero
  <2>3. \A p \in P : w[p] = v[p]
    BY <1>2, <2>2
  <2>4. [p \in P |-> w[p]] = [p \in P |-> v[p]]
    BY <2>3
  <2>5. SumOver(w, P) = SumOver(v, P)
    BY <2>4, Zenon DEF SumOver
  <2> QED
    BY <1>4, <2>5
<1>5. SumOver(w, P) < 0 => SumOver(v, P) > 0
  BY <1>3, <1>4
<1> QED
  BY <1>3, <1>5 DEF P, w, v

\* The sensitivity computed from the sums is the slope over the pairs.
LEMMA EtaReads ==
  ASSUME IInv, NEW r \in Route, NEW B \in SUBSET SamplesOf(r), NEW g,
         g = [count |-> Cardinality(B), stagnation |-> SumOver(Stagnations(r), B),
              flow |-> SumOver(Flows(r), B), flowSquare |-> SumOver(FlowSquares(r), B),
              flowStagnation |-> SumOver(FlowStagnations(r), B)],
         NEW Sxy, Sxy = SumOver(Joint(r), Pairs(B)),
         NEW Sxx, Sxx = SumOver(Square(r), Pairs(B))
  PROVE  Eta(g) = IF Cardinality(B) >= MinSamples /\ Sxy < 0 THEN <<-Sxy, Sxx>> ELSE Null
<1>1. /\ Sxy = g.count * g.flowStagnation - g.flow * g.stagnation
      /\ Sxx = g.count * g.flowSquare - g.flow * g.flow
      /\ g.count = Cardinality(B)
  BY PairsRead
<1>2. Sxy \in Int /\ Sxx \in Nat /\ (Sxy < 0 => Sxx > 0)
  BY SlopeHasRun
<1>3. Cardinality(B) \in Nat /\ MinSamples \in Nat
  BY SamplesRead, FS_Subset, FS_CardinalityType, ArcAssumption
<1>4. Eta(g) = IF g.count < MinSamples \/ Sxx <= 0 \/ -Sxy <= 0 THEN Null ELSE <<-Sxy, Sxx>>
  BY <1>1, Zenon DEF Eta
<1> QED
  BY <1>1, <1>2, <1>3, <1>4

\* What EtaIsSlopeOfSamples asks of a sensitivity e taken from the samples S.
SlopeFits(e, r, S) ==
  LET pairs == {p \in S \X S : p[1].end < p[2].end}
      Sxy == SumFunction([p \in pairs |->
               (p[1].scores[r].flow - p[2].scores[r].flow)
                 * (p[1].scores[r].stagnation - p[2].scores[r].stagnation)])
      Sxx == SumFunction([p \in pairs |->
               (p[1].scores[r].flow - p[2].scores[r].flow)
                 * (p[1].scores[r].flow - p[2].scores[r].flow)])
  IN  e = IF Cardinality(S) >= MinSamples /\ Sxy < 0 THEN <<-Sxy, Sxx>> ELSE Null

SameSensor(r, A) == {s \in A : s.scores[r].sameSensor}

Preferred(r, A) ==
  IF Cardinality(SameSensor(r, A)) >= MinSamples THEN SameSensor(r, A) ELSE A

LEMMA SlopeReads ==
  ASSUME IInv, NEW r \in Route, NEW B \in SUBSET SamplesOf(r), NEW g,
         g = [count |-> Cardinality(B), stagnation |-> SumOver(Stagnations(r), B),
              flow |-> SumOver(Flows(r), B), flowSquare |-> SumOver(FlowSquares(r), B),
              flowStagnation |-> SumOver(FlowStagnations(r), B)]
  PROVE  SlopeFits(Eta(g), r, B)
<1> DEFINE P == Pairs(B)
           joint(p) == (p[1].scores[r].flow - p[2].scores[r].flow)
                         * (p[1].scores[r].stagnation - p[2].scores[r].stagnation)
           square(p) == (p[1].scores[r].flow - p[2].scores[r].flow)
                          * (p[1].scores[r].flow - p[2].scores[r].flow)
           Sxy == SumOver(Joint(r), P)
           Sxx == SumOver(Square(r), P)
<1>1. \A p \in P : Joint(r)[p] = joint(p) /\ Square(r)[p] = square(p)
  <2> TAKE p \in P
  <2>1. p \in SamplesOf(r) \X SamplesOf(r) /\ p[1] \in SamplesOf(r) /\ p[2] \in SamplesOf(r)
    BY DEF Pairs
  <2>2. /\ Flows(r)[p[1]] = p[1].scores[r].flow /\ Flows(r)[p[2]] = p[2].scores[r].flow
        /\ Stagnations(r)[p[1]] = p[1].scores[r].stagnation
        /\ Stagnations(r)[p[2]] = p[2].scores[r].stagnation
    BY <2>1 DEF Flows, Stagnations
  <2> QED
    BY <2>1, <2>2 DEF Joint, Square
<1>2. /\ [p \in P |-> Joint(r)[p]] = [p \in P |-> joint(p)]
      /\ [p \in P |-> Square(r)[p]] = [p \in P |-> square(p)]
  <2> HIDE DEF P, joint, square
  <2> QED
    BY <1>1
<1>3. /\ Sxy = SumFunction([p \in P |-> joint(p)])
      /\ Sxx = SumFunction([p \in P |-> square(p)])
  BY <1>2, Zenon DEF SumOver
<1>4. P = {p \in B \X B : p[1].end < p[2].end}
  BY DEF Pairs
<1>5. Eta(g) = IF Cardinality(B) >= MinSamples /\ Sxy < 0 THEN <<-Sxy, Sxx>> ELSE Null
  <2> HIDE DEF P
  <2>1. Sxy = SumOver(Joint(r), Pairs(B)) /\ Sxx = SumOver(Square(r), Pairs(B))
    BY DEF P
  <2> HIDE DEF Sxy, Sxx
  <2> QED
    BY <2>1, EtaReads
<1> HIDE DEF P, Sxy, Sxx
<1> QED
  BY <1>3, <1>4, <1>5, Zenon DEF SlopeFits

LEMMA SlopeHolds ==
  IInv => EtaIsSlopeOfSamples
<1> SUFFICES ASSUME IInv, NEW r \in Route, NEW since \in Since,
                    SummarizeArcStagnation(r, since) # Null
             PROVE  SlopeFits(FlowSensitivityEta(SummarizeArcStagnation(r, since)), r,
                              Preferred(r, StagnationSamples(r, since)))
  BY Zenon DEF EtaIsSlopeOfSamples, SlopeFits, Preferred, SameSensor, StagnationSamples,
               UsedSamples, Total
<1> DEFINE h == SummarizeArcStagnation(r, since)
           A == UsedStagnation(r, since)
           R == Rows(stagnation, r, since)
           K == StagnationKeys(r)
           Q == {k \in R : k.sameSensor}
           same == SameSensor(r, A)
<1>1. StagnationSamples(r, since) = A
  BY UsedStagnationReads
<1>2. A = {s \in SamplesOf(r) : K[s] \in R} /\ A \in SUBSET SamplesOf(r)
  BY UsedStagnationRows
<1>3. same = {s \in SamplesOf(r) : K[s] \in Q} /\ same \in SUBSET SamplesOf(r)
  <2>1. \A s \in SamplesOf(r) : K[s].sameSensor = s.scores[r].sameSensor
    BY DEF StagnationKeys, StagnationKeyOf
  <2> HIDE DEF K, R, A
  <2> QED
    BY <1>2, <2>1 DEF SameSensor
<1>4. A # {}
  <2>1. IF A = {} THEN h = Null ELSE TRUE
    BY StagnationSummary
  <2> QED
    BY <2>1
<1>5. h.all = FlowRegression(R) /\ h.sameSensor = FlowRegression(Q)
  <2>1. PICK p90 :
          h = [p90 |-> p90, all |-> FlowRegression(R), sameSensor |-> FlowRegression(Q),
               span |-> Max({s.end : s \in A}) - Min({s.end : s \in A}) + Window]
    BY <1>4, StagnationSummary
  <2> HIDE DEF h
  <2> QED
    BY <2>1
<1> DEFINE sums(B) ==
             [count |-> Cardinality(B), stagnation |-> SumOver(Stagnations(r), B),
              flow |-> SumOver(Flows(r), B), flowSquare |-> SumOver(FlowSquares(r), B),
              flowStagnation |-> SumOver(FlowStagnations(r), B)]
<1>6. R \in SUBSET Rows(stagnation, r, since) /\ Q \in SUBSET Rows(stagnation, r, since)
  OBVIOUS
<1> HIDE DEF h, A, R, Q, same
<1>7. h.all = sums(A) /\ h.sameSensor = sums(same)
  <2>1. FlowRegression(R) = sums(A)
    BY <1>2, <1>6, RegressionReads
  <2>2. FlowRegression(Q) = sums(same)
    BY <1>3, <1>6, RegressionReads
  <2> QED
    BY <1>5, <2>1, <2>2
<1>8. SlopeFits(Eta(h.all), r, A) /\ SlopeFits(Eta(h.sameSensor), r, same)
  BY <1>2, <1>3, <1>7, SlopeReads
<1>9. h.sameSensor.count = Cardinality(same)
  <2>1. sums(same).count = Cardinality(same)
    OBVIOUS
  <2> HIDE DEF sums
  <2> QED
    BY <1>7, <2>1
<1>10. SlopeFits(FlowSensitivityEta(h), r, Preferred(r, A))
  <2>1. CASE Cardinality(same) >= MinSamples
    <3>1. FlowSensitivityEta(h) = Eta(h.sameSensor) /\ Preferred(r, A) = same
      BY <1>9, <2>1, Zenon DEF FlowSensitivityEta, Preferred, same
    <3> QED
      BY <1>8, <3>1, Zenon
  <2>2. CASE ~ (Cardinality(same) >= MinSamples)
    <3>1. FlowSensitivityEta(h) = Eta(h.all) /\ Preferred(r, A) = A
      BY <1>9, <2>2, Zenon DEF FlowSensitivityEta, Preferred, same
    <3> QED
      BY <1>8, <3>1, Zenon
  <2> QED
    BY <2>1, <2>2
<1> QED
  BY <1>1, <1>10, Zenon DEF h

\* An arc is said to be sensitive to flow only if, pair by pair of its samples,
\* more flow goes with less stagnation, and the sensitivity is the slope of the
\* regression over the samples (FlowSensitivityEta, eta).
THEOREM SlopesAreOfSamples ==
  Spec => []EtaIsSlopeOfSamples
  BY SlopeHolds, InitInvariant, InvariantStep, PTL DEF Spec

-----------------------------------------------------------------------------
(* The dwell time of free flow *)

UsedDwell(r, since) == Used(r, since, KeysOfDwell(r))

\* The same for the samples by their dwell time.
LEMMA UsedDwellReads ==
  ASSUME NEW r, NEW since
  PROVE  DwellSamples(r, since) = UsedDwell(r, since)
<1> DEFINE K == KeysOfDwell(r)
           late == {t \in SamplesOf(r) : t.end - Window < changedAt[r]}
<1>1. UsedDwell(r, since) =
        {s \in SamplesOf(r) : Hour(s.end) >= since /\ K[s] \notin {K[l] : l \in late}}
  BY DEF UsedDwell, Used, UsedSamples
<1>2. DwellSamples(r, since) =
        {s \in SamplesOf(r) :
           /\ Hour(s.end) >= since
           /\ DwellKeyOf(r, s.end, s.scores[r]) \notin
                {DwellKeyOf(r, l.end, l.scores[r]) : l \in late}}
  BY Zenon DEF DwellSamples, UsedSamples
<1>3. \A s \in SamplesOf(r) : K[s] = DwellKeyOf(r, s.end, s.scores[r])
  BY DEF KeysOfDwell
<1>4. late \subseteq SamplesOf(r)
  OBVIOUS
<1> HIDE DEF K, late
<1>5. {K[l] : l \in late} = {DwellKeyOf(r, l.end, l.scores[r]) : l \in late}
  BY <1>3, <1>4
<1> QED
  BY <1>1, <1>2, <1>3, <1>5

\* The buckets of flow and of dwell time of the samples of r.
FlowBuckets(r) == [s \in SamplesOf(r) |-> Bucket(s.scores[r].flow)]
DwellBuckets(r) == [s \in SamplesOf(r) |-> DwellBucket(s.scores[r])]

\* A dwell time is a number where somebody flows, and unknown elsewhere.
LEMMA DwellReads ==
  ASSUME IInv, NEW r \in Route, NEW s \in SamplesOf(r)
  PROVE  /\ KeysOfDwell(r)[s].flow = FlowBuckets(r)[s]
         /\ KeysOfDwell(r)[s].dwell = DwellBuckets(r)[s]
         /\ FlowBuckets(r)[s] \in Int
         /\ FlowBuckets(r)[s] = Bucket(s.scores[r].flow)
         /\ DwellBuckets(r)[s] = DwellBucket(s.scores[r])
         /\ DwellBuckets(r)[s] # Null <=> s.scores[r].flow > 0
         /\ DwellBuckets(r)[s] # Null => DwellBuckets(r)[s] \in Int
<1> DEFINE x == s.scores[r]
<1>1. x \in Sample /\ x.flow \in Nat /\ x.stagnation \in Nat
  BY SamplesRead DEF Sample
<1>2. /\ KeysOfDwell(r)[s] = DwellKeyOf(r, s.end, x)
      /\ FlowBuckets(r)[s] = Bucket(x.flow) /\ DwellBuckets(r)[s] = DwellBucket(x)
  BY DEF KeysOfDwell, FlowBuckets, DwellBuckets
<1> HIDE DEF x
<1>3. KeysOfDwell(r)[s].flow = Bucket(x.flow) /\ KeysOfDwell(r)[s].dwell = DwellBucket(x)
  BY <1>2 DEF DwellKeyOf
<1>4. Bucket(x.flow) \in Nat
  BY <1>1, BucketType
<1>5. x.flow > 0 => DwellBucket(x) \in Nat
  <2> SUFFICES ASSUME x.flow > 0
               PROVE  DwellBucket(x) \in Nat
    OBVIOUS
  <2>1. CeilDiv(x.stagnation, x.flow) \in Nat
    BY <1>1 DEF CeilDiv
  <2> QED
    BY <2>1, BucketType DEF DwellBucket
<1>6. ~ (x.flow > 0) => DwellBucket(x) = Null
  BY DEF DwellBucket
<1>7. Null \notin Nat
  BY ArcAssumption
<1> QED
  BY <1>1, <1>2, <1>3, <1>4, <1>5, <1>6, <1>7 DEF x

\* Counts of the rows of R by their buckets of flow and of dwell time.
FlowCounts(R) == CountBy(R, LAMBDA k : k.flow, LAMBDA k : dwell[k].count)
DwellCounts(R) == CountBy(R, LAMBDA k : k.dwell, LAMBDA k : dwell[k].count)

LEMMA DwellCountsRead ==
  ASSUME IInv, NEW r \in Route, NEW since,
         NEW R \in SUBSET Rows(dwell, r, since),
         NEW B, B = {s \in SamplesOf(r) : KeysOfDwell(r)[s] \in R}
  PROVE  /\ IsFiniteSet(B) /\ B \subseteq SamplesOf(r) /\ (R = {} <=> B = {})
         /\ CountsOf(FlowCounts(R), B, FlowBuckets(r))
         /\ CountsOf(DwellCounts(R), B, DwellBuckets(r))
<1> DEFINE K == KeysOfDwell(r)
           n == [k \in R |-> dwell[k].count]
           f == [k \in R |-> k.flow]
           d == [k \in R |-> k.dwell]
<1>1. FiledBy(dwell, K, r)
  BY TablesAreFiled
<1>2. IsFiniteSet(B) /\ B \subseteq SamplesOf(r)
  BY SamplesRead, FS_Subset
<1>3. R = {K[s] : s \in B}
  <2>1. \A k \in R : k \in DOMAIN dwell /\ k.route = r
    BY DEF Rows, Current
  <2> HIDE DEF K
  <2>2. \A k \in R : \E s \in SamplesOf(r) : K[s] = k
    BY <1>1, <2>1 DEF FiledBy
  <2> QED
    BY <2>2 DEF K
<1>4. \A k \in R : n[k] = Cardinality({s \in B : K[s] = k})
  <2> SUFFICES ASSUME NEW k \in R
               PROVE  dwell[k].count = Cardinality({s \in B : K[s] = k})
    OBVIOUS
  <2> HIDE DEF K
  <2>1. PICK s \in SamplesOf(r) : K[s] = k
    BY <1>2, <1>3
  <2>2. dwell[k].count = Cardinality(With(K, k))
    BY <1>1, <2>1 DEF FiledBy
  <2>3. With(K, k) = {t \in B : K[t] = k}
    BY <1>1 DEF With, FiledBy, K
  <2> QED
    BY <2>2, <2>3
<1>5. FlowCounts(R) = [q \in {f[k] : k \in R} |-> SumOver(n, {k \in R : f[k] = q})]
  <2>1. {k.flow : k \in R} = {f[k] : k \in R}
    OBVIOUS
  <2>2. ASSUME NEW q
        PROVE  SumFunction([x \in {k \in R : k.flow = q} |-> dwell[x].count]) =
                 SumOver(n, {k \in R : f[k] = q})
    <3>1. [x \in {k \in R : k.flow = q} |-> dwell[x].count] =
            [x \in {k \in R : f[k] = q} |-> n[x]]
      OBVIOUS
    <3> QED
      BY <3>1, Zenon DEF SumOver
  <2>3. FlowCounts(R) =
          [q \in {k.flow : k \in R} |->
             SumFunction([x \in {k \in R : k.flow = q} |-> dwell[x].count])]
    BY DEF FlowCounts, CountBy, Total
  <2> QED
    BY <2>1, <2>2, <2>3
<1>6. DwellCounts(R) = [q \in {d[k] : k \in R} |-> SumOver(n, {k \in R : d[k] = q})]
  <2>1. {k.dwell : k \in R} = {d[k] : k \in R}
    OBVIOUS
  <2>2. ASSUME NEW q
        PROVE  SumFunction([x \in {k \in R : k.dwell = q} |-> dwell[x].count]) =
                 SumOver(n, {k \in R : d[k] = q})
    <3>1. [x \in {k \in R : k.dwell = q} |-> dwell[x].count] =
            [x \in {k \in R : d[k] = q} |-> n[x]]
      OBVIOUS
    <3> QED
      BY <3>1, Zenon DEF SumOver
  <2>3. DwellCounts(R) =
          [q \in {k.dwell : k \in R} |->
             SumFunction([x \in {k \in R : k.dwell = q} |-> dwell[x].count])]
    BY DEF DwellCounts, CountBy, Total
  <2> QED
    BY <2>1, <2>2, <2>3
<1>7. \A s \in B : FlowBuckets(r)[s] = f[K[s]] /\ DwellBuckets(r)[s] = d[K[s]]
  BY DwellReads
<1>8. CountedBy(FlowCounts(R), R, n, f) /\ CountedBy(DwellCounts(R), R, n, d)
  BY <1>5, <1>6 DEF CountedBy
<1> HIDE DEF K, n, f, d
<1>9. CountsOf(FlowCounts(R), B, FlowBuckets(r))
  BY <1>2, <1>3, <1>4, <1>7, <1>8, CountsRead
<1>10. CountsOf(DwellCounts(R), B, DwellBuckets(r))
  BY <1>2, <1>3, <1>4, <1>7, <1>8, CountsRead
<1> QED
  BY <1>2, <1>3, <1>9, <1>10

\* What FreeFlowIsOfSamples asks of a summary d of the samples A.
FreeFlowFits(d, r, A) ==
  IF A = {} THEN d = Null ELSE
    /\ IsFlowQuantile(d.flowP90, r, A, HighRank)
    /\ IF FreeFlow(r, A) = {} THEN d.freeFlowDwell = Null
       ELSE IsDwellQuantile(d.freeFlowDwell, r, FreeFlow(r, A), <<1, 2>>)

LEMMA RanksRead ==
  ASSUME NEW r, NEW A \in SUBSET SamplesOf(r), NEW q, NEW rank
  PROVE  /\ IsFlowQuantile(q, r, A, rank) <=> IsRank(q, A, FlowBuckets(r), rank)
         /\ IsDwellQuantile(q, r, A, rank) <=> IsRank(q, A, DwellBuckets(r), rank)
<1> DEFINE x == FlowBuckets(r)
           y == DwellBuckets(r)
<1>1. /\ \A s \in A : x[s] = Bucket(s.scores[r].flow)
      /\ \A s \in A : y[s] = DwellBucket(s.scores[r])
  BY DEF FlowBuckets, DwellBuckets
<1> HIDE DEF x, y
<1>2. /\ {s \in A : x[s] < q} = {s \in A : Bucket(s.scores[r].flow) < q}
      /\ {s \in A : x[s] > q} = {s \in A : Bucket(s.scores[r].flow) > q}
      /\ (\E s \in A : x[s] = q) <=> \E s \in A : Bucket(s.scores[r].flow) = q
  BY <1>1
<1>3. /\ {s \in A : y[s] < q} = {s \in A : DwellBucket(s.scores[r]) < q}
      /\ {s \in A : y[s] > q} = {s \in A : DwellBucket(s.scores[r]) > q}
      /\ (\E s \in A : y[s] = q) <=> \E s \in A : DwellBucket(s.scores[r]) = q
  BY <1>1
<1>4. IsFlowQuantile(q, r, A, rank) <=> IsRank(q, A, x, rank)
  BY <1>2, Zenon DEF IsFlowQuantile, IsRank, IsQuantile
<1>5. IsDwellQuantile(q, r, A, rank) <=> IsRank(q, A, y, rank)
  BY <1>3, Zenon DEF IsDwellQuantile, IsRank, IsQuantile
<1> QED
  BY <1>4, <1>5 DEF x, y

FreeRows(R, p25, p75) == {k \in R : k.dwell # Null /\ InFreeFlowBand(k.flow, p25, p75)}

DwellIn(r, R) == {s \in SamplesOf(r) : KeysOfDwell(r)[s] \in R}

\* The samples of free flow are those filed in the rows of free flow.
LEMMA FreeFlowRows ==
  ASSUME IInv, NEW r \in Route, NEW R,
         NEW A, A = DwellIn(r, R),
         NEW p25, IsRank(p25, A, FlowBuckets(r), LowerRank),
         NEW p75, IsRank(p75, A, FlowBuckets(r), UpperRank)
  PROVE  FreeFlow(r, A) = DwellIn(r, FreeRows(R, p25, p75))
<1> DEFINE K == KeysOfDwell(r)
           flow == FlowBuckets(r)
           free == {s \in SamplesOf(r) : K[s] \in FreeRows(R, p25, p75)}
<1>1. IsFiniteSet(A) /\ A \in SUBSET SamplesOf(r)
  BY SamplesRead, FS_Subset DEF DwellIn
<1>2. /\ \A s \in A : K[s].flow = flow[s] /\ flow[s] \in Int
      /\ \A s \in A : flow[s] = Bucket(s.scores[r].flow)
      /\ \A s \in A : K[s].dwell # Null <=> s.scores[r].flow > 0
  BY <1>1, DwellReads
<1>3. LowerRank \in Rank /\ UpperRank \in Rank
  BY ArcAssumption DEF Rank
<1>4. (\E t \in A : flow[t] = p25) /\ (\E u \in A : flow[u] = p75)
  BY RankReads
<1>5. /\ \A t \in A : IsFlowQuantile(flow[t], r, A, LowerRank) <=> flow[t] = p25
      /\ \A u \in A : IsFlowQuantile(flow[u], r, A, UpperRank) <=> flow[u] = p75
  <2>1. /\ \A q : IsFlowQuantile(q, r, A, LowerRank) <=> IsRank(q, A, flow, LowerRank)
        /\ \A q : IsFlowQuantile(q, r, A, UpperRank) <=> IsRank(q, A, flow, UpperRank)
    BY <1>1, RanksRead
  <2>2. \A s \in A : flow[s] \in Int
    BY <1>2
  <2>3. IsRank(p25, A, flow, LowerRank) /\ IsRank(p75, A, flow, UpperRank)
    OBVIOUS
  <2> HIDE DEF flow
  <2>4. \A q : IsRank(q, A, flow, LowerRank) => q = p25
    BY <1>1, <1>3, <2>2, <2>3, QuantileIsUnique
  <2>5. \A q : IsRank(q, A, flow, UpperRank) => q = p75
    BY <1>1, <1>3, <2>2, <2>3, QuantileIsUnique
  <2> QED
    BY <2>1, <2>3, <2>4, <2>5
<1>6. A = {s \in SamplesOf(r) : K[s] \in R}
  BY DEF DwellIn
<1> HIDE DEF K, flow
<1>7. free = {s \in A : s.scores[r].flow > 0 /\ p25 <= flow[s] /\ flow[s] <= p75}
  BY <1>2, <1>6 DEF FreeRows, InFreeFlowBand
<1>8. ASSUME NEW s \in FreeFlow(r, A)
      PROVE  s \in A /\ s.scores[r].flow > 0 /\ p25 <= flow[s] /\ flow[s] <= p75
  <2>1. s \in A /\ s.scores[r].flow > 0
    BY <1>8 DEF FreeFlow
  <2>2. PICK t \in A, u \in A :
          /\ IsFlowQuantile(Bucket(t.scores[r].flow), r, A, LowerRank)
          /\ IsFlowQuantile(Bucket(u.scores[r].flow), r, A, UpperRank)
          /\ Bucket(s.scores[r].flow) \in Bucket(t.scores[r].flow)..Bucket(u.scores[r].flow)
    BY <1>8, Zenon DEF FreeFlow
  <2>3. IsFlowQuantile(flow[t], r, A, LowerRank) /\ IsFlowQuantile(flow[u], r, A, UpperRank)
    BY <1>2, <2>2, Zenon
  <2>4. flow[s] \in flow[t]..flow[u]
    BY <1>2, <2>1, <2>2, Zenon
  <2>5. flow[t] = p25 /\ flow[u] = p75
    BY <1>5, <2>3
  <2>6. flow[s] \in Int /\ flow[t] \in Int /\ flow[u] \in Int
    BY <1>2, <2>1
  <2> QED
    BY <2>1, <2>4, <2>5, <2>6
<1>9. ASSUME NEW s \in A, s.scores[r].flow > 0, p25 <= flow[s], flow[s] <= p75
      PROVE  s \in FreeFlow(r, A)
  <2>1. PICK t \in A : flow[t] = p25
    BY <1>4
  <2>2. PICK u \in A : flow[u] = p75
    BY <1>4
  <2>3. IsFlowQuantile(flow[t], r, A, LowerRank) /\ IsFlowQuantile(flow[u], r, A, UpperRank)
    BY <1>5, <2>1, <2>2
  <2>4. flow[s] \in flow[t]..flow[u]
    BY <1>2, <1>9, <2>1, <2>2
  <2>5. /\ IsFlowQuantile(Bucket(t.scores[r].flow), r, A, LowerRank)
        /\ IsFlowQuantile(Bucket(u.scores[r].flow), r, A, UpperRank)
        /\ Bucket(s.scores[r].flow) \in Bucket(t.scores[r].flow)..Bucket(u.scores[r].flow)
    BY <1>2, <2>3, <2>4, Zenon
  <2> QED
    BY <1>9, <2>5, Zenon DEF FreeFlow
<1> QED
  BY <1>7, <1>8, <1>9 DEF K, DwellIn

LEMMA FreeFlowHolds ==
  IInv => FreeFlowIsOfSamples
<1> SUFFICES ASSUME IInv, NEW r \in Route, NEW since \in Since
             PROVE  FreeFlowFits(SummarizeArcFlowDwell(r, since), r, DwellSamples(r, since))
  BY Zenon DEF FreeFlowIsOfSamples, FreeFlowFits
<1> DEFINE d == SummarizeArcFlowDwell(r, since)
           R == Rows(dwell, r, since)
           A == UsedDwell(r, since)
           flow == FlowBuckets(r)
           p25 == Quantile(FlowCounts(R), LowerRank)
           p75 == Quantile(FlowCounts(R), UpperRank)
           p90 == Quantile(FlowCounts(R), HighRank)
           Q == FreeRows(R, p25, p75)
           free == FreeFlow(r, A)
           median == Quantile(DwellCounts(Q), <<1, 2>>)
<1>1. DwellSamples(r, since) = A
  BY UsedDwellReads
<1>2. A = {s \in SamplesOf(r) : KeysOfDwell(r)[s] \in R}
  <2> DEFINE K == KeysOfDwell(r)
  <2>1. FiledBy(dwell, K, r) /\ A = Used(r, since, K)
    BY TablesAreFiled DEF UsedDwell
  <2> HIDE DEF K
  <2> QED
    BY <2>1, UsedAreFiled DEF K
<1>3. /\ IsFiniteSet(A) /\ A \in SUBSET SamplesOf(r) /\ (R = {} <=> A = {})
      /\ CountsOf(FlowCounts(R), A, flow)
  <2>1. R \in SUBSET Rows(dwell, r, since)
    OBVIOUS
  <2> HIDE DEF R, A
  <2> QED
    BY <1>2, <2>1, DwellCountsRead
<1>4. d = IF R = {} THEN Null ELSE
            [flowP90 |-> p90,
             freeFlowDwell |-> IF Q = {} THEN Null ELSE median,
             span |-> Span(dwell, R)]
  BY Zenon DEF SummarizeArcFlowDwell, FlowCounts, DwellCounts, Rows, FreeRows
<1>5. CASE A = {}
  <2>1. d = Null
    BY <1>3, <1>4, <1>5, Zenon
  <2> QED
    BY <1>1, <1>5, <2>1, Zenon DEF FreeFlowFits
<1>6. CASE A # {}
  <2>1. /\ d.flowP90 = p90
        /\ d.freeFlowDwell = IF Q = {} THEN Null ELSE median
    <3>1. R # {}
      BY <1>3, <1>6
    <3> HIDE DEF d, R, A, Q, p90, median
    <3> QED
      BY <1>4, <3>1
  <2>2. /\ IsRank(p25, A, flow, LowerRank) /\ IsRank(p75, A, flow, UpperRank)
        /\ IsRank(p90, A, flow, HighRank)
    <3>1. {LowerRank, UpperRank, HighRank} \subseteq Rank
      BY ArcAssumption DEF Rank
    <3>2. \A s \in A : flow[s] \in Int
      BY <1>3, DwellReads
    <3> DEFINE count == FlowCounts(R)
    <3>3. CountsOf(count, A, flow)
      BY <1>3
    <3> HIDE DEF count, A, flow
    <3>4. \A rank \in Rank : IsRank(Quantile(count, rank), A, flow, rank)
      BY <1>3, <1>6, <3>2, <3>3, QuantileReads
    <3> QED
      BY <3>1, <3>4 DEF count
  <2>3. free = {s \in SamplesOf(r) : KeysOfDwell(r)[s] \in Q}
    <3>1. IsRank(p25, A, FlowBuckets(r), LowerRank) /\ IsRank(p75, A, FlowBuckets(r), UpperRank)
      BY <2>2
    <3> HIDE DEF R, A, p25, p75
    <3>2. A = DwellIn(r, R)
      BY <1>2 DEF DwellIn
    <3>3. FreeFlow(r, A) = DwellIn(r, FreeRows(R, p25, p75))
      BY <3>1, <3>2, FreeFlowRows
    <3> QED
      BY <3>3 DEF DwellIn
  <2>4. /\ IsFiniteSet(free) /\ free \in SUBSET SamplesOf(r) /\ (Q = {} <=> free = {})
        /\ CountsOf(DwellCounts(Q), free, DwellBuckets(r))
    <3>1. Q \in SUBSET Rows(dwell, r, since)
      BY DEF FreeRows
    <3> HIDE DEF Q, free
    <3> QED
      BY <2>3, <3>1, DwellCountsRead
  <2>5. IsFlowQuantile(d.flowP90, r, A, HighRank)
    <3> HIDE DEF d, A, p90
    <3> QED
      BY <1>3, <2>1, <2>2, RanksRead
  <2>6. CASE free = {}
    <3>1. d.freeFlowDwell = Null
      <4> HIDE DEF d, Q, free, median
      <4> QED
        BY <2>1, <2>4, <2>6
    <3> QED
      BY <1>1, <1>6, <2>5, <2>6, <3>1, Zenon DEF FreeFlowFits
  <2>7. CASE free # {}
    <3>1. d.freeFlowDwell = median
      <4> HIDE DEF d, Q, free, median
      <4> QED
        BY <2>1, <2>4, <2>7
    <3>2. <<1, 2>> \in Rank
      BY DEF Rank
    <3>3. \A s \in free : DwellBuckets(r)[s] \in Int
      <4>1. \A s \in free : s \in SamplesOf(r) /\ s.scores[r].flow > 0
        BY <2>4 DEF FreeFlow
      <4> QED
        BY <4>1, DwellReads
    <3>4. IsRank(median, free, DwellBuckets(r), <<1, 2>>)
      <4> HIDE DEF Q, free
      <4> QED
        BY <2>4, <2>7, <3>2, <3>3, QuantileReads
    <3>5. IsDwellQuantile(d.freeFlowDwell, r, free, <<1, 2>>)
      <4> HIDE DEF d, free, median
      <4> QED
        BY <2>4, <3>1, <3>4, RanksRead
    <3> QED
      BY <1>1, <1>6, <2>5, <2>7, <3>5, Zenon DEF FreeFlowFits
  <2> QED
    BY <2>6, <2>7
<1> QED
  BY <1>5, <1>6

\* The dwell time of free flow is the median over the samples with a flow
\* between the quartiles, and a high flow the 90th percentile of the flows
\* (summarizeArcFlowDwell).
THEOREM FreeFlowsAreOfSamples ==
  Spec => []FreeFlowIsOfSamples
  BY FreeFlowHolds, InitInvariant, InvariantStep, PTL DEF Spec

-----------------------------------------------------------------------------
(* Established arcs *)

\* The samples behind the statistics are those that the summaries stand for.
LEMMA BehindIsUsed ==
  ASSUME IInv, NEW r \in Route, NEW since
  PROVE  /\ StagnationBehind(r, since) = Used(r, since, StagnationKeys(r))
         /\ DwellBehind(r, since) = Used(r, since, KeysOfDwell(r))
<1>1. /\ Used(r, since, StagnationKeys(r)) =
           {s \in SamplesOf(r) : StagnationKeys(r)[s] \in Rows(stagnation, r, since)}
      /\ Used(r, since, KeysOfDwell(r)) =
           {s \in SamplesOf(r) : KeysOfDwell(r)[s] \in Rows(dwell, r, since)}
  BY TablesAreFiled, UsedAreFiled
<1>2. /\ StagnationBehind(r, since) =
           UNION {Filed(snapshots, k) : k \in Rows(stagnation, r, since)}
      /\ DwellBehind(r, since) =
           UNION {FiledDwell(snapshots, k) : k \in Rows(dwell, r, since)}
  BY DEF StagnationBehind, DwellBehind, Rows
<1>3. /\ \A k \in Rows(stagnation, r, since) : Filed(snapshots, k) = With(StagnationKeys(r), k)
      /\ \A k \in Rows(dwell, r, since) : FiledDwell(snapshots, k) = With(KeysOfDwell(r), k)
  BY FiledReads DEF Rows
<1>4. DOMAIN StagnationKeys(r) = SamplesOf(r) /\ DOMAIN KeysOfDwell(r) = SamplesOf(r)
  BY DEF StagnationKeys, KeysOfDwell
<1>5. \A s : s \in StagnationBehind(r, since) <=> s \in Used(r, since, StagnationKeys(r))
  BY <1>1, <1>2, <1>3, <1>4 DEF With
<1>6. \A s : s \in DwellBehind(r, since) <=> s \in Used(r, since, KeysOfDwell(r))
  BY <1>1, <1>2, <1>3, <1>4 DEF With
<1> QED
  BY <1>5, <1>6

LEMMA HoursAreInts ==
  \A since \in Since : since \in Int
<1>1. ASSUME NEW e \in Window..(MaxTime + 1)
      PROVE  Hour(e) \in Int
  <2>1. Start(e) \in Nat /\ HourLength \in Nat \ {0}
    BY ArcAssumption DEF Start
  <2> QED
    BY <2>1, DivReads DEF Hour
<1> QED
  BY <1>1 DEF Since

\* Rows with the span have samples with it, and none from before the change.
LEMMA UsedIsEstablished ==
  ASSUME IInv, NEW r \in Route, NEW since \in Since, NEW table, NEW K, FiledBy(table, K, r),
         NEW R, R = Rows(table, r, since), R # {}, Span(table, R) >= MinSpan
  PROVE  Established(Used(r, since, K), r, since)
<1> DEFINE A == Used(r, since, K)
<1>1. A \in SUBSET SamplesOf(r) /\ A # {}
  BY SummaryOf
<1>2. A = {s \in SamplesOf(r) : Hour(s.end) >= since
                /\ K[s] \notin {K[l] : l \in {t \in SamplesOf(r) : t.end - Window < changedAt[r]}}}
  BY DEF Used, UsedSamples
<1>3. /\ \A s \in SamplesOf(r) : s.end \in Window..MaxTime /\ s.end \in Int
      /\ changedAt[r] \in Int /\ Window \in Int /\ MinSpan \in Int /\ since \in Int
  BY SamplesRead, HoursAreInts, ArcAssumption DEF IInv, TInv, TypeOK, Time
<1>4. Span(table, R) = Max({s.end : s \in A}) - Min({s.end : s \in A}) + Window
  BY <1>1, SpanReads
<1> HIDE DEF A
<1>5. ASSUME NEW s \in A
      PROVE  Start(s.end) >= changedAt[r] /\ Start(s.end) >= since
  <2>1. s \in SamplesOf(r) /\ Hour(s.end) >= since /\ ~ (s.end - Window < changedAt[r])
    BY <1>2
  <2>2. Hour(s.end) \in Int /\ Hour(s.end) <= s.end - Window
    BY <1>3, <2>1, HourReads, ArcAssumption DEF Start, Time
  <2> QED
    BY <1>3, <2>1, <2>2 DEF Start
<1>6. \E s, t \in A : t.end - Start(s.end) >= MinSpan
  <2>1. PICK s \in A : Min({u.end : u \in A}) = s.end
    BY <1>1, EndsRead
  <2>2. PICK t \in A : Last(A) = t.end
    BY <1>1, EndsRead
  <2>3. Span(table, R) = t.end - s.end + Window
    BY <1>4, <2>1, <2>2 DEF Last
  <2>4. s.end \in Int /\ t.end \in Int
    BY <1>1, <1>3
  <2>5. t.end - Start(s.end) >= MinSpan
    BY <1>3, <2>3, <2>4 DEF Start
  <2> QED
    BY <2>5
<1>7. Established(A, r, since)
  BY <1>5, <1>6 DEF Established
<1> QED
  BY <1>7 DEF A

\* A statistic is told only if there are rows, and they have the span.
LEMMA StatisticsRead ==
  ASSUME NEW since, NEW r \in DOMAIN FlowHistoryDigest(since).stats
  PROVE  /\ r \in Edge
         /\ r \in FlowHistoryDigest(since).established =>
              /\ Rows(stagnation, r, since) # {}
              /\ Span(stagnation, Rows(stagnation, r, since)) >= MinSpan
         /\ FlowHistoryDigest(since).stats[r].flowP90 # Null =>
              /\ Rows(dwell, r, since) # {}
              /\ Span(dwell, Rows(dwell, r, since)) >= MinSpan
<1> DEFINE h == SummarizeArcStagnation(r, since)
           d == SummarizeArcFlowDwell(r, since)
           stat == FlowHistoryDigest(since).stats[r]
           rows == Rows(stagnation, r, since)
           dwells == Rows(dwell, r, since)
<1>1. r \in Edge /\ h # Null /\ stat = ArcStat(r, since)
  BY DEF FlowHistoryDigest
<1>2. r \in FlowHistoryDigest(since).established => stat.p90 # Null
  BY DEF FlowHistoryDigest
<1>3. /\ ArcStat(r, since).p90 # Null => h.span >= MinSpan
      /\ ArcStat(r, since).flowP90 # Null => d # Null /\ d.span >= MinSpan
  BY DEF ArcStat
<1>4. h # Null => rows # {} /\ h.span = Span(stagnation, rows)
  <2>1. PICK p90, all, sameSensor :
          h = IF rows = {} THEN Null
              ELSE [p90 |-> p90, all |-> all, sameSensor |-> sameSensor,
                    span |-> Span(stagnation, rows)]
    BY Zenon DEF SummarizeArcStagnation, Rows
  <2> HIDE DEF h, rows
  <2> QED
    BY <2>1
<1>5. d # Null => dwells # {} /\ d.span = Span(dwell, dwells)
  <2>1. PICK flowP90, freeFlowDwell :
          d = IF dwells = {} THEN Null
              ELSE [flowP90 |-> flowP90, freeFlowDwell |-> freeFlowDwell,
                    span |-> Span(dwell, dwells)]
    BY Zenon DEF SummarizeArcFlowDwell, Rows
  <2> HIDE DEF d, dwells
  <2> QED
    BY <2>1
<1> HIDE DEF h, d, stat, rows, dwells
<1>6. stat.p90 # Null => rows # {} /\ Span(stagnation, rows) >= MinSpan
  BY <1>1, <1>3, <1>4
<1>7. stat.flowP90 # Null => dwells # {} /\ Span(dwell, dwells) >= MinSpan
  BY <1>1, <1>3, <1>5
<1> QED
  BY <1>1, <1>2, <1>6, <1>7 DEF stat, rows, dwells

LEMMA EstablishedHolds ==
  IInv => EstablishedAfterChange
<1> SUFFICES ASSUME IInv, NEW since \in Since,
                    NEW r \in DOMAIN FlowHistoryDigest(since).stats
             PROVE  /\ r \in FlowHistoryDigest(since).established =>
                         Established(StagnationBehind(r, since), r, since)
                    /\ FlowHistoryDigest(since).stats[r].flowP90 # Null =>
                         Established(DwellBehind(r, since), r, since)
  BY Zenon DEF EstablishedAfterChange
<1>1. r \in Route
  BY StatisticsRead, ArcAssumption
<1>2. /\ StagnationBehind(r, since) = Used(r, since, StagnationKeys(r))
      /\ DwellBehind(r, since) = Used(r, since, KeysOfDwell(r))
  BY <1>1, BehindIsUsed
<1>3. FiledBy(stagnation, StagnationKeys(r), r) /\ FiledBy(dwell, KeysOfDwell(r), r)
  BY <1>1, TablesAreFiled
<1>4. ASSUME r \in FlowHistoryDigest(since).established
      PROVE  Established(StagnationBehind(r, since), r, since)
  <2>1. /\ Rows(stagnation, r, since) # {}
        /\ Span(stagnation, Rows(stagnation, r, since)) >= MinSpan
    BY <1>4, StatisticsRead
  <2> QED
    BY <1>1, <1>2, <1>3, <2>1, UsedIsEstablished
<1>5. ASSUME FlowHistoryDigest(since).stats[r].flowP90 # Null
      PROVE  Established(DwellBehind(r, since), r, since)
  <2>1. /\ Rows(dwell, r, since) # {}
        /\ Span(dwell, Rows(dwell, r, since)) >= MinSpan
    BY <1>5, StatisticsRead
  <2> QED
    BY <1>1, <1>2, <1>3, <2>1, UsedIsEstablished
<1> QED
  BY <1>4, <1>5

\* What Flow is told of an arc was observed over MinSpan, and no sample behind it
\* begins before the recorded change of the arc's sensors, however many cycles
\* save at the same time (FlowHistoryDigest, docs/observation_spec.md:398).
THEOREM EstablishedIsAfterChange ==
  Spec => []EstablishedAfterChange
  BY EstablishedHolds, InitInvariant, InvariantStep, PTL DEF Spec
=============================================================================
