----------------------------- MODULE RowsProofs -----------------------------
(***************************************************************************)
(* What a LIMIT gives: at most n rows, and a row it leaves out has n rows  *)
(* before it. The rows before a row are counted, so that two rows that are *)
(* kept have different counts below n.                                     *)
(***************************************************************************)
EXTENDS Rows, FiniteSetTheorems, FunctionTheorems, TLAPS

(* Different counts below n bound a set. *)
LEMMA CountInjection ==
    ASSUME NEW n \in Nat, NEW S, NEW T \in SUBSET S, NEW count \in [S -> Nat],
           \A i \in T : count[i] < n, \A i, k \in S : i # k => count[i] # count[k]
    PROVE  IsFiniteSet(T) /\ Cardinality(T) <= n
<1>. DEFINE f == [i \in T |-> count[i]]
<1>1. f \in [T -> 0..(n - 1)] /\ \A i, k \in T : f[i] = f[k] => i = k
    <2>1. \A i \in T : count[i] \in 0..(n - 1)
        <3>1. \A i \in T : count[i] \in Nat /\ count[i] < n
            OBVIOUS
        <3>. QED BY <3>1
    <2>. QED BY <2>1
<1>2. f \in Injection(T, 0..(n - 1))
    <2>. HIDE DEF f
    <2>. QED BY <1>1, Fun_IsInj
<1>3. IsFiniteSet(0..(n - 1)) /\ Cardinality(0..(n - 1)) = n
    BY FS_Interval
<1>. HIDE DEF f
<1>. QED BY <1>2, <1>3, FS_Injection

(* The last n rows are rows, and no more than n. *)
LEMMA NewestBounded ==
    ASSUME NEW n \in Nat, NEW S \in SUBSET Int, IsFiniteSet(S)
    PROVE  /\ Newest(n, S) \subseteq S /\ IsFiniteSet(Newest(n, S))
           /\ Cardinality(Newest(n, S)) <= n
<1>. DEFINE After == [i \in S |-> {j \in S : j > i}]
            count == [i \in S |-> Cardinality(After[i])]
<1>1. Newest(n, S) \in SUBSET S /\ \A i \in Newest(n, S) : count[i] < n
    BY DEF Newest
<1>2. ASSUME NEW i \in S, NEW k \in S, k > i
      PROVE  After[k] \cup {k} \in SUBSET After[i] /\ k \notin After[k]
    <2>1. ASSUME NEW j \in S, j > k PROVE j > i
        <3>1. j \in Int /\ k \in Int /\ i \in Int
            OBVIOUS
        <3>. QED BY ONLY <1>2, <2>1, <3>1
    <2>2. ~(k > k)
        <3>1. k \in Int
            OBVIOUS
        <3>. QED BY ONLY <3>1
    <2>. QED BY <1>2, <2>1, <2>2
<1>3. \A i \in S : IsFiniteSet(After[i]) /\ count[i] = Cardinality(After[i]) /\ count[i] \in Nat
    BY FS_Subset, FS_CardinalityType
<1>. HIDE DEF After
<1>4. ASSUME NEW i \in S, NEW k \in S, k > i PROVE count[k] < count[i]
    <2>1. Cardinality(After[k] \cup {k}) = count[k] + 1
        BY <1>2, <1>3, <1>4, FS_AddElement
    <2>2. Cardinality(After[k] \cup {k}) <= count[i]
        BY <1>2, <1>3, <1>4, FS_Subset
    <2>3. count[k] \in Nat /\ count[i] \in Nat
        BY <1>3
    <2>. HIDE DEF count
    <2>. QED BY <2>1, <2>2, <2>3
<1>5. count \in [S -> Nat]
    BY <1>3
<1>6. \A i, k \in S : k > i => count[k] # count[i]
    <2>. HIDE DEF count
    <2>. QED BY <1>4, <1>5
<1>. HIDE DEF count
<1>7. \A i, k \in S : i # k => count[i] # count[k]
    <2>1. ASSUME NEW i \in S, NEW k \in S, i # k PROVE i < k \/ k < i
        <3>1. i \in Int /\ k \in Int
            OBVIOUS
        <3>. QED BY ONLY <2>1, <3>1
    <2>. QED BY <1>6, <2>1
<1>. QED BY <1>1, <1>5, <1>7, CountInjection

(* A row that is left out has n rows on its other side. *)
LEMMA LeftOut ==
    ASSUME NEW n \in Nat, NEW S \in SUBSET Int, IsFiniteSet(S), NEW i \in S
    PROVE  /\ i \in Oldest(n, S) \/ Cardinality({j \in S : j < i}) >= n
           /\ i \in Newest(n, S) \/ Cardinality({j \in S : j > i}) >= n
<1>1. Cardinality({j \in S : j < i}) \in Nat /\ Cardinality({j \in S : j > i}) \in Nat
    BY FS_Subset, FS_CardinalityType
<1>. QED BY <1>1 DEF Oldest, Newest

=============================================================================
