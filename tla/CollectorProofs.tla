-------------------------- MODULE CollectorProofs --------------------------
(***************************************************************************)
(* Theorems about the two classes of the collector that the path           *)
(* controller is fed by: the ring of weights of a path and the line        *)
(* through them (PathInfos), for every capacity of the ring, all weights   *)
(* and all instants, and the parser of INT reports (IntReport), for every  *)
(* packet.                                                                 *)
(***************************************************************************)
EXTENDS PathInfos, IntReport, FiniteSetTheorems, WellFoundedInduction, TLAPS

-----------------------------------------------------------------------------
(* Folds: each is a function over the subsets of what it runs over.        *)

(* The lowest number of a set of naturals. *)
LEMMA LowestNat ==
  ASSUME NEW T \in SUBSET Nat, T # {}
  PROVE  \E x \in T : \A y \in T : x <= y
<1> DEFINE R == OpToRel(<, Nat)
<1>1. \A x, y \in Nat : y < x => <<y, x>> \in R
  BY DEF OpToRel
<1>2. IsWellFoundedOn(R, Nat)
  BY NatLessThanWellFounded
<1> HIDE DEF R
<1>3. PICK x \in T : \A y \in T : <<y, x>> \notin R
  BY <1>2, WFMin
<1>4. \A y \in T : ~ (y < x)
  BY <1>1, <1>3
<1>5. \A y \in T : x \in Nat /\ y \in Nat
  OBVIOUS
<1> QED
  BY <1>4, <1>5

(* The highest number of a finite set of naturals. *)
LEMMA MaxOf ==
  ASSUME NEW n \in Nat, NEW T \in SUBSET (0..n), T # {}
  PROVE  Max(T) \in T /\ \A y \in T : y <= Max(T)
<1> DEFINE U == {n - y : y \in T}
<1>1. \A y \in T : y \in 0..n
  OBVIOUS
<1>2. U \in SUBSET Nat /\ U # {}
  BY <1>1
<1>3. PICK x \in U : \A y \in U : x <= y
  BY <1>2, LowestNat
<1>4. PICK m \in T : x = n - m
  BY <1>3
<1>5. \A y \in T : m >= y
  <2> SUFFICES ASSUME NEW y \in T PROVE m >= y
    OBVIOUS
  <2>1. x <= n - y
    BY <1>3
  <2> QED
    BY <1>4, <1>1, <2>1
<1>6. Max(T) \in T /\ \A y \in T : Max(T) >= y
  BY <1>4, <1>5 DEF Max
<1> QED
  BY <1>6, <1>1

(* What holds of the empty set and, for every other subset of D, follows   *)
(* from the subset without its picked element, holds of every subset.      *)
Inductive(D, pick, Good) ==
  /\ {} \in Good
  /\ \A s \in SUBSET D : s # {} => /\ pick[s] \in s
                                   /\ s \ {pick[s]} \in Good => s \in Good

(* Induction over the subsets, one element at a time. *)
LEMMA SubsetInduction ==
  ASSUME NEW D, IsFiniteSet(D), NEW pick, NEW Good, Inductive(D, pick, Good)
  PROVE  SUBSET D \subseteq Good
<1> DEFINE Bad == {s \in SUBSET D : s \notin Good}
<1> SUFFICES ASSUME Bad # {} PROVE FALSE
  OBVIOUS
<1> DEFINE Cards == {Cardinality(s) : s \in Bad}
<1>1. \A s \in SUBSET D : IsFiniteSet(s) /\ Cardinality(s) \in Nat
  BY FS_Subset, FS_CardinalityType
<1>2. Cards \in SUBSET Nat /\ Cards # {}
  BY <1>1
<1> HIDE DEF Cards
<1>3. PICK c \in Cards : \A d \in Cards : c <= d
  BY <1>2, LowestNat
<1>4. PICK s \in Bad : c = Cardinality(s)
  BY DEF Cards
<1>5. s # {} /\ pick[s] \in s /\ s \ {pick[s]} \notin Good
  BY <1>4 DEF Inductive
<1>6. s \ {pick[s]} \in Bad
  BY <1>5
<1>7. Cardinality(s \ {pick[s]}) = c - 1
  BY <1>1, <1>4, <1>5, FS_RemoveElement
<1>8. c <= c - 1 /\ c \in Nat
  BY <1>2, <1>3, <1>6, <1>7 DEF Cards
<1> QED
  BY <1>8

(* The function by which MapThenFoldSet is defined exists. *)
Picks(D, pick) == \A s \in SUBSET D : s # {} => pick[s] \in s
IsFold(D, base, pick, F, g) ==
  g = [s \in SUBSET D |-> IF s = {} THEN base ELSE F[<<pick[s], g[s \ {pick[s]}]>>]]

(* There is one for every operator with values in T. *)
LEMMA FoldExists ==
  ASSUME NEW D, IsFiniteSet(D), NEW T, NEW base \in T, NEW pick, Picks(D, pick),
         NEW F \in [D \X T -> T]
  PROVE  \E g \in [SUBSET D -> T] : IsFold(D, base, pick, F, g)
<1> DEFINE Image(f) == [s \in SUBSET D |->
                          IF s = {} THEN base ELSE F[<<pick[s], f[s \ {pick[s]}]>>]]
           Upto(f, n) == \A s \in SUBSET D : Cardinality(s) <= n => f[s] = Image(f)[s]
           Bad == {n \in Nat : ~ \E f \in [SUBSET D -> T] : Upto(f, n)}
<1>1. \A s \in SUBSET D : IsFiniteSet(s) /\ Cardinality(s) \in Nat
  BY FS_Subset, FS_CardinalityType
<1>2. \A s \in SUBSET D : s # {} => pick[s] \in s
  BY DEF Picks
<1>3. ASSUME NEW f \in [SUBSET D -> T] PROVE Image(f) \in [SUBSET D -> T]
  <2> SUFFICES ASSUME NEW s \in SUBSET D, s # {} PROVE F[<<pick[s], f[s \ {pick[s]}]>>] \in T
    OBVIOUS
  <2>1. pick[s] \in D /\ s \ {pick[s]} \in SUBSET D
    BY <1>2
  <2>2. f[s \ {pick[s]}] \in T
    BY <2>1
  <2> QED
    BY <2>1, <2>2
<1>4. Bad = {}
  <2> SUFFICES ASSUME Bad # {} PROVE FALSE
    OBVIOUS
  <2>1. PICK n \in Bad : \A m \in Bad : n <= m
    BY LowestNat
  <2>2. CASE n = 0
    <3>1. [s \in SUBSET D |-> base] \in [SUBSET D -> T]
      OBVIOUS
    <3>2. \A s \in SUBSET D : Cardinality(s) <= 0 => s = {}
      BY <1>1, FS_EmptySet
    <3>3. Upto([s \in SUBSET D |-> base], 0)
      BY <3>2
    <3> QED
      BY <2>1, <2>2, <3>1, <3>3
  <2>3. CASE n # 0
    <3>1. n \in Nat
      OBVIOUS
    <3>2. n - 1 \in Nat /\ ~ (n <= n - 1)
      BY <2>3, <3>1
    <3>3. n - 1 \notin Bad
      BY <2>1, <3>2
    <3>4. PICK f \in [SUBSET D -> T] : Upto(f, n - 1)
      BY <3>2, <3>3
    <3>5. Upto(Image(f), n)
      <4> SUFFICES ASSUME NEW s \in SUBSET D, Cardinality(s) <= n, s # {}
                   PROVE  f[s \ {pick[s]}] = Image(f)[s \ {pick[s]}]
        OBVIOUS
      <4>1. pick[s] \in s /\ s \ {pick[s]} \in SUBSET D
        BY <1>2
      <4>2. Cardinality(s \ {pick[s]}) = Cardinality(s) - 1 /\ Cardinality(s) \in Nat
        <5>1. IsFiniteSet(s) /\ Cardinality(s) \in Nat
          BY <1>1
        <5>2. \A x \in s : Cardinality(s \ {x}) = Cardinality(s) - 1
          BY <5>1, FS_RemoveElement
        <5> QED
          BY <4>1, <5>1, <5>2
      <4>3. Cardinality(s \ {pick[s]}) <= n - 1
        BY <3>1, <4>2
      <4> QED
        BY <3>4, <4>1, <4>3
    <3> QED
      BY <1>3, <2>1, <3>4, <3>5
  <2> QED
    BY <2>2, <2>3
<1>5. PICK f \in [SUBSET D -> T] : Upto(f, Cardinality(D))
  BY <1>1, <1>4
<1>6. \A s \in SUBSET D : f[s] = Image(f)[s]
  BY <1>1, <1>5, FS_Subset
<1>7. f = Image(f)
  BY <1>3, <1>6
<1> QED
  BY <1>7 DEF IsFold

-----------------------------------------------------------------------------
(* path_infos: the ring.                                                   *)

(* Until the ring is full the cells in use are the first ones, and index   *)
(* is behind them; then every cell is in use.                              *)
FillsInOrder == len < Size => index = len
CellsWritten == \A c \in Cells : c < len => weights[c] # None

(* first_t belongs to the oldest sample. *)
FirstIsOldest == len > 0 => first_t = times[CellOf(1)]

Typed ==
  /\ index \in Cells /\ len \in 0..Size
  /\ weights \in [Cells -> Weights \union {None}]
  /\ times \in [Cells -> Times]
  /\ first_t \in Times /\ last_t \in Times

IInv == Typed /\ FillsInOrder /\ CellsWritten /\ FirstIsOldest

-----------------------------------------------------------------------------

(* The cell of the k-th oldest of l samples when i is the next to write. *)
LEMMA CellFilling ==
  ASSUME NEW l \in 0..Size, NEW k \in 1..l
  PROVE  (l - l + (k - 1)) % Size = k - 1
BY SMT, PathInfosAssumption

LEMMA CellFull ==
  ASSUME NEW i \in Cells, NEW k \in 1..Size
  PROVE  (i - Size + (k - 1)) % Size
           = IF i + k - 1 < Size THEN i + k - 1 ELSE i + k - 1 - Size
BY SMT, PathInfosAssumption DEF Cells

LEMMA OldestFull ==
  ASSUME NEW i \in Cells
  PROVE  (i - Size + (1 - 1)) % Size = i
BY SMT, PathInfosAssumption DEF Cells

LEMMA NextCell ==
  ASSUME NEW i \in Cells
  PROVE  (i + 1) % Size = IF i + 1 < Size THEN i + 1 ELSE 0
BY SMT, PathInfosAssumption DEF Cells

(* Every cell CellOf names is one that was written. *)
LEMMA InvariantImpliesTypeOK == IInv => TypeOK
<1>1. SUFFICES ASSUME IInv, NEW k \in 1..len PROVE weights[CellOf(k)] # None
  BY DEF IInv, Typed, TypeOK
<1>2. CASE len < Size
  <2>1. CellOf(k) = k - 1
    BY <1>1, <1>2, CellFilling DEF CellOf, IInv, Typed, FillsInOrder
  <2> QED
    BY <1>1, <1>2, <2>1, PathInfosAssumption DEF IInv, Typed, CellsWritten, Cells
<1>3. CASE len = Size
  <2>1. CellOf(k) = IF index + k - 1 < Size THEN index + k - 1 ELSE index + k - 1 - Size
    BY <1>1, <1>3, CellFull DEF CellOf, IInv, Typed
  <2> QED
    BY <1>1, <1>3, <2>1, PathInfosAssumption DEF IInv, Typed, CellsWritten, Cells
<1> QED
  BY <1>1, <1>2, <1>3, PathInfosAssumption DEF IInv, Typed

LEMMA InitInvariant == Init => IInv
BY PathInfosAssumption
   DEF Init, IInv, Typed, FillsInOrder, CellsWritten, FirstIsOldest, Cells

(* AddWeight keeps the cells in order, and OldestAfter reads the oldest.   *)
LEMMA StepInvariant ==
  ASSUME IInv, NEW w \in Weights, NEW t \in Times, AddWeight(w, t)
  PROVE  IInv'
<1> USE PathInfosAssumption
<1>1. index' = IF index + 1 < Size THEN index + 1 ELSE 0
  BY NextCell DEF AddWeight, IInv, Typed
<1>2. /\ index' \in Cells /\ len' \in 0..Size
      /\ weights' \in [Cells -> Weights \union {None}]
      /\ times' \in [Cells -> Times] /\ last_t' \in Times
  BY <1>1 DEF AddWeight, IInv, Typed, Cells
<1>3. first_t' \in Times
  <2>1. (index + 1) % Size \in Cells
    BY <1>1, <1>2 DEF AddWeight
  <2> QED
    BY <1>2, <2>1 DEF AddWeight, OldestAfter, IInv, Typed
<1>4. FillsInOrder' /\ CellsWritten'
  <2>1. FillsInOrder'
    BY <1>1 DEF AddWeight, IInv, Typed, FillsInOrder, Cells
  <2>2. CellsWritten'
    BY <1>1 DEF AddWeight, IInv, Typed, FillsInOrder, CellsWritten, Cells
  <2> QED
    BY <2>1, <2>2
<1>5. FirstIsOldest'
  <2>1. CASE len = Size
    <3>1. len' = Size
      BY <2>1 DEF AddWeight, IInv, Typed
    <3>2. CellOf(1)' = index'
      BY <1>2, <3>1, OldestFull DEF CellOf
    <3>3. first_t' = times'[index']
      BY <2>1 DEF AddWeight, OldestAfter
    <3> QED
      BY <3>2, <3>3 DEF FirstIsOldest
  <2>2. CASE len < Size
    <3>1. len' = len + 1 /\ index = len
      BY <2>2 DEF AddWeight, IInv, Typed, FillsInOrder
    <3>2. CellOf(1)' = 0
      <4>1. CASE len + 1 < Size
        BY <1>1, <3>1, <4>1, CellFilling DEF CellOf, IInv, Typed
      <4>2. CASE len + 1 = Size
        BY <1>1, <1>2, <3>1, <4>2, CellFull DEF CellOf, Cells
      <4> QED
        BY <2>2, <4>1, <4>2 DEF IInv, Typed
    <3>3. CASE len = 0
      BY <3>1, <3>2, <3>3 DEF AddWeight, OldestAfter, FirstIsOldest, IInv, Typed
    <3>4. CASE len > 0
      <4>1. CellOf(1) = 0
        BY <2>2, <3>1, <3>4, CellFilling DEF CellOf, IInv, Typed
      <4> QED
        BY <2>2, <3>1, <3>2, <3>4, <4>1
           DEF AddWeight, OldestAfter, FirstIsOldest, IInv, Typed, Cells
    <3> QED
      BY <3>3, <3>4 DEF IInv, Typed
  <2> QED
    BY <2>1, <2>2 DEF IInv, Typed
<1> QED
  BY <1>2, <1>3, <1>4, <1>5 DEF IInv, Typed

LEMMA Invariant == Spec => []IInv
<1>1. IInv /\ [Next]_vars => IInv'
  <2>1. SUFFICES ASSUME IInv, [Next]_vars PROVE IInv'
    OBVIOUS
  <2>2. CASE Next
    BY <2>1, <2>2, StepInvariant DEF Next
  <2>3. CASE UNCHANGED vars
    BY <2>1, <2>3
       DEF vars, IInv, Typed, FillsInOrder, CellsWritten, FirstIsOldest, CellOf
  <2> QED
    BY <2>1, <2>2, <2>3
<1> QED
  BY InitInvariant, <1>1, PTL DEF Spec

(* path_infos.add_weight: the ring and its index always have their types,  *)
(* and no cell that counts as a sample is one that was never written.      *)
THEOREM TypeCorrect == Spec => []TypeOK
BY Invariant, InvariantImpliesTypeOK, PTL

-----------------------------------------------------------------------------
(* The refinement of SlidingWindow.                                        *)

SampleAt(k) == [w |-> weights[CellOf(k)], t |-> times[CellOf(k)]]
Samples == [k \in 1..len |-> SampleAt(k)]

(* Adding a sample to the ring adds it to the window, and drops the oldest *)
(* when the ring was full.                                                 *)
LEMMA StepRefines ==
  ASSUME IInv, NEW w \in Weights, NEW t \in Times, AddWeight(w, t)
  PROVE  Window!Add(w, t)
<1> USE PathInfosAssumption
<1> DEFINE s == [w |-> w, t |-> t]
           AnySample == [w : Weights \union {None}, t : Times]
<1>1. IInv'
  BY StepInvariant
<1>2. index' = IF index + 1 < Size THEN index + 1 ELSE 0
  BY NextCell DEF AddWeight, IInv, Typed
<1>3. \A k \in 1..len : CellOf(k) \in Cells
  BY CellFilling, CellFull DEF CellOf, IInv, Typed, FillsInOrder, Cells
<1>4. Samples \in Seq(AnySample) /\ Len(Samples) = len
  <2>1. \A k \in 1..len : SampleAt(k) \in AnySample
    BY <1>3 DEF SampleAt, IInv, Typed
  <2> QED
    BY <2>1 DEF Samples, IInv, Typed
<1>5. s \in AnySample
  OBVIOUS
<1>6. /\ Append(Samples, s) \in Seq(AnySample) /\ Len(Append(Samples, s)) = len + 1
      /\ \A k \in 1..(len + 1) : Append(Samples, s)[k] = IF k = len + 1 THEN s ELSE SampleAt(k)
  BY <1>4, <1>5 DEF Samples, IInv, Typed
<1>7. Samples' = Window!Kept(Append(Samples, s))
  <2>1. CASE len < Size
    <3>1. index = len /\ len' = len + 1
      BY <2>1 DEF AddWeight, IInv, Typed, FillsInOrder
    <3>2. Window!Kept(Append(Samples, s)) = Append(Samples, s)
      BY <1>6, <2>1 DEF Window!Kept, IInv, Typed
    <3>3. ASSUME NEW k \in 1..(len + 1) PROVE CellOf(k)' = k - 1
      <4>1. CASE len + 1 < Size
        BY <1>2, <3>1, <4>1, CellFilling DEF CellOf, IInv, Typed
      <4>2. CASE len + 1 = Size
        BY <1>2, <3>1, <4>2, CellFull DEF CellOf, Cells, IInv, Typed
      <4> QED
        BY <2>1, <4>1, <4>2 DEF IInv, Typed
    <3>4. ASSUME NEW k \in 1..len PROVE CellOf(k) = k - 1
      BY <2>1, <3>1, CellFilling DEF CellOf, IInv, Typed
    <3>5. ASSUME NEW k \in 1..(len + 1)
          PROVE  SampleAt(k)' = Append(Samples, s)[k]
      <4>1. CASE k = len + 1
        BY <1>6, <3>1, <3>3, <4>1 DEF SampleAt, AddWeight, IInv, Typed, Cells
      <4>2. CASE k \in 1..len
        <5>1. CellOf(k)' = k - 1 /\ CellOf(k) = k - 1 /\ k - 1 \in Cells /\ k - 1 # index
          BY <2>1, <3>1, <3>3, <3>4, <4>2 DEF IInv, Typed, Cells
        <5>2. weights'[k - 1] = weights[k - 1] /\ times'[k - 1] = times[k - 1]
          BY <5>1 DEF AddWeight, IInv, Typed
        <5>3. Append(Samples, s)[k] = SampleAt(k)
          BY <1>6, <4>2 DEF IInv, Typed
        <5> QED
          BY <5>1, <5>2, <5>3 DEF SampleAt
      <4>3. k = len + 1 \/ k \in 1..len
        BY DEF IInv, Typed
      <4> QED
        BY <4>1, <4>2, <4>3
    <3>6. Append(Samples, s) = [k \in 1..(len + 1) |-> Append(Samples, s)[k]]
      BY <1>6
    <3> QED
      BY <3>1, <3>2, <3>5, <3>6 DEF Samples
  <2>2. CASE len = Size
    <3>1. len' = Size
      BY <2>2 DEF AddWeight, IInv, Typed
    <3>2. Window!Kept(Append(Samples, s)) = Tail(Append(Samples, s))
      BY <1>6, <2>2 DEF Window!Kept, IInv, Typed
    <3>3. Tail(Append(Samples, s)) = [k \in 1..Size |-> Append(Samples, s)[k + 1]]
      BY <1>6, <2>2 DEF IInv, Typed
    <3>4. ASSUME NEW k \in 1..Size
          PROVE  SampleAt(k)' = Append(Samples, s)[k + 1]
      <4>1. CellOf(k)' = IF index' + k - 1 < Size THEN index' + k - 1 ELSE index' + k - 1 - Size
        BY <1>1, <3>1, CellFull DEF CellOf, IInv, Typed
      <4>2. CASE k = Size
        <5>1. CellOf(k)' = index
          BY <1>2, <4>1, <4>2 DEF IInv, Typed, Cells
        <5> QED
          BY <1>6, <2>2, <4>2, <5>1 DEF SampleAt, AddWeight, IInv, Typed
      <4>3. CASE k < Size
        <5>1. CellOf(k + 1) = IF index + k < Size THEN index + k ELSE index + k - Size
          BY <2>2, <4>3, CellFull DEF CellOf, IInv, Typed
        <5>2. CellOf(k)' = CellOf(k + 1) /\ CellOf(k + 1) # index /\ CellOf(k + 1) \in Cells
          BY <1>2, <4>1, <4>3, <5>1 DEF IInv, Typed, Cells
        <5>3. SampleAt(k)' = SampleAt(k + 1)
          BY <5>2 DEF SampleAt, AddWeight, IInv, Typed
        <5> QED
          BY <1>6, <2>2, <4>3, <5>3
      <4>4. k = Size \/ k < Size
        OBVIOUS
      <4> QED
        BY <4>2, <4>3, <4>4
    <3> QED
      BY <3>1, <3>2, <3>3, <3>4 DEF Samples
  <2> QED
    BY <2>1, <2>2 DEF IInv, Typed
<1>8. first_t' = Samples'[1].t
  <2>1. len' \in 1..Size /\ len' > 0
    BY DEF AddWeight, IInv, Typed
  <2>2. Samples'[1] = SampleAt(1)'
    BY <2>1 DEF Samples
  <2> QED
    BY <1>1, <2>1, <2>2 DEF SampleAt, IInv, FirstIsOldest
<1> QED
  BY <1>7, <1>8 DEF Window!Add, Samples, SampleAt, AddWeight

(* path_infos keeps exactly the last Size samples in the order in which    *)
(* they came, and the instants of the oldest and the newest of them, over  *)
(* any number of wraps of index.                                           *)
THEOREM RingIsSlidingWindow == Spec => IsSlidingWindow
<1>1. Init => Window!Init
  <2>1. SUFFICES ASSUME Init PROVE Samples = << >>
    BY DEF Init, Window!Init, Samples, SampleAt
  <2> QED
    BY <2>1 DEF Init, Samples
<1>2. IInv /\ [Next]_vars => [Window!Next]_<<Samples, first_t, last_t>>
  <2>1. SUFFICES ASSUME IInv, [Next]_vars
                 PROVE  Window!Next \/ UNCHANGED <<Samples, first_t, last_t>>
    OBVIOUS
  <2>2. CASE Next
    BY <2>1, <2>2, StepRefines DEF Next, Window!Next
  <2>3. CASE UNCHANGED vars
    BY <2>3 DEF vars, Samples, SampleAt, CellOf
  <2> QED
    BY <2>1, <2>2, <2>3
<1> QED
  BY Invariant, <1>1, <1>2, PTL
     DEF Spec, IsSlidingWindow, Window!Spec, Samples, SampleAt

-----------------------------------------------------------------------------
(* linreg.  The sums it is built from are folds.                           *)

(* The function that a sum computes. *)
IsSum(D, f, g) ==
  /\ g \in [SUBSET D -> Int]
  /\ g[{}] = 0
  /\ \A s \in SUBSET D : s # {} =>
       LET x == CHOOSE x \in s : TRUE IN x \in s /\ g[s] = f[x] + g[s \ {x}]

LEMMA SumIs ==
  ASSUME NEW D, IsFiniteSet(D), NEW f \in [D -> Int]
  PROVE  \E g : IsSum(D, f, g) /\ SumOver(f) = g[D]
<1> DEFINE iter[s \in SUBSET D] ==
             IF s = {} THEN 0
             ELSE LET x == CHOOSE x \in s : TRUE IN f[x] + iter[s \ {x}]
           pick == [s \in SUBSET D |-> CHOOSE x \in s : TRUE]
           F == [p \in D \X Int |-> f[p[1]] + p[2]]
           Rhs(g) == [s \in SUBSET D |->
                        IF s = {} THEN 0
                        ELSE LET x == CHOOSE x \in s : TRUE IN f[x] + g[s \ {x}]]
<1>1. SumOver(f) = iter[D]
  <2>1. DOMAIN f = D
    OBVIOUS
  <2> QED
    BY <2>1 DEF SumOver, FoldFunction, FoldFunctionOnSet, MapThenFoldSet
<1>2. \A s \in SUBSET D : s # {} => pick[s] \in s
  OBVIOUS
<1>3. Picks(D, pick)
  BY <1>2 DEF Picks
<1>4. F \in [D \X Int -> Int]
  OBVIOUS
<1>5. PICK g \in [SUBSET D -> Int] : IsFold(D, 0, pick, F, g)
  <2> HIDE DEF pick, F
  <2>1. 0 \in Int
    OBVIOUS
  <2> QED
    BY <1>3, <1>4, <2>1, FoldExists
<1>6. g = Rhs(g)
  <2>1. ASSUME NEW s \in SUBSET D, s # {}
        PROVE  F[<<pick[s], g[s \ {pick[s]}]>>] = f[pick[s]] + g[s \ {pick[s]}]
    <3>1. pick[s] \in D /\ s \ {pick[s]} \in SUBSET D
      BY <1>2, <2>1
    <3>2. g[s \ {pick[s]}] \in Int
      BY <3>1
    <3> HIDE DEF pick
    <3> QED
      BY <3>1, <3>2
  <2> QED
    BY <1>5, <2>1 DEF IsFold
<1>7. iter = CHOOSE h : h = Rhs(h)
  BY DEF iter
<1>8. iter = Rhs(iter)
  <2> HIDE DEF iter, Rhs
  <2> QED
    BY <1>6, <1>7
<1>9. \A s \in SUBSET D : s # {} => iter[s] = f[pick[s]] + iter[s \ {pick[s]}]
  BY <1>8
<1>10. iter[{}] = 0
  BY <1>8
<1>11. iter \in [SUBSET D -> Int]
  <2> DEFINE Good == {s \in SUBSET D : iter[s] \in Int}
  <2>1. ASSUME NEW s \in SUBSET D, s # {}
        PROVE  pick[s] \in s /\ (s \ {pick[s]} \in Good => s \in Good)
    <3>1. pick[s] \in s /\ f[pick[s]] \in Int
      BY <1>2, <2>1
    <3>2. iter[s] = f[pick[s]] + iter[s \ {pick[s]}]
      BY <1>9, <2>1
    <3> HIDE DEF iter, pick
    <3> QED
      BY <3>1, <3>2
  <2>2. {} \in Good
    BY <1>10
  <2>3. Inductive(D, pick, Good)
    <3> HIDE DEF Good, pick
    <3> QED
      BY <2>1, <2>2 DEF Inductive
  <2>4. SUBSET D \subseteq Good
    <3> HIDE DEF Good, pick
    <3> QED
      BY <2>3, SubsetInduction
  <2>5. iter = [s \in SUBSET D |-> iter[s]]
    BY <1>8
  <2> HIDE DEF iter
  <2> QED
    BY <2>4, <2>5
<1> HIDE DEF iter
<1> QED
  BY <1>1, <1>2, <1>9, <1>10, <1>11 DEF IsSum
LEMMA SumInt ==
  ASSUME NEW D, IsFiniteSet(D), NEW f \in [D -> Int]
  PROVE  SumOver(f) \in Int
<1>1. PICK g : IsSum(D, f, g) /\ SumOver(f) = g[D]
  BY SumIs
<1> QED
  BY <1>1 DEF IsSum

LEMMA Distribute ==
  ASSUME NEW c \in Int, NEW d \in Int, NEW x \in Int, NEW y \in Int,
         NEW u \in Int, NEW v \in Int
  PROVE  (c * x + d * u) + (c * y + d * v) = c * (x + y) + d * (u + v)
OBVIOUS

(* Sums are linear. *)
Combined(D, c, f, d, h) == [x \in D |-> c * f[x] + d * h[x]]

LEMMA SumLinear ==
  ASSUME NEW D, IsFiniteSet(D), NEW f \in [D -> Int], NEW h \in [D -> Int],
         NEW c \in Int, NEW d \in Int, NEW k,
         k = Combined(D, c, f, d, h)
  PROVE  k \in [D -> Int] /\ SumOver(k) = c * SumOver(f) + d * SumOver(h)
<1> DEFINE pick == [s \in SUBSET D |-> CHOOSE x \in s : TRUE]
<1>1. k \in [D -> Int] /\ \A x \in D : k[x] = c * f[x] + d * h[x]
  BY DEF Combined
<1>2. PICK gf : IsSum(D, f, gf) /\ SumOver(f) = gf[D]
  BY SumIs
<1>3. PICK gh : IsSum(D, h, gh) /\ SumOver(h) = gh[D]
  BY SumIs
<1>4. PICK gk : IsSum(D, k, gk) /\ SumOver(k) = gk[D]
  BY <1>1, SumIs
<1> DEFINE Good == {s \in SUBSET D : gk[s] = c * gf[s] + d * gh[s]}
<1>5. {} \in Good
  BY <1>2, <1>3, <1>4 DEF IsSum
<1>6. ASSUME NEW s \in SUBSET D, s # {}
      PROVE  pick[s] \in s /\ (s \ {pick[s]} \in Good => s \in Good)
  <2>1. PICK x \in D : x = pick[s] /\ x \in s
    BY <1>2, <1>6 DEF IsSum
  <2>2. /\ gf[s] = f[x] + gf[s \ {x}] /\ gh[s] = h[x] + gh[s \ {x}]
        /\ gk[s] = k[x] + gk[s \ {x}]
    BY <1>2, <1>3, <1>4, <1>6, <2>1 DEF IsSum
  <2>3. /\ gf[s \ {x}] \in Int /\ gh[s \ {x}] \in Int
        /\ f[x] \in Int /\ h[x] \in Int
    BY <1>2, <1>3 DEF IsSum
  <2>4. ASSUME s \ {x} \in Good PROVE s \in Good
    <3>1. gk[s] = (c * f[x] + d * h[x]) + (c * gf[s \ {x}] + d * gh[s \ {x}])
      BY <1>1, <2>2, <2>4
    <3>2. gk[s] = c * gf[s] + d * gh[s]
      BY <2>2, <2>3, <3>1, Distribute
    <3> QED
      BY <3>2
  <2> QED
    BY <2>1, <2>4
<1>7. Inductive(D, pick, Good)
  <2> HIDE DEF Good, pick
  <2> QED
    BY <1>5, <1>6 DEF Inductive
<1>8. SUBSET D \subseteq Good
  <2> HIDE DEF Good, pick
  <2> QED
    BY <1>7, SubsetInduction
<1>9. gk[D] = c * gf[D] + d * gh[D]
  BY <1>8
<1> QED
  BY <1>1, <1>2, <1>3, <1>4, <1>9

(* A sum of numbers that are not negative is none. *)
LEMMA SumNonNegative ==
  ASSUME NEW D, IsFiniteSet(D), NEW f \in [D -> Int], \A x \in D : f[x] >= 0
  PROVE  SumOver(f) >= 0
<1> DEFINE pick == [s \in SUBSET D |-> CHOOSE x \in s : TRUE]
<1>1. PICK g : IsSum(D, f, g) /\ SumOver(f) = g[D]
  BY SumIs
<1> DEFINE Good == {s \in SUBSET D : g[s] >= 0}
<1>2. {} \in Good
  BY <1>1 DEF IsSum
<1>3. ASSUME NEW s \in SUBSET D, s # {}
      PROVE  pick[s] \in s /\ (s \ {pick[s]} \in Good => s \in Good)
  <2>1. PICK x \in D : x = pick[s] /\ x \in s
    BY <1>1, <1>3 DEF IsSum
  <2>2. g[s] = f[x] + g[s \ {x}] /\ g[s \ {x}] \in Int /\ f[x] \in Int
    BY <1>1, <1>3, <2>1 DEF IsSum
  <2> HIDE DEF pick
  <2> QED
    BY <2>1, <2>2
<1>4. Inductive(D, pick, Good)
  <2> HIDE DEF Good, pick
  <2> QED
    BY <1>2, <1>3 DEF Inductive
<1>5. SUBSET D \subseteq Good
  <2> HIDE DEF Good, pick
  <2> QED
    BY <1>4, SubsetInduction
<1> QED
  BY <1>1, <1>5

(* A sum of ones counts. *)
LEMMA SumOnes ==
  ASSUME NEW D, IsFiniteSet(D)
  PROVE  SumOver([x \in D |-> 1]) = Cardinality(D)
<1> DEFINE f == [x \in D |-> 1]
           pick == [s \in SUBSET D |-> CHOOSE x \in s : TRUE]
<1>1. f \in [D -> Int] /\ \A x \in D : f[x] = 1
  OBVIOUS
<1> HIDE DEF f
<1>2. PICK g : IsSum(D, f, g) /\ SumOver(f) = g[D]
  BY <1>1, SumIs
<1> DEFINE Good == {s \in SUBSET D : g[s] = Cardinality(s)}
<1>3. {} \in Good
  BY <1>2, FS_EmptySet DEF IsSum
<1>4. ASSUME NEW s \in SUBSET D, s # {}
      PROVE  pick[s] \in s /\ (s \ {pick[s]} \in Good => s \in Good)
  <2>1. PICK x \in D : x = pick[s] /\ x \in s
    BY <1>2, <1>4 DEF IsSum
  <2>2. g[s] = 1 + g[s \ {x}]
    BY <1>1, <1>2, <1>4, <2>1 DEF IsSum
  <2>3. IsFiniteSet(s) /\ Cardinality(s) \in Nat
    BY FS_Subset, FS_CardinalityType
  <2>4. Cardinality(s \ {x}) = Cardinality(s) - 1
    BY <2>1, <2>3, FS_RemoveElement
  <2> HIDE DEF pick
  <2> QED
    BY <2>1, <2>2, <2>3, <2>4
<1>5. Inductive(D, pick, Good)
  <2> HIDE DEF Good, pick
  <2> QED
    BY <1>3, <1>4 DEF Inductive
<1>6. SUBSET D \subseteq Good
  <2> HIDE DEF Good, pick
  <2> QED
    BY <1>5, SubsetInduction
<1> QED
  BY <1>2, <1>6 DEF f
(* The squares of a sum of three terms, and the terms that mix.            *)
LEMMA SquareOf ==
  ASSUME NEW e \in Int, NEW p \in Int, NEW q \in Int, NEW x \in Int
  PROVE  (e + p * x + q) * (e + p * x + q)
           = (e * e + 2 * (p * (x * e) + q * e)) + (p * x + q) * (p * x + q)
OBVIOUS

LEMMA SquareNonNegative == ASSUME NEW i \in Int PROVE i * i \in Int /\ i * i >= 0
OBVIOUS

(* The residuals of the fitted line, and their products with the instants, *)
(* sum up to nothing.                                                      *)
LEMMA NormalEquation ==
  ASSUME NEW n \in Int, NEW Sx \in Int, NEW Sy \in Int, NEW Sxx \in Int, NEW Sxy \in Int
  PROVE  (Sxx * n - Sx * Sx) * Sy - (Sxy * n - Sy * Sx) * Sx - (Sxx * Sy - Sx * Sxy) * n = 0
OBVIOUS

LEMMA NormalEquationOfTimes ==
  ASSUME NEW n \in Int, NEW Sx \in Int, NEW Sy \in Int, NEW Sxx \in Int, NEW Sxy \in Int
  PROVE  (Sxx * n - Sx * Sx) * Sxy - (Sxy * n - Sy * Sx) * Sxx - (Sxx * Sy - Sx * Sxy) * Sx = 0
OBVIOUS

(* Sums of three terms. *)
IsCombination(o, D, c, f, d, h, e, k) ==
  /\ IsFiniteSet(D) /\ c \in Int /\ d \in Int /\ e \in Int
  /\ f \in [D -> Int] /\ h \in [D -> Int] /\ k \in [D -> Int]
  /\ o = [x \in D |-> c * f[x] - d * h[x] - e * k[x]]

LEMMA SumThree ==
  ASSUME NEW D, NEW f, NEW h, NEW k, NEW c, NEW d, NEW e, NEW o,
         IsCombination(o, D, c, f, d, h, e, k)
  PROVE  SumOver(o) = c * SumOver(f) - d * SumOver(h) - e * SumOver(k)
<1> USE DEF IsCombination
<1>1. PICK m : m = Combined(D, c, f, -d, h)
  OBVIOUS
<1>2. -d \in Int /\ -e \in Int /\ 1 \in Int
  OBVIOUS
<1>3. \A x \in D : f[x] \in Int /\ h[x] \in Int /\ k[x] \in Int
  OBVIOUS
<1>4. m \in [D -> Int] /\ SumOver(m) = c * SumOver(f) + (-d) * SumOver(h)
  BY <1>1, <1>2, SumLinear
<1>5. o = Combined(D, 1, m, -e, k)
  BY <1>1, <1>3 DEF Combined
<1>6. SumOver(o) = 1 * SumOver(m) + (-e) * SumOver(k)
  BY <1>2, <1>4, <1>5, SumLinear
<1>7. SumOver(f) \in Int /\ SumOver(h) \in Int /\ SumOver(k) \in Int
  BY SumInt
<1> QED
  BY <1>4, <1>6, <1>7

(* The line that linreg computes from the sums of the samples. *)
IsLine(n, Y, det, A, B) ==
  LET X == 0..(n - 1)
      Sx == SumOver([x \in X |-> x])
      Sy == SumOver(Y)
      Sxx == SumOver([x \in X |-> x * x])
      Sxy == SumOver([x \in X |-> x * Y[x]])
  IN /\ det = Sxx * n - Sx * Sx
     /\ A = Sxy * n - Sy * Sx
     /\ B = Sxx * Sy - Sx * Sxy

Residual(n, Y, det, a, b) == [x \in 0..(n - 1) |-> det * Y[x] - a * x - b]
SumOfSquares(n, f) == SumOver([x \in 0..(n - 1) |-> f[x] * f[x]])

LEMMA LineNormal ==
  ASSUME NEW n \in Nat, NEW Y \in [0..(n - 1) -> Int], NEW det, NEW A, NEW B,
         IsLine(n, Y, det, A, B)
  PROVE  LET e == Residual(n, Y, det, A, B)
         IN /\ det \in Int /\ A \in Int /\ B \in Int
            /\ e \in [0..(n - 1) -> Int]
            /\ SumOver(e) = 0
            /\ SumOver([x \in 0..(n - 1) |-> x * e[x]]) = 0
<1> DEFINE X == 0..(n - 1)
           id == [x \in X |-> x]
           one == [x \in X |-> 1]
           sq == [x \in X |-> x * x]
           xy == [x \in X |-> x * Y[x]]
           e == Residual(n, Y, det, A, B)
           xe == [x \in X |-> x * e[x]]
<1>1. IsFiniteSet(X) /\ Cardinality(X) = n
  BY FS_Interval
<1>2. id \in [X -> Int] /\ one \in [X -> Int] /\ sq \in [X -> Int] /\ xy \in [X -> Int]
  <2>1. \A x \in X : x \in Int /\ x * x \in Int /\ Y[x] \in Int /\ x * Y[x] \in Int
    OBVIOUS
  <2> QED
    BY <2>1
<1>3. SumOver(one) = n
  BY <1>1, SumOnes
<1> DEFINE Sx == SumOver(id)
           Sy == SumOver(Y)
           Sxx == SumOver(sq)
           Sxy == SumOver(xy)
<1>4. Sx \in Int /\ Sy \in Int /\ Sxx \in Int /\ Sxy \in Int
  <2> HIDE DEF id, sq, xy, X
  <2> QED
    BY <1>1, <1>2, SumInt DEF X
<1>5. det = Sxx * n - Sx * Sx /\ A = Sxy * n - Sy * Sx /\ B = Sxx * Sy - Sx * Sxy
  BY DEF IsLine
<1> HIDE DEF Sx, Sy, Sxx, Sxy
<1>6. det \in Int /\ A \in Int /\ B \in Int
  BY <1>4, <1>5
<1>7. e = [x \in X |-> det * Y[x] - A * id[x] - B * one[x]]
  BY <1>6 DEF Residual
<1>8. \A x \in X : e[x] \in Int /\ e[x] = det * Y[x] - A * x - B
  BY <1>6 DEF Residual
<1>9. SumOver(e) = det * Sy - A * Sx - B * n
  <2>1. Y \in [X -> Int]
    OBVIOUS
  <2> HIDE DEF id, one, sq, xy, xe, X, e
  <2>2. IsCombination(e, X, det, Y, A, id, B, one)
    BY <1>1, <1>2, <1>6, <1>7, <2>1 DEF IsCombination
  <2> QED
    BY <1>3, <2>2, SumThree DEF Sx, Sy
<1>10. xe = [x \in X |-> det * xy[x] - A * sq[x] - B * id[x]]
  <2>1. ASSUME NEW x \in X
        PROVE  x * e[x] = det * xy[x] - A * sq[x] - B * id[x]
    <3>1. x \in Int /\ Y[x] \in Int
      OBVIOUS
    <3>2. x * (det * Y[x] - A * x - B) = det * (x * Y[x]) - A * (x * x) - B * x
      BY <1>6, <3>1
    <3> HIDE DEF e
    <3> QED
      BY <1>8, <3>2
  <2> HIDE DEF e, xy, sq, id
  <2> QED
    BY <2>1
<1>11. SumOver(xe) = det * Sxy - A * Sxx - B * Sx
  <2> HIDE DEF id, one, sq, xy, X, xe, e
  <2>1. IsCombination(xe, X, det, xy, A, sq, B, id)
    BY <1>1, <1>2, <1>6, <1>10 DEF IsCombination
  <2> QED
    BY <2>1, SumThree DEF Sx, Sxx, Sxy
<1>12. det * Sy - A * Sx - B * n = 0
  <2>1. n \in Int
    OBVIOUS
  <2> QED
    BY <1>4, <1>5, <2>1, NormalEquation
<1>13. det * Sxy - A * Sxx - B * Sx = 0
  <2>1. n \in Int
    OBVIOUS
  <2> QED
    BY <1>4, <1>5, <2>1, NormalEquationOfTimes
<1>14. e \in [X -> Int]
  BY <1>6 DEF Residual
<1> HIDE DEF e
<1> QED
  BY <1>6, <1>9, <1>11, <1>12, <1>13, <1>14 DEF e

(* No other line leaves a smaller sum of squares.                          *)
LEMMA BestLine ==
  ASSUME NEW n \in Nat, NEW Y \in [0..(n - 1) -> Int], NEW det, NEW A, NEW B,
         IsLine(n, Y, det, A, B), NEW a \in Int, NEW b \in Int
  PROVE  SumOfSquares(n, Residual(n, Y, det, A, B))
           <= SumOfSquares(n, Residual(n, Y, det, a, b))
<1> DEFINE X == 0..(n - 1)
           e == Residual(n, Y, det, A, B)
           r == Residual(n, Y, det, a, b)
           p == A - a
           q == B - b
           ee == [x \in X |-> e[x] * e[x]]
           rr == [x \in X |-> r[x] * r[x]]
           xe == [x \in X |-> x * e[x]]
           mixed == [x \in X |-> p * xe[x] + q * e[x]]
           left == [x \in X |-> 1 * ee[x] + 2 * mixed[x]]
           apart == [x \in X |-> (p * x + q) * (p * x + q)]
           right == [x \in X |-> 1 * left[x] + 1 * apart[x]]
<1>1. IsFiniteSet(X)
  BY FS_Interval
<1>2. /\ det \in Int /\ A \in Int /\ B \in Int
      /\ e \in [X -> Int]
      /\ SumOver(e) = 0 /\ SumOver(xe) = 0
  BY LineNormal
<1>3. p \in Int /\ q \in Int
  BY <1>2
<1>4. \A x \in X : x \in Int /\ Y[x] \in Int /\ e[x] \in Int
  BY <1>2
<1>5. \A x \in X : e[x] = det * Y[x] - A * x - B /\ r[x] = det * Y[x] - a * x - b
  BY DEF Residual
<1> HIDE DEF e, r
<1>6. \A x \in X : r[x] = e[x] + p * x + q
  <2> SUFFICES ASSUME NEW x \in X PROVE r[x] = e[x] + p * x + q
    OBVIOUS
  <2>1. PICK y \in Int, u \in Int, v \in Int : y = det * Y[x] /\ u = A * x /\ v = a * x
    BY <1>2, <1>4
  <2>2. p * x = u - v
    BY <1>2, <1>4, <2>1
  <2>3. e[x] = y - u - B /\ r[x] = y - v - b
    BY <1>5, <2>1
  <2>4. y - v - b = (y - u - B) + (u - v) + (B - b)
    BY <1>2
  <2> QED
    BY <2>2, <2>3, <2>4
<1> HIDE DEF p, q
<1>7. ee \in [X -> Int] /\ xe \in [X -> Int]
  BY <1>4
<1>8. mixed \in [X -> Int] /\ SumOver(mixed) = 0
  <2>1. mixed = Combined(X, p, xe, q, e)
    BY DEF Combined
  <2> HIDE DEF ee, rr, xe, X, mixed, left, apart, right
  <2>3. IsFiniteSet(X) /\ xe \in [X -> Int] /\ e \in [X -> Int]
    BY <1>1, <1>2, <1>7
  <2>2. mixed \in [X -> Int] /\ SumOver(mixed) = p * SumOver(xe) + q * SumOver(e)
    BY <1>3, <2>1, <2>3, SumLinear
  <2> QED
    BY <1>2, <1>3, <2>2
<1>9. left \in [X -> Int] /\ SumOver(left) = SumOver(ee)
  <2>1. left = Combined(X, 1, ee, 2, mixed) /\ 1 \in Int /\ 2 \in Int
    BY DEF Combined
  <2> HIDE DEF ee, X, mixed, left
  <2>2. left \in [X -> Int] /\ SumOver(left) = 1 * SumOver(ee) + 2 * SumOver(mixed)
    BY <1>1, <1>7, <1>8, <2>1, SumLinear
  <2>3. SumOver(ee) \in Int
    BY <1>1, <1>7, SumInt
  <2> QED
    BY <1>8, <2>2, <2>3
<1>10. apart \in [X -> Int] /\ SumOver(apart) >= 0
  <2>1. \A x \in X : apart[x] \in Int /\ apart[x] >= 0
    <3> SUFFICES ASSUME NEW x \in X PROVE apart[x] \in Int /\ apart[x] >= 0
      OBVIOUS
    <3>1. PICK i \in Int : i = p * x + q
      BY <1>3, <1>4
    <3> QED
      BY <3>1, SquareNonNegative
  <2>2. apart \in [X -> Int]
    BY <2>1
  <2> HIDE DEF apart, X
  <2> QED
    BY <1>1, <2>1, <2>2, SumNonNegative
<1>11. SumOver(right) = SumOver(ee) + SumOver(apart)
  <2>1. right = Combined(X, 1, left, 1, apart) /\ 1 \in Int
    BY DEF Combined
  <2> HIDE DEF ee, rr, xe, X, mixed, left, apart, right
  <2>4. left \in [X -> Int] /\ apart \in [X -> Int]
    BY <1>9, <1>10
  <2>3. SumOver(right) = 1 * SumOver(left) + 1 * SumOver(apart)
    BY <1>1, <2>1, <2>4, SumLinear
  <2>2. SumOver(left) \in Int /\ SumOver(apart) \in Int
    BY <1>1, <1>9, <1>10, SumInt
  <2> QED
    BY <1>9, <2>2, <2>3
<1>12. rr = right
  <2>1. ASSUME NEW x \in X PROVE r[x] * r[x] = right[x]
    <3> DEFINE u == e[x]
               v == r[x]
    <3>3. u \in Int /\ x \in Int /\ v = u + p * x + q
      BY <1>4, <1>6
    <3>4. v * v = (u + p * x + q) * (u + p * x + q)
      BY <3>3
    <3> HIDE DEF u, v
    <3>5. v * v = (u * u + 2 * (p * (x * u) + q * u)) + (p * x + q) * (p * x + q)
      BY <1>3, <3>3, <3>4, SquareOf
    <3>1. r[x] * r[x] = (e[x] * e[x] + 2 * (p * (x * e[x]) + q * e[x])) + (p * x + q) * (p * x + q)
      BY <3>5 DEF u, v
    <3>2. /\ e[x] * e[x] \in Int /\ p * (x * e[x]) + q * e[x] \in Int
          /\ (p * x + q) * (p * x + q) \in Int
      BY <1>3, <1>4
    <3> QED
      BY <3>1, <3>2
  <2> HIDE DEF left, apart
  <2> QED
    BY <2>1
<1>13. SumOver(ee) \in Int /\ SumOver(apart) \in Int
  <2> HIDE DEF ee, X, apart
  <2> QED
    BY <1>1, <1>7, <1>10, SumInt
<1>14. SumOver(ee) <= SumOver(rr)
  <2> HIDE DEF ee, rr, right, apart
  <2> QED
    BY <1>10, <1>11, <1>12, <1>13
<1> QED
  BY <1>14 DEF SumOfSquares, e, r
(* The samples that linreg sorts. *)
LEMMA SampleTypes ==
  ASSUME IInv
  PROVE  /\ len \in Nat
         /\ \A i \in 0..(len - 1) : weights[i] \in Int /\ times[i] \in Nat
<1>1. len \in Nat /\ \A i \in 0..(len - 1) : i \in Cells /\ i < len
  BY PathInfosAssumption DEF IInv, Typed, Cells
<1>2. \A c \in Cells : c < len => weights[c] \in Weights /\ times[c] \in Times
  BY DEF IInv, Typed, CellsWritten
<1> QED
  BY <1>1, <1>2, PathInfosAssumption

(* Before is a strict total order of them. *)
LEMMA BeforeOrders ==
  ASSUME IInv, NEW i \in 0..(len - 1), NEW j \in 0..(len - 1), NEW k \in 0..(len - 1)
  PROVE  /\ ~ Before(i, i)
         /\ i # j => Before(i, j) \/ Before(j, i)
         /\ Before(i, j) /\ Before(j, k) => Before(i, k)
<1>1. /\ weights[i] \in Int /\ weights[j] \in Int /\ weights[k] \in Int
      /\ times[i] \in Nat /\ times[j] \in Nat /\ times[k] \in Nat
      /\ i \in Int /\ j \in Int /\ k \in Int
  BY SampleTypes
<1> QED
  BY <1>1 DEF Before

(* Every rank belongs to one sample: sorting loses none. *)
LEMMA RankTaken ==
  ASSUME IInv, NEW x \in 0..(len - 1)
  PROVE  \E i \in 0..(len - 1) : Cardinality({j \in 0..(len - 1) : Before(j, i)}) = x
<1> DEFINE X == 0..(len - 1)
           Below(i) == {j \in X : Before(j, i)}
           rank == [i \in X |-> Cardinality(Below(i))]
<1>1. len \in Nat /\ IsFiniteSet(X) /\ Cardinality(X) = len
  BY SampleTypes, FS_Interval
<1>2. ASSUME NEW i \in X
      PROVE  IsFiniteSet(Below(i)) /\ Cardinality(Below(i)) \in Nat
  BY <1>1, FS_Subset, FS_CardinalityType
<1>3. ASSUME NEW i \in X PROVE Cardinality(Below(i)) \in X
  <2>1. Below(i) \subseteq X \ {i}
    BY BeforeOrders
  <2>2. IsFiniteSet(X \ {i}) /\ Cardinality(X \ {i}) = len - 1
    <3> HIDE DEF X
    <3> QED
      BY <1>1, FS_RemoveElement
  <2>3. Cardinality(Below(i)) <= len - 1
    <3> HIDE DEF Below, X
    <3> QED
      BY <2>1, <2>2, FS_Subset
  <2> HIDE DEF Below
  <2> QED
    BY <1>1, <1>2, <2>3
<1>4. ASSUME NEW i \in X, NEW k \in X, Before(i, k)
      PROVE  Cardinality(Below(i)) < Cardinality(Below(k))
  <2>1. i \notin Below(i)
    BY BeforeOrders
  <2>2. Below(i) \union {i} \subseteq Below(k)
    <3>1. ASSUME NEW j \in Below(i) PROVE j \in Below(k)
      <4>1. j \in X /\ Before(j, i)
        OBVIOUS
      <4> QED
        BY <1>4, <4>1, BeforeOrders
    <3> QED
      BY <1>4, <3>1
  <2>3. Cardinality(Below(i) \union {i}) = Cardinality(Below(i)) + 1
    <3> HIDE DEF Below, X
    <3> QED
      BY <1>2, <2>1, FS_AddElement
  <2>4. Cardinality(Below(i) \union {i}) <= Cardinality(Below(k))
    <3> HIDE DEF Below, X
    <3> QED
      BY <1>2, <2>2, FS_Subset
  <2> HIDE DEF Below, X
  <2> QED
    BY <1>2, <2>3, <2>4
<1>5. rank \in Injection(X, X)
  <2>1. rank \in [X -> X]
    <3> HIDE DEF X, Below
    <3> QED
      BY <1>3
  <2>2. ASSUME NEW i \in X, NEW k \in X, i # k PROVE rank[i] # rank[k]
    <3>1. Before(i, k) \/ Before(k, i)
      BY <2>2, BeforeOrders
    <3> HIDE DEF X, Below
    <3> QED
      BY <1>2, <1>4, <3>1
  <2> HIDE DEF X, Below, rank
  <2> QED
    BY <2>1, <2>2 DEF Injection, IsInjective
<1>6. rank \in Surjection(X, X)
  <2> HIDE DEF X, Below, rank
  <2> QED
    BY <1>1, <1>5, FS_Injection
<1>7. PICK i \in X : rank[i] = x
  <2> HIDE DEF rank
  <2> QED
    BY <1>6 DEF Surjection
<1> QED
  BY <1>7

LEMMA SortedInt == IInv => Sorted \in [0..(len - 1) -> Int]
<1> SUFFICES ASSUME IInv PROVE Sorted \in [0..(len - 1) -> Int]
  OBVIOUS
<1>1. ASSUME NEW x \in 0..(len - 1)
      PROVE  Sorted[x] \in Int
  <2> DEFINE Is(i) == Cardinality({j \in 0..(len - 1) : Before(j, i)}) = x
             i0 == CHOOSE i \in 0..(len - 1) : Is(i)
  <2>1. \E i \in 0..(len - 1) : Is(i)
    BY RankTaken
  <2>2. i0 \in 0..(len - 1)
    <3> HIDE DEF Is
    <3> QED
      BY <2>1
  <2>3. weights[i0] \in Int
    BY <2>2, SampleTypes
  <2>4. Sorted[x] = weights[i0]
    BY DEF Sorted
  <2> HIDE DEF i0
  <2> QED
    BY <2>3, <2>4
<1>2. Sorted = [x \in 0..(len - 1) |-> Sorted[x]]
  BY DEF Sorted
<1> HIDE DEF Sorted
<1> QED
  BY <1>1, <1>2

(* The line of linreg against every other whose coefficients, like its     *)
(* own, are whole numbers over the determinant.                            *)
Fits ==
  LET fit == Linreg
  IN fit.det # 0 =>
       \A a, b \in Int : SumOfSquares(len, Residual(len, Sorted, fit.det, fit.a, fit.b))
                           <= SumOfSquares(len, Residual(len, Sorted, fit.det, a, b))

LEMMA LineFits == IInv => Fits
<1> DEFINE X == 0..(len - 1)
           Sx == SumOver([x \in X |-> x])
           Sy == SumOver(Sorted)
           Sxx == SumOver([x \in X |-> x * x])
           Sxy == SumOver([x \in X |-> x * Sorted[x]])
           det == Sxx * len - Sx * Sx
           A == Sxy * len - Sy * Sx
           B == Sxx * Sy - Sx * Sxy
<1> SUFFICES ASSUME IInv, Linreg.det # 0, NEW a \in Int, NEW b \in Int
             PROVE  SumOfSquares(len, Residual(len, Sorted, Linreg.det, Linreg.a, Linreg.b))
                      <= SumOfSquares(len, Residual(len, Sorted, Linreg.det, a, b))
  BY DEF Fits
<1>1. Linreg = IF det = 0 THEN [det |-> 0] ELSE [det |-> det, a |-> A, b |-> B]
  BY DEF Linreg
<1>2. Linreg.det = det /\ Linreg.a = A /\ Linreg.b = B
  <2> HIDE DEF det, A, B
  <2>1. det # 0
    BY <1>1
  <2> QED
    BY <1>1, <2>1
<1>3. IsLine(len, Sorted, det, A, B)
  BY DEF IsLine
<1>4. len \in Nat /\ Sorted \in [0..(len - 1) -> Int]
  BY SampleTypes, SortedInt
<1> HIDE DEF det, A, B
<1>5. SumOfSquares(len, Residual(len, Sorted, det, A, B))
        <= SumOfSquares(len, Residual(len, Sorted, det, a, b))
  BY <1>3, <1>4, BestLine
<1> QED
  BY <1>2, <1>5

LEMMA FitsImpliesLeastSquares == IInv /\ Fits => LeastSquares
<1> DEFINE fit == Linreg
           Error(a, b) == SumOver([x \in 0..(len - 1) |->
                            (fit.det * Sorted[x] - a * x - b) * (fit.det * Sorted[x] - a * x - b)])
<1>1. \A a, b : Error(a, b) = SumOfSquares(len, Residual(len, Sorted, fit.det, a, b))
  BY DEF SumOfSquares, Residual
<1>2. IInv /\ fit.det # 0 => fit.det \in Int
  <2> SUFFICES ASSUME IInv, fit.det # 0 PROVE fit.det \in Int
    OBVIOUS
  <2> DEFINE X == 0..(len - 1)
             one == [x \in X |-> x]
             two == [x \in X |-> x * x]
  <2>1. len \in Nat /\ IsFiniteSet(X) /\ one \in [X -> Int] /\ two \in [X -> Int]
    <3>1. len \in Nat
      BY SampleTypes
    <3>2. \A x \in X : x \in Int /\ x * x \in Int
      OBVIOUS
    <3> QED
      BY <3>1, <3>2, FS_Interval
  <2>2. SumOver(one) \in Int /\ SumOver(two) \in Int
    <3> HIDE DEF X, one, two
    <3> QED
      BY <2>1, SumInt
  <2>3. fit.det = 0 \/ fit.det = SumOver(two) * len - SumOver(one) * SumOver(one)
    BY DEF Linreg
  <2> HIDE DEF one, two, fit
  <2> QED
    BY <2>1, <2>2, <2>3
<1> SUFFICES ASSUME IInv, Fits, fit.det # 0, NEW a \in -3..3, NEW b \in -3..3
             PROVE  Error(fit.a, fit.b) <= Error(fit.det * a, fit.det * b)
  BY DEF LeastSquares
<1>3. fit.det * a \in Int /\ fit.det * b \in Int
  BY <1>2
<1>4. SumOfSquares(len, Residual(len, Sorted, fit.det, fit.a, fit.b))
        <= SumOfSquares(len, Residual(len, Sorted, fit.det, fit.det * a, fit.det * b))
  BY <1>3 DEF Fits
<1> HIDE DEF Error, fit
<1> QED
  BY <1>1, <1>4

(* linreg: of all lines whose coefficients are whole numbers over its      *)
(* determinant, none is closer to the samples than the one it returns.     *)
THEOREM NoLineFitsBetter == Spec => []Fits
BY Invariant, LineFits, PTL

(* linreg: so none with the integer coefficients of LeastSquares is. *)
THEOREM LineIsLeastSquares == Spec => []LeastSquares
BY Invariant, LineFits, FitsImpliesLeastSquares, PTL
-----------------------------------------------------------------------------
(* IntReport: the bytes that the deparser emits.                           *)

Names == {"report", "ethernet", "ipv6", "ipv4", "srv6h", "l4", "flowlet",
          "int_shim", "int_header", "hop", "rest"}
Byte == [header : Names, at : Int, v : Int]

(* s is a header of size bytes. *)
IsHeader(s, name, size) ==
  /\ s \in Seq(Byte) /\ Len(s) = size
  /\ \A i \in 1..size : s[i].header = name /\ s[i].at = i - 1

(* s stands in bytes from offset a on. *)
At(bytes, a, s) ==
  /\ a \in Nat /\ s \in Seq(Byte) /\ a + Len(s) <= Len(bytes)
  /\ \A i \in 1..Len(s) : bytes[a + i] = s[i]

Appended(u, s, t) == s \in Seq(Byte) /\ t \in Seq(Byte) /\ u = s \o t

LEMMA AppendedAt ==
  ASSUME NEW u, NEW s, NEW t, Appended(u, s, t)
  PROVE  /\ u \in Seq(Byte) /\ Len(u) = Len(s) + Len(t)
         /\ At(u, Len(s), t)
BY DEF At, Appended

LEMMA StaysAt ==
  ASSUME NEW u, NEW s, NEW t, Appended(u, s, t), NEW a, NEW w, At(s, a, w)
  PROVE  At(u, a, w)
<1>1. /\ a \in Nat /\ Len(s) \in Nat /\ Len(w) \in Nat /\ Len(t) \in Nat
      /\ Len(u) = Len(s) + Len(t)
  BY DEF At, Appended
<1>2. ASSUME NEW i \in 1..Len(w) PROVE u[a + i] = w[i]
  <2>1. a + i \in 1..Len(s) /\ s[a + i] = w[i]
    BY <1>1 DEF At
  <2> QED
    BY <2>1 DEF Appended
<1> QED
  BY <1>1, <1>2 DEF At

(* The sizes of a packet's headers. *)
IpBytes(p) == IF IsV6(p) THEN 40 ELSE 20
L4Bytes(p) == IF IsUdp(p) THEN 8 ELSE 20

LEMMA PacketIs ==
  ASSUME NEW p \in Packet
  PROVE  /\ p.version \in {4, 6} /\ p.segments \in 0..3 /\ p.update_path \in 0..1
         /\ p.dataOffset \in {0} \union 5..15
         /\ p.version = 4 => p.segments = 0
         /\ p.hops \in Seq(Hop) /\ Len(p.hops) \in 1..4
<1>1. /\ p.version \in Versions /\ p.segments \in Segments /\ p.update_path \in 0..1
      /\ p.dataOffset \in DataOffsets
      /\ p.version = 4 => p.segments = 0
      /\ p.hops \in UNION {[1..n -> Hop] : n \in 1..MaxHops}
  BY DEF Packet
<1>2. PICK n \in 1..MaxHops : p.hops \in [1..n -> Hop]
  BY <1>1
<1>3. n \in 1..4
  BY IntReportAssumption
<1>4. p.hops \in Seq(Hop) /\ Len(p.hops) = n
  BY <1>2, <1>3
<1> QED
  BY <1>1, <1>3, <1>4, IntReportAssumption

(* The number that a queue depth stays below is the weight of the trend.   *)
TrendBit == 2^23

LEMMA TrendBitIs == TrendBit = 65536 * 128
BY DEF TrendBit

LEMMA HopIs ==
  ASSUME NEW hop \in Hop
  PROVE  /\ hop.switch_id \in Nat /\ hop.trend \in 0..1
         /\ hop.q_occupancy \in Nat /\ hop.q_occupancy < TrendBit
         /\ hop = [switch_id |-> hop.switch_id, trend |-> hop.trend,
                   q_occupancy |-> hop.q_occupancy]
<1>1. hop.q_occupancy \in Queues
  BY DEF Hop
<1>2. Queues \subseteq Nat /\ \A q \in Queues : q < TrendBit
  BY IntReportAssumption, Zenon DEF TrendBit
<1>3. MaxHops \in 1..4
  BY IntReportAssumption, Zenon
<1>4. hop.switch_id \in 1..MaxHops /\ hop.trend \in 0..1
  BY DEF Hop
<1>5. hop.switch_id \in Nat
  BY <1>3, <1>4
<1>6. hop = [switch_id |-> hop.switch_id, trend |-> hop.trend,
             q_occupancy |-> hop.q_occupancy]
  BY DEF Hop
<1> QED
  BY <1>1, <1>2, <1>4, <1>5, <1>6

(* What Header makes of the values of its bytes. *)
HasValues(s, name, n, f) ==
  /\ name \in Names /\ n \in Nat /\ f \in [1..n -> Int]
  /\ s = [i \in 1..n |-> [header |-> name, at |-> i - 1, v |-> f[i]]]

LEMMA HeaderBytes ==
  ASSUME NEW s, NEW name, NEW n, NEW f, HasValues(s, name, n, f)
  PROVE  IsHeader(s, name, n) /\ \A i \in 1..n : s[i].v = f[i]
<1> USE DEF HasValues
<1>1. \A i \in 1..n : s[i] \in Byte
  BY DEF Byte
<1>2. s \in [1..n -> Byte]
  BY <1>1
<1>3. s \in Seq(Byte) /\ Len(s) = n
  BY <1>2
<1> QED
  BY <1>3 DEF IsHeader

LEMMA ReportHeaderIs == IsHeader(ReportHeader, "report", 16)
<1> DEFINE f == [i \in 1..16 |-> IF i - 1 = 0 THEN 20 ELSE 0]
<1>1. f \in [1..16 -> Int]
  BY SMT
<1>2. ReportHeader = [i \in 1..16 |-> [header |-> "report", at |-> i - 1, v |-> f[i]]]
  BY DEF ReportHeader, Header
<1> HIDE DEF f
<1>3. 16 \in Nat /\ "report" \in Names
  BY DEF Names
<1>8. HasValues(ReportHeader, "report", 16, f)
  BY <1>1, <1>2, <1>3 DEF HasValues
<1>9. IsHeader(ReportHeader, "report", 16) /\ \A i \in 1..16 : ReportHeader[i].v = f[i]
  BY <1>8, HeaderBytes
<1> QED
  BY <1>1, <1>2, <1>3, <1>9

LEMMA EthernetIs ==
  ASSUME NEW p
  PROVE  /\ IsHeader(Ethernet(p), "ethernet", 14)
         /\ Ethernet(p)[13].v = IF IsV6(p) THEN 134 ELSE 8
         /\ Ethernet(p)[14].v = IF IsV6(p) THEN 221 ELSE 0
<1> DEFINE f == [i \in 1..14 |-> CASE i - 1 = 12 -> IF IsV6(p) THEN 134 ELSE 8
                              [] i - 1 = 13 -> IF IsV6(p) THEN 221 ELSE 0
                              [] OTHER -> 0]
<1>1. /\ f \in [1..14 -> Int] /\ f[13] = (IF IsV6(p) THEN 134 ELSE 8)
      /\ f[14] = (IF IsV6(p) THEN 221 ELSE 0)
  BY SMT
<1>2. Ethernet(p) = [i \in 1..14 |-> [header |-> "ethernet", at |-> i - 1, v |-> f[i]]]
  BY DEF Ethernet, Header
<1> HIDE DEF f
<1>3. 13 \in 1..14 /\ 14 \in 1..14 /\ 14 \in Nat /\ "ethernet" \in Names
  BY DEF Names
<1>8. HasValues(Ethernet(p), "ethernet", 14, f)
  BY <1>1, <1>2, <1>3 DEF HasValues
<1>9. IsHeader(Ethernet(p), "ethernet", 14) /\ \A i \in 1..14 : Ethernet(p)[i].v = f[i]
  BY <1>8, HeaderBytes
<1> QED
  BY <1>1, <1>2, <1>3, <1>9

LEMMA Ipv6HeaderIs ==
  ASSUME NEW p \in Packet, IsV6(p)
  PROVE  /\ IsHeader(IpHeader(p), "ipv6", 40)
         /\ IpHeader(p)[7].v = IF p.segments > 0 THEN 43 ELSE Proto(p)
<1>0. p.segments \in Nat /\ Proto(p) \in Int
  BY PacketIs DEF Proto
<1> DEFINE f == [i \in 1..40 |-> CASE i - 1 # 6 -> 0
                              [] i - 1 = 6 /\ p.segments > 0 -> 43
                              [] i - 1 = 6 /\ p.segments = 0 -> Proto(p)]
<1>1. f \in [1..40 -> Int] /\ f[7] = IF p.segments > 0 THEN 43 ELSE Proto(p)
  BY <1>0
<1>2. IpHeader(p) = [i \in 1..40 |-> [header |-> "ipv6", at |-> i - 1, v |-> f[i]]]
  BY DEF IpHeader, Header
<1> HIDE DEF f
<1>3. 7 \in 1..40 /\ 40 \in Nat /\ "ipv6" \in Names
  BY DEF Names
<1>8. HasValues(IpHeader(p), "ipv6", 40, f)
  BY <1>1, <1>2, <1>3 DEF HasValues
<1>9. IsHeader(IpHeader(p), "ipv6", 40) /\ \A i \in 1..40 : IpHeader(p)[i].v = f[i]
  BY <1>8, HeaderBytes
<1> QED
  BY <1>1, <1>2, <1>3, <1>9

LEMMA Ipv4HeaderIs ==
  ASSUME NEW p, ~ IsV6(p)
  PROVE  IsHeader(IpHeader(p), "ipv4", 20) /\ IpHeader(p)[10].v = Proto(p)
<1>0. Proto(p) \in Int
  BY DEF Proto
<1> DEFINE f == [i \in 1..20 |-> IF i - 1 = 9 THEN Proto(p) ELSE 0]
<1>1. f \in [1..20 -> Int] /\ f[10] = Proto(p)
  BY <1>0
<1>2. IpHeader(p) = [i \in 1..20 |-> [header |-> "ipv4", at |-> i - 1, v |-> f[i]]]
  BY DEF IpHeader, Header
<1> HIDE DEF f
<1>3. 10 \in 1..20 /\ 20 \in Nat /\ "ipv4" \in Names
  BY DEF Names
<1>8. HasValues(IpHeader(p), "ipv4", 20, f)
  BY <1>1, <1>2, <1>3 DEF HasValues
<1>9. IsHeader(IpHeader(p), "ipv4", 20) /\ \A i \in 1..20 : IpHeader(p)[i].v = f[i]
  BY <1>8, HeaderBytes
<1> QED
  BY <1>1, <1>2, <1>3, <1>9

LEMMA Srv6HeaderIs ==
  ASSUME NEW p \in Packet
  PROVE  /\ IsHeader(Srv6Header(p), "srv6h", SrhBytes(p))
         /\ p.segments > 0 => /\ Srv6Header(p)[1].v = Proto(p)
                              /\ Srv6Header(p)[5].v = p.segments - 1
<1>0. Proto(p) \in Int /\ p.segments \in Nat
  BY PacketIs DEF Proto
<1>1. PICK n \in Nat : n = SrhBytes(p) /\ (p.segments > 0 => n >= 24)
  BY <1>0 DEF SrhBytes
<1> DEFINE f == [i \in 1..n |-> CASE i - 1 = 0 -> Proto(p)
                             [] i - 1 = 4 -> p.segments - 1
                             [] OTHER -> 0]
<1>2. f \in [1..n -> Int]
  BY <1>0
<1>3. p.segments > 0 => f[1] = Proto(p) /\ f[5] = p.segments - 1
  BY <1>0, <1>1
<1>4. Srv6Header(p) = [i \in 1..n |-> [header |-> "srv6h", at |-> i - 1, v |-> f[i]]]
  BY <1>1 DEF Srv6Header, Header
<1> HIDE DEF f
<1>5. p.segments > 0 => 1 \in 1..n /\ 5 \in 1..n
  BY <1>1
<1>6. "srv6h" \in Names
  BY DEF Names
<1>9. HasValues(Srv6Header(p), "srv6h", n, f)
  BY <1>2, <1>4, <1>6 DEF HasValues
<1>7. IsHeader(Srv6Header(p), "srv6h", n) /\ \A i \in 1..n : Srv6Header(p)[i].v = f[i]
  BY <1>9, HeaderBytes
<1> QED
  BY <1>1, <1>3, <1>5, <1>7

LEMMA L4HeaderIs ==
  ASSUME NEW p
  PROVE  IsHeader(L4Header(p), "l4", L4Bytes(p))
<1>1. PICK n \in Nat : n = L4Bytes(p)
  BY DEF L4Bytes
<1> DEFINE f == [i \in 1..n |-> 0]
<1>2. f \in [1..n -> Int]
  OBVIOUS
<1>3. L4Header(p) = [i \in 1..n |-> [header |-> "l4", at |-> i - 1, v |-> f[i]]]
  BY <1>1 DEF L4Header, L4Bytes, Zeros, Header
<1> HIDE DEF f
<1>4. "l4" \in Names
  BY DEF Names
<1>8. HasValues(L4Header(p), "l4", n, f)
  BY <1>1, <1>2, <1>3, <1>4 DEF HasValues
<1>9. IsHeader(L4Header(p), "l4", n) /\ \A i \in 1..n : L4Header(p)[i].v = f[i]
  BY <1>8, HeaderBytes
<1> QED
  BY <1>1, <1>2, <1>3, <1>4, <1>9

LEMMA FlowletHeaderIs ==
  ASSUME NEW p \in Packet
  PROVE  IsHeader(FlowletHeader(p), "flowlet", 1) /\ FlowletHeader(p)[1].v = p.update_path
<1> DEFINE f == [i \in 1..1 |-> p.update_path]
<1>1. f \in [1..1 -> Int] /\ f[1] = p.update_path
  BY PacketIs
<1>2. FlowletHeader(p) = [i \in 1..1 |-> [header |-> "flowlet", at |-> i - 1, v |-> f[i]]]
  BY DEF FlowletHeader, Header
<1> HIDE DEF f
<1>3. 1 \in 1..1 /\ 1 \in Nat /\ "flowlet" \in Names
  BY DEF Names
<1>8. HasValues(FlowletHeader(p), "flowlet", 1, f)
  BY <1>1, <1>2, <1>3 DEF HasValues
<1>9. IsHeader(FlowletHeader(p), "flowlet", 1) /\ \A i \in 1..1 : FlowletHeader(p)[i].v = f[i]
  BY <1>8, HeaderBytes
<1> QED
  BY <1>1, <1>2, <1>3, <1>9

LEMMA IntShimIs ==
  ASSUME NEW p \in Packet
  PROVE  IsHeader(IntShim(p), "int_shim", 4) /\ IntShim(p)[3].v = ShimLen(p)
<1>0. ShimLen(p) \in Int
  BY PacketIs DEF ShimLen
<1> DEFINE f == [i \in 1..4 |-> CASE i - 1 = 0 -> 1 [] i - 1 = 2 -> ShimLen(p) [] OTHER -> 0]
<1>1. f \in [1..4 -> Int] /\ f[3] = ShimLen(p)
  BY <1>0
<1>2. IntShim(p) = [i \in 1..4 |-> [header |-> "int_shim", at |-> i - 1, v |-> f[i]]]
  BY DEF IntShim, Header
<1> HIDE DEF f
<1>3. 3 \in 1..4 /\ 4 \in Nat /\ "int_shim" \in Names
  BY DEF Names
<1>8. HasValues(IntShim(p), "int_shim", 4, f)
  BY <1>1, <1>2, <1>3 DEF HasValues
<1>9. IsHeader(IntShim(p), "int_shim", 4) /\ \A i \in 1..4 : IntShim(p)[i].v = f[i]
  BY <1>8, HeaderBytes
<1> QED
  BY <1>1, <1>2, <1>3, <1>9

LEMMA IntHeaderIs == IsHeader(IntHeader, "int_header", 8) /\ IntHeader[3].v = 2
<1> DEFINE f == [i \in 1..8 |-> CASE i - 1 = 0 -> 16 [] i - 1 = 2 -> 2 [] i - 1 = 4 -> 144
                             [] OTHER -> 0]
<1>1. f \in [1..8 -> Int] /\ f[3] = 2
  BY SMT
<1>2. IntHeader = [i \in 1..8 |-> [header |-> "int_header", at |-> i - 1, v |-> f[i]]]
  BY DEF IntHeader, Header
<1> HIDE DEF f
<1>3. 3 \in 1..8 /\ 8 \in Nat /\ "int_header" \in Names
  BY DEF Names
<1>8. HasValues(IntHeader, "int_header", 8, f)
  BY <1>1, <1>2, <1>3 DEF HasValues
<1>9. IsHeader(IntHeader, "int_header", 8) /\ \A i \in 1..8 : IntHeader[i].v = f[i]
  BY <1>8, HeaderBytes
<1> QED
  BY <1>1, <1>2, <1>3, <1>9

LEMMA RestIs == Zeros("rest", 60) \in Seq(Byte) /\ Len(Zeros("rest", 60)) = 60
<1> DEFINE f == [i \in 1..60 |-> 0]
<1>1. f \in [1..60 -> Int]
  OBVIOUS
<1>2. Zeros("rest", 60) = [i \in 1..60 |-> [header |-> "rest", at |-> i - 1, v |-> f[i]]]
  BY DEF Zeros, Header
<1> HIDE DEF f
<1>3. 60 \in Nat /\ "rest" \in Names
  BY DEF Names
<1>9. HasValues(Zeros("rest", 60), "rest", 60, f)
  BY <1>1, <1>2, <1>3 DEF HasValues
<1>4. IsHeader(Zeros("rest", 60), "rest", 60)
  BY <1>9, HeaderBytes
<1> QED
  BY <1>4 DEF IsHeader

LEMMA MetadataIs ==
  ASSUME NEW hop \in Hop
  PROVE  LET s == Metadata(hop)
             q == hop.q_occupancy
         IN /\ s \in Seq(Byte) /\ Len(s) = 8
            /\ s[1].v = 0 /\ s[2].v = 0 /\ s[3].v = 0 /\ s[4].v = hop.switch_id
            /\ s[6].v = 128 * hop.trend + (q \div 65536)
            /\ s[7].v = (q \div 256) % 256
            /\ s[8].v = q % 256
<1> DEFINE q == hop.q_occupancy
           high == 128 * hop.trend + (q \div 65536)
           middle == (q \div 256) % 256
           low == q % 256
           f == [i \in 1..8 |-> CASE i - 1 = 3 -> hop.switch_id [] i - 1 = 5 -> high
                                [] i - 1 = 6 -> middle [] i - 1 = 7 -> low [] OTHER -> 0]
<1>1. 2^16 = 65536 /\ 2^8 = 256
  OBVIOUS
<1>2. hop.switch_id \in Int /\ high \in Int /\ middle \in Int /\ low \in Int
  BY HopIs
<1>3. Metadata(hop) = [i \in 1..8 |-> [header |-> "hop", at |-> i - 1, v |-> f[i]]]
  BY <1>1 DEF Metadata, Header, HopBytes
<1> HIDE DEF high, middle, low
<1>4. /\ f \in [1..8 -> Int]
      /\ f[1] = 0 /\ f[2] = 0 /\ f[3] = 0 /\ f[4] = hop.switch_id
      /\ f[6] = high /\ f[7] = middle /\ f[8] = low
  BY <1>2
<1> HIDE DEF f
<1>5. 8 \in Nat /\ "hop" \in Names
  BY DEF Names
<1>9. HasValues(Metadata(hop), "hop", 8, f)
  BY <1>3, <1>4, <1>5 DEF HasValues
<1>6. IsHeader(Metadata(hop), "hop", 8) /\ \A i \in 1..8 : Metadata(hop)[i].v = f[i]
  BY <1>9, HeaderBytes
<1>7. 1 \in 1..8 /\ 2 \in 1..8 /\ 3 \in 1..8 /\ 4 \in 1..8 /\ 6 \in 1..8 /\ 7 \in 1..8 /\ 8 \in 1..8
  OBVIOUS
<1> QED
  BY <1>4, <1>6, <1>7 DEF high, middle, low, IsHeader

LEMMA IntDataIs ==
  ASSUME NEW hops \in Seq(Hop), Len(hops) \in 1..4
  PROVE  /\ IntData(hops) \in Seq(Byte) /\ Len(IntData(hops)) = 8 * Len(hops)
         /\ \A i \in 1..Len(hops) : At(IntData(hops), 8 * (i - 1), Metadata(hops[i]))
<1>1. ASSUME NEW m \in 1..(8 * Len(hops))
      PROVE  /\ ((m - 1) \div 8) + 1 \in 1..Len(hops)
             /\ ((m - 1) % 8) + 1 \in 1..8
  OBVIOUS
<1>2. ASSUME NEW i \in 1..Len(hops)
      PROVE  Metadata(hops[i]) \in Seq(Byte) /\ Len(Metadata(hops[i])) = 8
  BY MetadataIs
<1>3. ASSUME NEW m \in 1..(8 * Len(hops))
      PROVE  Metadata(hops[((m - 1) \div 8) + 1])[((m - 1) % 8) + 1] \in Byte
  <2>1. PICK i \in 1..Len(hops) : i = ((m - 1) \div 8) + 1
    BY <1>1
  <2>2. PICK j \in 1..8 : j = ((m - 1) % 8) + 1
    BY <1>1
  <2>3. Metadata(hops[i])[j] \in Byte
    BY <1>2
  <2> QED
    BY <2>1, <2>2, <2>3
<1>4. IntData(hops) = [m \in 1..(8 * Len(hops)) |->
                         Metadata(hops[((m - 1) \div 8) + 1])[((m - 1) % 8) + 1]]
  BY DEF IntData, HopBytes
<1>5. IntData(hops) \in Seq(Byte) /\ Len(IntData(hops)) = 8 * Len(hops)
  BY <1>3, <1>4
<1>6. ASSUME NEW i \in 1..Len(hops), NEW j \in 1..8
      PROVE  IntData(hops)[8 * (i - 1) + j] = Metadata(hops[i])[j]
  <2>1. PICK m \in 1..(8 * Len(hops)) : m = 8 * (i - 1) + j
    OBVIOUS
  <2>2. ((m - 1) \div 8) + 1 = i /\ ((m - 1) % 8) + 1 = j
    BY <2>1
  <2> QED
    BY <1>4, <2>1, <2>2
<1>7. ASSUME NEW i \in 1..Len(hops)
      PROVE  At(IntData(hops), 8 * (i - 1), Metadata(hops[i]))
  <2>1. 8 * (i - 1) \in Nat /\ 8 * (i - 1) + 8 <= 8 * Len(hops)
    OBVIOUS
  <2>2. Metadata(hops[i]) \in Seq(Byte) /\ Len(Metadata(hops[i])) = 8
    BY <1>2
  <2>3. Len(IntData(hops)) = 8 * Len(hops)
    BY <1>5
  <2> HIDE DEF IntData
  <2> QED
    BY <1>6, <2>1, <2>2, <2>3 DEF At
<1> QED
  BY <1>5, <1>7

(* Where the flowlet flag comes in what is emitted, and the hops' metadata. *)
FlagAt(p) == 30 + IpBytes(p) + SrhBytes(p) + L4Bytes(p)

Layout(bytes, p) ==
  /\ bytes \in Seq(Byte) /\ Len(bytes) = FlagAt(p) + 73 + 8 * Len(p.hops)
  /\ At(bytes, 16, Ethernet(p))
  /\ At(bytes, 30, IpHeader(p))
  /\ At(bytes, 30 + IpBytes(p), Srv6Header(p))
  /\ At(bytes, 30 + IpBytes(p) + SrhBytes(p), L4Header(p))
  /\ At(bytes, FlagAt(p), FlowletHeader(p))
  /\ At(bytes, FlagAt(p) + 1, IntShim(p))
  /\ At(bytes, FlagAt(p) + 5, IntHeader)
  /\ At(bytes, FlagAt(p) + 13, IntData(p.hops))

LEMMA IpHeaderIs ==
  ASSUME NEW p \in Packet
  PROVE  /\ IpHeader(p) \in Seq(Byte) /\ Len(IpHeader(p)) = IpBytes(p)
         /\ IpBytes(p) \in {20, 40}
<1>1. CASE IsV6(p)
  BY <1>1, Ipv6HeaderIs DEF IsHeader, IpBytes
<1>2. CASE ~ IsV6(p)
  BY <1>2, Ipv4HeaderIs DEF IsHeader, IpBytes
<1> QED
  BY <1>1, <1>2

LEMMA EmittedLayout ==
  ASSUME NEW p \in Packet
  PROVE  Layout(Emitted(p), p)
<1> DEFINE A == ReportHeader
           B == Ethernet(p)
           C == IpHeader(p)
           D == Srv6Header(p)
           E == L4Header(p)
           F == FlowletHeader(p)
           G == IntShim(p)
           H == IntHeader
           I == IntData(p.hops)
           J == Zeros("rest", 60)
           n == Len(p.hops)
<1>1. /\ A \in Seq(Byte) /\ Len(A) = 16 /\ B \in Seq(Byte) /\ Len(B) = 14
      /\ F \in Seq(Byte) /\ Len(F) = 1 /\ G \in Seq(Byte) /\ Len(G) = 4
      /\ H \in Seq(Byte) /\ Len(H) = 8 /\ J \in Seq(Byte) /\ Len(J) = 60
  BY ReportHeaderIs, EthernetIs, FlowletHeaderIs, IntShimIs, IntHeaderIs, RestIs DEF IsHeader
<1>2. C \in Seq(Byte) /\ Len(C) = IpBytes(p) /\ IpBytes(p) \in Nat
  BY IpHeaderIs
<1>3. D \in Seq(Byte) /\ Len(D) = SrhBytes(p) /\ SrhBytes(p) \in Nat
  BY Srv6HeaderIs, PacketIs DEF IsHeader, SrhBytes
<1>4. E \in Seq(Byte) /\ Len(E) = L4Bytes(p) /\ L4Bytes(p) \in Nat
  BY L4HeaderIs DEF IsHeader, L4Bytes
<1>5. I \in Seq(Byte) /\ Len(I) = 8 * n /\ n \in Nat
  BY PacketIs, IntDataIs
<1>6. Emitted(p) = A \o B \o C \o D \o E \o F \o G \o H \o I \o J
  BY DEF Emitted
<1> HIDE DEF A, B, C, D, E, F, G, H, I, J, n
<1> DEFINE AB == A \o B
           AC == AB \o C
           AD == AC \o D
           AE == AD \o E
           AF == AE \o F
           AG == AF \o G
           AH == AG \o H
           AI == AH \o I
           AJ == AI \o J
<1>7. FlagAt(p) = 30 + IpBytes(p) + SrhBytes(p) + L4Bytes(p) /\ FlagAt(p) \in Nat
  BY <1>2, <1>3, <1>4 DEF FlagAt
<1>11. Appended(AB, A, B) /\ AB \in Seq(Byte) /\ Len(AB) = 30 /\ At(AB, 16, B)
  <2>1. Appended(AB, A, B)
    BY <1>1 DEF Appended
  <2> HIDE DEF AB
  <2>2. AB \in Seq(Byte) /\ Len(AB) = Len(A) + Len(B) /\ At(AB, Len(A), B)
    BY <2>1, AppendedAt
  <2> QED
    BY <1>1, <2>1, <2>2
<1> HIDE DEF AB
<1>12. Appended(AC, AB, C) /\ AC \in Seq(Byte) /\ Len(AC) = 30 + IpBytes(p) /\ At(AC, 30, C)
  <2>1. Appended(AC, AB, C)
    BY <1>2, <1>11 DEF Appended
  <2> HIDE DEF AC
  <2>2. AC \in Seq(Byte) /\ Len(AC) = Len(AB) + Len(C) /\ At(AC, Len(AB), C)
    BY <2>1, AppendedAt
  <2> QED
    BY <1>2, <1>11, <2>1, <2>2
<1> HIDE DEF AC
<1>13. /\ Appended(AD, AC, D) /\ AD \in Seq(Byte)
       /\ Len(AD) = 30 + IpBytes(p) + SrhBytes(p) /\ At(AD, 30 + IpBytes(p), D)
  <2>1. Appended(AD, AC, D)
    BY <1>2, <1>3, <1>12 DEF Appended
  <2> HIDE DEF AD
  <2>2. AD \in Seq(Byte) /\ Len(AD) = Len(AC) + Len(D) /\ At(AD, Len(AC), D)
    BY <2>1, AppendedAt
  <2> QED
    BY <1>2, <1>3, <1>12, <2>1, <2>2
<1> HIDE DEF AD
<1>14. /\ Appended(AE, AD, E) /\ AE \in Seq(Byte) /\ Len(AE) = FlagAt(p)
       /\ At(AE, 30 + IpBytes(p) + SrhBytes(p), E)
  <2>1. Appended(AE, AD, E)
    BY <1>2, <1>3, <1>4, <1>7, <1>13 DEF Appended
  <2> HIDE DEF AE
  <2>2. AE \in Seq(Byte) /\ Len(AE) = Len(AD) + Len(E) /\ At(AE, Len(AD), E)
    BY <2>1, AppendedAt
  <2> QED
    BY <1>2, <1>3, <1>4, <1>7, <1>13, <2>1, <2>2
<1> HIDE DEF AE
<1>15. Appended(AF, AE, F) /\ AF \in Seq(Byte) /\ Len(AF) = FlagAt(p) + 1 /\ At(AF, FlagAt(p), F)
  <2>1. Appended(AF, AE, F)
    BY <1>1, <1>7, <1>14 DEF Appended
  <2> HIDE DEF AF
  <2>2. AF \in Seq(Byte) /\ Len(AF) = Len(AE) + Len(F) /\ At(AF, Len(AE), F)
    BY <2>1, AppendedAt
  <2> QED
    BY <1>1, <1>7, <1>14, <2>1, <2>2
<1> HIDE DEF AF
<1>16. /\ Appended(AG, AF, G) /\ AG \in Seq(Byte) /\ Len(AG) = FlagAt(p) + 5
       /\ At(AG, FlagAt(p) + 1, G)
  <2>1. Appended(AG, AF, G)
    BY <1>1, <1>7, <1>15 DEF Appended
  <2> HIDE DEF AG
  <2>2. AG \in Seq(Byte) /\ Len(AG) = Len(AF) + Len(G) /\ At(AG, Len(AF), G)
    BY <2>1, AppendedAt
  <2> QED
    BY <1>1, <1>7, <1>15, <2>1, <2>2
<1> HIDE DEF AG
<1>17. /\ Appended(AH, AG, H) /\ AH \in Seq(Byte) /\ Len(AH) = FlagAt(p) + 13
       /\ At(AH, FlagAt(p) + 5, H)
  <2>1. Appended(AH, AG, H)
    BY <1>1, <1>7, <1>16 DEF Appended
  <2> HIDE DEF AH
  <2>2. AH \in Seq(Byte) /\ Len(AH) = Len(AG) + Len(H) /\ At(AH, Len(AG), H)
    BY <2>1, AppendedAt
  <2> QED
    BY <1>1, <1>7, <1>16, <2>1, <2>2
<1> HIDE DEF AH
<1>18. /\ Appended(AI, AH, I) /\ AI \in Seq(Byte) /\ Len(AI) = FlagAt(p) + 13 + 8 * n
       /\ At(AI, FlagAt(p) + 13, I)
  <2>1. Appended(AI, AH, I)
    BY <1>5, <1>7, <1>17 DEF Appended
  <2> HIDE DEF AI
  <2>2. AI \in Seq(Byte) /\ Len(AI) = Len(AH) + Len(I) /\ At(AI, Len(AH), I)
    BY <2>1, AppendedAt
  <2> QED
    BY <1>5, <1>7, <1>17, <2>1, <2>2
<1> HIDE DEF AI
<1>19. Appended(AJ, AI, J) /\ AJ \in Seq(Byte) /\ Len(AJ) = FlagAt(p) + 73 + 8 * n
  <2>1. Appended(AJ, AI, J)
    BY <1>1, <1>5, <1>7, <1>18 DEF Appended
  <2> HIDE DEF AJ
  <2>2. AJ \in Seq(Byte) /\ Len(AJ) = Len(AI) + Len(J) /\ At(AJ, Len(AI), J)
    BY <2>1, AppendedAt
  <2>3. Len(AJ) = Len(AI) + 60 /\ Len(AI) = FlagAt(p) + 13 + 8 * n
    BY <1>1, <1>18, <2>2
  <2>4. n \in Nat /\ FlagAt(p) \in Nat
    BY <1>5, <1>7
  <2>5. Len(AJ) = FlagAt(p) + 73 + 8 * n
    BY <2>3, <2>4
  <2> QED
    BY <2>1, <2>2, <2>5
<1> HIDE DEF AJ
<1>20. At(AJ, 16, B)
  BY <1>11, <1>12, <1>13, <1>14, <1>15, <1>16, <1>17, <1>18, <1>19, StaysAt
<1>21. At(AJ, 30, C)
  BY <1>12, <1>13, <1>14, <1>15, <1>16, <1>17, <1>18, <1>19, StaysAt
<1>22. At(AJ, 30 + IpBytes(p), D)
  BY <1>13, <1>14, <1>15, <1>16, <1>17, <1>18, <1>19, StaysAt
<1>23. At(AJ, 30 + IpBytes(p) + SrhBytes(p), E)
  BY <1>14, <1>15, <1>16, <1>17, <1>18, <1>19, StaysAt
<1>24. At(AJ, FlagAt(p), F)
  BY <1>15, <1>16, <1>17, <1>18, <1>19, StaysAt
<1>25. At(AJ, FlagAt(p) + 1, G)
  BY <1>16, <1>17, <1>18, <1>19, StaysAt
<1>26. At(AJ, FlagAt(p) + 5, H)
  BY <1>17, <1>18, <1>19, StaysAt
<1>27. At(AJ, FlagAt(p) + 13, I)
  BY <1>18, <1>19, StaysAt
<1>28. Emitted(p) = AJ
  BY <1>6 DEF AB, AC, AD, AE, AF, AG, AH, AI, AJ
<1> QED
  BY <1>19, <1>20, <1>21, <1>22, <1>23, <1>24, <1>25, <1>26, <1>27, <1>28
     DEF Layout, B, C, D, E, F, G, H, I, n

(* The first m bytes. *)
IsFront(s, e, m) == e \in Seq(Byte) /\ m \in Nat /\ m <= Len(e) /\ s = SubSeq(e, 1, m)
Holds(s, e, m) == s \in Seq(Byte) /\ Len(s) = m /\ \A i \in 1..m : s[i] = e[i]

LEMMA FrontOf ==
  ASSUME NEW s, NEW e, NEW m, IsFront(s, e, m)
  PROVE  Holds(s, e, m)
<1> USE DEF IsFront, Holds
<1>1. Len(e) \in Nat /\ \A i \in 1..m : i \in 1..Len(e) /\ e[i] \in Byte /\ i + 1 - 1 = i
  OBVIOUS
<1>2. s = [i \in 1..m |-> e[i]]
  OBVIOUS
<1>3. [i \in 1..m |-> e[i]] \in [1..m -> Byte]
  BY <1>1
<1>4. [i \in 1..m |-> e[i]] \in Seq(Byte)
  BY <1>3
<1> QED
  BY <1>2, <1>4

(* The datagram: what TotalLen leaves of it. *)
Datagram(p) ==
  /\ data \in Seq(Byte)
  /\ Len(data) = 42 + IpBytes(p) + SrhBytes(p) + 8 * Len(p.hops)
                 + (IF IsUdp(p) THEN 8 ELSE 4 * p.dataOffset)
  /\ \A i \in 1..Len(data) : data[i] = Emitted(p)[i]

LEMMA DatagramIs ==
  ASSUME NEW p \in Packet, data = SubSeq(Emitted(p), 1, TotalLen(p) - 20 - 8)
  PROVE  Datagram(p)
<1>1. PICK ip \in Nat, srh \in Nat, l4 \in Nat, k \in Nat, d \in 0..15 :
        /\ ip = IpBytes(p) /\ srh = SrhBytes(p) /\ l4 = L4Bytes(p)
        /\ k = Len(p.hops) /\ d = p.dataOffset
  <2>1. SrhBytes(p) \in Nat
    BY PacketIs DEF SrhBytes
  <2>2. L4Bytes(p) \in Nat /\ IpBytes(p) \in Nat
    BY DEF L4Bytes, IpBytes
  <2>3. Len(p.hops) \in Nat /\ p.dataOffset \in 0..15
    BY PacketIs
  <2> QED
    BY <2>1, <2>2, <2>3
<1> DEFINE m == 42 + ip + srh + 8 * k + (IF IsUdp(p) THEN 8 ELSE 4 * d)
<1>2. TotalLen(p) - 20 - 8 = m
  <2>1. ip = IF IsV6(p) THEN 40 ELSE 20
    BY <1>1 DEF IpBytes
  <2>2. ShimLen(p) = 3 + 2 * k
    BY <1>1 DEF ShimLen
  <2> QED
    <3>1. TotalLen(p) = 20 + 8 + 14 + 16 + ip + 4 * ShimLen(p) + srh
                        + (IF IsUdp(p) THEN 8 ELSE 4 * d)
      BY <1>1, <2>1 DEF TotalLen
    <3> QED
      BY <2>2, <3>1
<1>3. m \in Nat /\ m <= FlagAt(p) + 73 + 8 * k
  <2>1. l4 = IF IsUdp(p) THEN 8 ELSE 20
    BY <1>1 DEF L4Bytes
  <2>2. FlagAt(p) = 30 + ip + srh + l4
    BY <1>1 DEF FlagAt
  <2> QED
    BY <2>1, <2>2
<1>4. Emitted(p) \in Seq(Byte) /\ Len(Emitted(p)) = FlagAt(p) + 73 + 8 * k
  BY <1>1, EmittedLayout DEF Layout
<1> HIDE DEF m
<1>5. data = SubSeq(Emitted(p), 1, m)
  BY <1>2
<1>6. Holds(data, Emitted(p), m)
  <2>1. m \in Nat /\ m <= Len(Emitted(p))
    BY <1>3, <1>4
  <2>2. IsFront(data, Emitted(p), m)
    BY <1>4, <1>5, <2>1 DEF IsFront
  <2> QED
    BY <2>2, FrontOf
<1> QED
  BY <1>1, <1>6 DEF Datagram, Holds, m

-----------------------------------------------------------------------------
(* IntReport: the numbers that the collector reads.                        *)

LEMMA ByteValue == ASSUME NEW b \in Byte PROVE b.v \in Int
BY DEF Byte

NumberOf(s) == FoldLeft(LAMBDA x, byte : 256 * x + byte.v, 0, s)

(* The function that the fold of a number computes. *)
LEMMA NumberIs ==
  ASSUME NEW s \in Seq(Byte)
  PROVE  \E g : /\ NumberOf(s) = g[DOMAIN s]
                /\ g[{}] = 0
                /\ \A k \in 1..Len(s) : /\ g[1..k] \in Int
                                        /\ g[1..k] = 256 * g[1..(k - 1)] + s[k].v
<1> DEFINE D == DOMAIN s
           iter[t \in SUBSET D] ==
             IF t = {} THEN 0
             ELSE LET x == Max(t) IN 256 * iter[t \ {x}] + s[x].v
           pick == [t \in SUBSET D |-> Max(t)]
           F == [q \in D \X Int |-> 256 * q[2] + s[q[1]].v]
           Rhs(g) == [t \in SUBSET D |->
                        IF t = {} THEN 0 ELSE 256 * g[t \ {Max(t)}] + s[Max(t)].v]
<1>1. NumberOf(s) = iter[D]
  BY DEF NumberOf, FoldLeft, MapThenFoldSet
<1>2. PICK n \in Nat : n = Len(s) /\ D = 1..n
  OBVIOUS
<1>3. IsFiniteSet(D)
  BY <1>2, FS_Interval
<1>4. \A i \in D : s[i].v \in Int
  <2>1. \A i \in D : s[i] \in Byte
    OBVIOUS
  <2> QED
    BY <2>1, ByteValue
<1> HIDE DEF D
<1>5. \A t \in SUBSET D : t # {} => Max(t) \in t /\ \A y \in t : y <= Max(t)
  <2>1. \A t \in SUBSET D : t \in SUBSET (0..n)
    BY <1>2
  <2> QED
    BY <2>1, MaxOf
<1>6. Picks(D, pick)
  BY <1>5 DEF Picks
<1>7. F \in [D \X Int -> Int]
  BY <1>4
<1>8. PICK g \in [SUBSET D -> Int] : IsFold(D, 0, pick, F, g)
  <2> HIDE DEF pick, F
  <2>1. 0 \in Int
    OBVIOUS
  <2> QED
    BY <1>3, <1>6, <1>7, <2>1, FoldExists
<1>9. g = Rhs(g)
  <2>1. ASSUME NEW t \in SUBSET D, t # {}
        PROVE  F[<<pick[t], g[t \ {pick[t]}]>>] = 256 * g[t \ {Max(t)}] + s[Max(t)].v
    <3>1. Max(t) \in D /\ t \ {Max(t)} \in SUBSET D
      BY <1>5, <2>1
    <3>2. g[t \ {Max(t)}] \in Int
      BY <3>1
    <3>3. <<Max(t), g[t \ {Max(t)}]>> \in D \X Int
      BY <3>1, <3>2
    <3> QED
      BY <3>3
  <2> HIDE DEF pick, F
  <2> QED
    BY <1>8, <2>1 DEF IsFold
<1>10. iter = CHOOSE h : h = Rhs(h)
  BY DEF iter
<1>11. iter = Rhs(iter)
  <2> HIDE DEF iter, Rhs
  <2> QED
    BY <1>9, <1>10
<1>12. \A t \in SUBSET D : t # {} => iter[t] = 256 * iter[t \ {Max(t)}] + s[Max(t)].v
  BY <1>11
<1>13. iter[{}] = 0
  BY <1>11
<1>14. \A t \in SUBSET D : iter[t] \in Int
  <2> DEFINE Good == {t \in SUBSET D : iter[t] \in Int}
  <2>1. ASSUME NEW t \in SUBSET D, t # {}
        PROVE  pick[t] \in t /\ (t \ {pick[t]} \in Good => t \in Good)
    <3>1. pick[t] = Max(t) /\ Max(t) \in t /\ s[Max(t)].v \in Int
      BY <1>4, <1>5, <2>1
    <3>2. iter[t] = 256 * iter[t \ {Max(t)}] + s[Max(t)].v
      BY <1>12, <2>1
    <3> HIDE DEF iter, pick
    <3> QED
      BY <3>1, <3>2
  <2>2. {} \in Good
    BY <1>13
  <2>3. Inductive(D, pick, Good)
    <3> HIDE DEF Good, pick
    <3> QED
      BY <2>1, <2>2 DEF Inductive
  <2>4. SUBSET D \subseteq Good
    <3> HIDE DEF Good, pick
    <3> QED
      BY <1>3, <2>3, SubsetInduction
  <2> HIDE DEF iter
  <2> QED
    BY <2>4
<1>15. ASSUME NEW k \in 1..n
       PROVE  iter[1..k] \in Int /\ iter[1..k] = 256 * iter[1..(k - 1)] + s[k].v
  <2>0. k \in 1..k /\ 1..k \in SUBSET D
    BY <1>2
  <2>1. PICK t \in SUBSET D : t = 1..k /\ k \in t
    BY <2>0
  <2>2. Max(t) \in t /\ k <= Max(t)
    <3>1. t # {}
      BY <2>1
    <3>2. Max(t) \in t /\ \A y \in t : y <= Max(t)
      BY <1>5, <3>1
    <3> QED
      BY <2>1, <3>2
  <2>3. Max(t) = k
    BY <2>1, <2>2
  <2>4. t \ {k} = 1..(k - 1)
    BY <2>1
  <2> HIDE DEF iter
  <2>5. iter[t] = 256 * iter[t \ {Max(t)}] + s[Max(t)].v
    BY <1>12, <2>1, <2>2
  <2>6. iter[t] = 256 * iter[1..(k - 1)] + s[k].v
    BY <2>3, <2>4, <2>5
  <2>7. iter[t] \in Int
    BY <1>14
  <2> QED
    BY <2>1, <2>6, <2>7
<1> HIDE DEF iter
<1> QED
  BY <1>1, <1>2, <1>13, <1>15 DEF D

LEMMA NumberOfBytes ==
  ASSUME NEW s \in Seq(Byte)
  PROVE  /\ Len(s) = 1 => NumberOf(s) = s[1].v
         /\ Len(s) = 2 => NumberOf(s) = 256 * s[1].v + s[2].v
         /\ Len(s) = 3 => NumberOf(s) = 65536 * s[1].v + 256 * s[2].v + s[3].v
         /\ Len(s) = 4 => NumberOf(s) = 16777216 * s[1].v + 65536 * s[2].v
                                        + 256 * s[3].v + s[4].v
<1>1. PICK g : /\ NumberOf(s) = g[DOMAIN s]
               /\ g[{}] = 0
               /\ \A k \in 1..Len(s) : /\ g[1..k] \in Int
                                       /\ g[1..k] = 256 * g[1..(k - 1)] + s[k].v
  BY NumberIs
<1>2. ASSUME NEW k \in 1..Len(s) PROVE s[k].v \in Int
  <2>1. s[k] \in Byte
    OBVIOUS
  <2> QED
    BY <2>1, ByteValue
<1>3. NumberOf(s) = g[1..Len(s)]
  BY <1>1
<1> DEFINE h(k) == g[1..k]
<1>4. h(0) = 0
  <2>1. 1..0 = {}
    OBVIOUS
  <2> QED
    BY <1>1, <2>1
<1>5. ASSUME NEW k \in 1..Len(s) PROVE h(k) \in Int /\ h(k) = 256 * h(k - 1) + s[k].v
  BY <1>1
<1>6. NumberOf(s) = h(Len(s))
  BY <1>3
<1> HIDE DEF h
<1>7. Len(s) >= 1 => s[1].v \in Int /\ h(1) = s[1].v
  <2> SUFFICES ASSUME Len(s) >= 1 PROVE s[1].v \in Int /\ h(1) = s[1].v
    OBVIOUS
  <2>1. h(1) = 256 * h(1 - 1) + s[1].v /\ s[1].v \in Int
    BY <1>2, <1>5
  <2> QED
    BY <1>4, <2>1
<1>8. Len(s) >= 2 => s[2].v \in Int /\ h(2) = 256 * s[1].v + s[2].v
  <2> SUFFICES ASSUME Len(s) >= 2 PROVE s[2].v \in Int /\ h(2) = 256 * s[1].v + s[2].v
    OBVIOUS
  <2>1. h(2) = 256 * h(2 - 1) + s[2].v /\ s[2].v \in Int
    BY <1>2, <1>5
  <2> QED
    BY <1>7, <2>1
<1>9. Len(s) >= 3 => s[3].v \in Int /\ h(3) = 65536 * s[1].v + 256 * s[2].v + s[3].v
  <2> SUFFICES ASSUME Len(s) >= 3
               PROVE  s[3].v \in Int /\ h(3) = 65536 * s[1].v + 256 * s[2].v + s[3].v
    OBVIOUS
  <2>1. h(3) = 256 * h(2) + s[3].v /\ s[3].v \in Int
    <3>1. 3 \in 1..Len(s) /\ 3 - 1 = 2
      OBVIOUS
    <3> QED
      BY <1>2, <1>5, <3>1
  <2>2. PICK a \in Int, b \in Int, c \in Int : a = s[1].v /\ b = s[2].v /\ c = s[3].v
    <3>1. 1 \in 1..Len(s) /\ 2 \in 1..Len(s)
      OBVIOUS
    <3> QED
      BY <1>2, <2>1, <3>1, Zenon
  <2>3. h(2) = 256 * a + b
    BY <1>8, <2>2
  <2>4. 256 * (256 * a + b) + c = 65536 * a + 256 * b + c
    OBVIOUS
  <2> QED
    BY <2>1, <2>2, <2>3, <2>4
<1>10. Len(s) >= 4 => h(4) = 16777216 * s[1].v + 65536 * s[2].v + 256 * s[3].v + s[4].v
  <2> SUFFICES ASSUME Len(s) >= 4
               PROVE  h(4) = 16777216 * s[1].v + 65536 * s[2].v + 256 * s[3].v + s[4].v
    OBVIOUS
  <2>1. h(4) = 256 * h(3) + s[4].v /\ s[4].v \in Int
    <3>1. 4 \in 1..Len(s) /\ 4 - 1 = 3
      OBVIOUS
    <3> QED
      BY <1>2, <1>5, <3>1
  <2>2. PICK a \in Int, b \in Int, c \in Int, d \in Int :
          a = s[1].v /\ b = s[2].v /\ c = s[3].v /\ d = s[4].v
    <3>1. 1 \in 1..Len(s) /\ 2 \in 1..Len(s) /\ 3 \in 1..Len(s)
      OBVIOUS
    <3> QED
      BY <1>2, <2>1, <3>1, Zenon
  <2>3. h(3) = 65536 * a + 256 * b + c
    BY <1>9, <2>2
  <2>4. 256 * (65536 * a + 256 * b + c) + d = 16777216 * a + 65536 * b + 256 * c + d
    OBVIOUS
  <2> QED
    BY <2>1, <2>2, <2>3, <2>4
<1>11. Len(s) = 1 => NumberOf(s) = s[1].v
  BY <1>6, <1>7
<1>12. Len(s) = 2 => NumberOf(s) = 256 * s[1].v + s[2].v
  BY <1>6, <1>8
<1>13. Len(s) = 3 => NumberOf(s) = 65536 * s[1].v + 256 * s[2].v + s[3].v
  BY <1>6, <1>9
<1>14. Len(s) = 4 => NumberOf(s) = 16777216 * s[1].v + 65536 * s[2].v + 256 * s[3].v + s[4].v
  BY <1>6, <1>10
<1> QED
  BY <1>11, <1>12, <1>13, <1>14

(* A slice that ends before the datagram does. *)
SliceHolds(s, a, n) ==
  /\ s \in Seq(Byte) /\ Len(s) = n
  /\ \A i \in 1..n : s[i] = data[a + i]

LEMMA SliceIs ==
  ASSUME data \in Seq(Byte), NEW a \in Nat, NEW n \in Nat, a + n <= Len(data)
  PROVE  SliceHolds(Slice(a, n), a, n)
<1>1. Slice(a, n) = SubSeq(data, a + 1, a + n)
  BY DEF Slice
<1>2. \A i \in 1..n : a + i \in 1..Len(data) /\ data[a + i] \in Byte
  OBVIOUS
<1>3. SubSeq(data, a + 1, a + n) = [i \in 1..n |-> data[a + i]]
  OBVIOUS
<1>4. [i \in 1..n |-> data[a + i]] \in [1..n -> Byte]
  BY <1>2
<1>5. [i \in 1..n |-> data[a + i]] \in Seq(Byte)
  BY <1>4
<1> QED
  BY <1>1, <1>3, <1>5 DEF SliceHolds

LEMMA NumberOne ==
  ASSUME data \in Seq(Byte), NEW a \in Nat, a + 1 <= Len(data)
  PROVE  Number(a, 1) = data[a + 1].v
<1>1. SliceHolds(Slice(a, 1), a, 1)
  BY SliceIs
<1>2. PICK s : s = Slice(a, 1) /\ SliceHolds(s, a, 1)
  BY <1>1
<1>3. s \in Seq(Byte) /\ Len(s) = 1 /\ s[1] = data[a + 1]
  BY <1>2 DEF SliceHolds
<1>4. NumberOf(s) = s[1].v
  BY <1>3, NumberOfBytes
<1>5. Number(a, 1) = NumberOf(s)
  BY <1>2 DEF Number, NumberOf
<1> QED
  BY <1>3, <1>4, <1>5

LEMMA NumberTwo ==
  ASSUME data \in Seq(Byte), NEW a \in Nat, a + 2 <= Len(data)
  PROVE  Number(a, 2) = 256 * data[a + 1].v + data[a + 2].v
<1>1. SliceHolds(Slice(a, 2), a, 2)
  BY SliceIs
<1>2. PICK s : s = Slice(a, 2) /\ SliceHolds(s, a, 2)
  BY <1>1
<1>3. s \in Seq(Byte) /\ Len(s) = 2 /\ s[1] = data[a + 1] /\ s[2] = data[a + 2]
  BY <1>2 DEF SliceHolds
<1>4. NumberOf(s) = 256 * s[1].v + s[2].v
  BY <1>3, NumberOfBytes
<1>5. Number(a, 2) = NumberOf(s)
  BY <1>2 DEF Number, NumberOf
<1> QED
  BY <1>3, <1>4, <1>5

LEMMA NumberThree ==
  ASSUME data \in Seq(Byte), NEW a \in Nat, a + 3 <= Len(data)
  PROVE  Number(a, 3) = 65536 * data[a + 1].v + 256 * data[a + 2].v + data[a + 3].v
<1>1. SliceHolds(Slice(a, 3), a, 3)
  BY SliceIs
<1>2. PICK s : s = Slice(a, 3) /\ SliceHolds(s, a, 3)
  BY <1>1
<1>3. /\ s \in Seq(Byte) /\ Len(s) = 3 /\ s[1] = data[a + 1] /\ s[2] = data[a + 2]
      /\ s[3] = data[a + 3]
  BY <1>2 DEF SliceHolds
<1>4. NumberOf(s) = 65536 * s[1].v + 256 * s[2].v + s[3].v
  BY <1>3, NumberOfBytes
<1>5. Number(a, 3) = NumberOf(s)
  BY <1>2 DEF Number, NumberOf
<1> QED
  BY <1>3, <1>4, <1>5

LEMMA NumberFour ==
  ASSUME data \in Seq(Byte), NEW a \in Nat, a + 4 <= Len(data)
  PROVE  Number(a, 4) = 16777216 * data[a + 1].v + 65536 * data[a + 2].v + 256 * data[a + 3].v
                          + data[a + 4].v
<1>1. SliceHolds(Slice(a, 4), a, 4)
  BY SliceIs
<1>2. PICK s : s = Slice(a, 4) /\ SliceHolds(s, a, 4)
  BY <1>1
<1>3. /\ s \in Seq(Byte) /\ Len(s) = 4 /\ s[1] = data[a + 1] /\ s[2] = data[a + 2]
      /\ s[3] = data[a + 3] /\ s[4] = data[a + 4]
  BY <1>2 DEF SliceHolds
<1>4. NumberOf(s) = 16777216 * s[1].v + 65536 * s[2].v + 256 * s[3].v + s[4].v
  BY <1>3, NumberOfBytes
<1>5. Number(a, 4) = NumberOf(s)
  BY <1>2 DEF Number, NumberOf
<1> QED
  BY <1>3, <1>4, <1>5

-----------------------------------------------------------------------------
(* IntReport: what the collector finds in the datagram.                    *)

LEMMA ReadByte ==
  ASSUME NEW p, Datagram(p), NEW a, NEW s, At(Emitted(p), a, s),
         NEW i \in 1..Len(s), a + i <= Len(data)
  PROVE  data[a + i] = s[i]
<1>1. a \in Nat /\ Emitted(p)[a + i] = s[i] /\ Len(s) \in Nat
  BY DEF At
<1>2. a + i \in 1..Len(data)
  BY <1>1 DEF Datagram
<1> QED
  BY <1>1, <1>2 DEF Datagram

LEMMA Sizes ==
  ASSUME NEW p \in Packet, Datagram(p)
  PROVE  /\ data \in Seq(Byte) /\ Len(data) \in Nat
         /\ Len(p.hops) \in 1..4 /\ p.segments \in 0..3
         /\ IpBytes(p) \in {20, 40} /\ SrhBytes(p) \in Nat /\ L4Bytes(p) \in {8, 20}
         /\ FlagAt(p) = 30 + IpBytes(p) + SrhBytes(p) + L4Bytes(p)
         /\ FlagAt(p) \in Nat /\ FlagAt(p) >= 38 + IpBytes(p) + SrhBytes(p)
         /\ Len(data) >= FlagAt(p) + 12 + 8 * Len(p.hops)
         /\ p.dataOffset > 5 => Len(data) >= FlagAt(p) + 13 + 8 * Len(p.hops)
         /\ ~ (p.dataOffset > 5) => Len(data) = FlagAt(p) + 12 + 8 * Len(p.hops)
         /\ Len(data) >= 58 + IpBytes(p) + SrhBytes(p)
<1>1. /\ Len(p.hops) \in 1..4 /\ p.segments \in 0..3
      /\ p.dataOffset \in {0} \union 5..15
  BY PacketIs
<1>2. IpBytes(p) \in {20, 40}
  BY DEF IpBytes
<1>3. SrhBytes(p) \in Nat
  BY <1>1 DEF SrhBytes
<1>4. L4Bytes(p) = IF IsUdp(p) THEN 8 ELSE 20
  BY DEF L4Bytes
<1>5. FlagAt(p) = 30 + IpBytes(p) + SrhBytes(p) + L4Bytes(p)
  BY DEF FlagAt
<1>6. PICK n \in 1..4, ip \in Nat, srh \in Nat, d \in 0..15 :
        n = Len(p.hops) /\ ip = IpBytes(p) /\ srh = SrhBytes(p) /\ d = p.dataOffset
  BY <1>1, <1>2, <1>3
<1>7. Len(data) = 42 + ip + srh + 8 * n + (IF IsUdp(p) THEN 8 ELSE 4 * d)
  BY <1>6 DEF Datagram
<1>8. IsUdp(p) <=> d = 0
  BY <1>6 DEF IsUdp
<1>9. d = 0 \/ d >= 5
  BY <1>1, <1>6
<1>10. FlagAt(p) = 30 + ip + srh + (IF IsUdp(p) THEN 8 ELSE 20)
  BY <1>4, <1>5, <1>6
<1>11. PICK f \in Nat, m \in Nat : f = FlagAt(p) /\ m = Len(data)
  BY <1>7, <1>10
<1>12. /\ m >= f + 12 + 8 * n /\ (d > 5 => m >= f + 13 + 8 * n)
       /\ ~ (d > 5) => m = f + 12 + 8 * n
       /\ f >= 38 + ip + srh /\ m >= 58 + ip + srh
  <2>1. CASE d = 0
    BY <1>7, <1>8, <1>10, <1>11, <2>1
  <2>2. CASE d >= 5
    BY <1>7, <1>8, <1>10, <1>11, <2>2
  <2> QED
    BY <1>9, <2>1, <2>2
<1>13. data \in Seq(Byte)
  BY DEF Datagram
<1>14. L4Bytes(p) \in {8, 20}
  BY <1>4
<1> QED
  BY <1>1, <1>2, <1>3, <1>5, <1>6, <1>11, <1>12, <1>13, <1>14

LEMMA EthertypeIs ==
  ASSUME NEW p \in Packet, Datagram(p)
  PROVE  Ethertype = IF IsV6(p) THEN 34525 ELSE 2048
<1>1. data \in Seq(Byte) /\ 30 <= Len(data)
  BY Sizes
<1>2. At(Emitted(p), 16, Ethernet(p))
  BY EmittedLayout DEF Layout
<1>3. 13 \in 1..Len(Ethernet(p)) /\ 14 \in 1..Len(Ethernet(p))
  <2>1. Len(Ethernet(p)) = 14
    BY EthernetIs DEF IsHeader
  <2> QED
    BY <2>1
<1>4. data[16 + 13] = Ethernet(p)[13]
  BY <1>1, <1>2, <1>3, ReadByte
<1>5. data[16 + 14] = Ethernet(p)[14]
  BY <1>1, <1>2, <1>3, ReadByte
<1>6. Number(28, 2) = 256 * data[28 + 1].v + data[28 + 2].v
  BY <1>1, NumberTwo
<1>7. data[29] = Ethernet(p)[13] /\ data[30] = Ethernet(p)[14]
  BY <1>4, <1>5
<1>8. Number(28, 2) = 256 * Ethernet(p)[13].v + Ethernet(p)[14].v
  BY <1>6, <1>7
<1>9. CASE IsV6(p)
  BY <1>8, <1>9, EthernetIs DEF Ethertype
<1>10. CASE ~ IsV6(p)
  BY <1>8, <1>10, EthernetIs DEF Ethertype
<1> QED
  BY <1>9, <1>10

(* With IPv6: the next header, at 36. *)
LEMMA NextHeaderIs ==
  ASSUME NEW p \in Packet, Datagram(p), IsV6(p)
  PROVE  Number(36, 1) = IF p.segments > 0 THEN 43 ELSE Proto(p)
<1>1. data \in Seq(Byte) /\ 37 <= Len(data)
  BY Sizes
<1>2. At(Emitted(p), 30, IpHeader(p))
  BY EmittedLayout DEF Layout
<1>3. 7 \in 1..Len(IpHeader(p)) /\ IpHeader(p)[7].v = IF p.segments > 0 THEN 43 ELSE Proto(p)
  <2>1. Len(IpHeader(p)) = 40
    BY Ipv6HeaderIs DEF IsHeader
  <2> QED
    BY <2>1, Ipv6HeaderIs
<1>4. data[30 + 7] = IpHeader(p)[7]
  BY <1>1, <1>2, <1>3, ReadByte
<1>5. Number(36, 1) = data[36 + 1].v
  BY <1>1, NumberOne
<1>6. data[37] = IpHeader(p)[7]
  BY <1>4
<1> QED
  BY <1>3, <1>5, <1>6

LEMMA SegmentsSeen ==
  ASSUME NEW p \in Packet, Datagram(p)
  PROVE  HasSegments <=> p.segments > 0
<1>1. CASE IsV6(p)
  <2>1. Ethertype = 34525 /\ Proto(p) # 43
    BY <1>1, EthertypeIs DEF Proto
  <2>2. Number(36, 1) = IF p.segments > 0 THEN 43 ELSE Proto(p)
    BY <1>1, NextHeaderIs
  <2> QED
    BY <2>1, <2>2 DEF HasSegments
<1>2. CASE ~ IsV6(p)
  <2>1. Ethertype # 34525
    BY <1>2, EthertypeIs
  <2>2. p.segments = 0
    BY <1>2, PacketIs DEF IsV6
  <2> QED
    BY <2>1, <2>2 DEF HasSegments
<1> QED
  BY <1>1, <1>2

LEMMA SegmentsV6 == ASSUME NEW p \in Packet, p.segments > 0 PROVE IsV6(p) /\ IpBytes(p) = 40
<1>1. p.version = 6
  BY PacketIs
<1> QED
  BY <1>1 DEF IsV6, IpBytes

(* The segment routing header of a packet that has one. *)
LEMMA SegmentBytes ==
  ASSUME NEW p \in Packet, Datagram(p), p.segments > 0
  PROVE  /\ Number(70, 1) = Proto(p) /\ Number(74, 1) = p.segments - 1
         /\ data[79] = Srv6Header(p)[9] /\ SrhBytes(p) >= 24
<1>1. data \in Seq(Byte) /\ Len(data) >= 94 /\ SrhBytes(p) >= 24
  <2>1. SrhBytes(p) >= 24
    BY PacketIs DEF SrhBytes
  <2>2. PICK m \in Nat, ip \in Nat, srh \in Nat :
          m = Len(data) /\ ip = IpBytes(p) /\ srh = SrhBytes(p) /\ m >= 58 + ip + srh
    <3>1. IpBytes(p) \in Nat
      BY DEF IpBytes
    <3>2. Len(data) \in Nat /\ SrhBytes(p) \in Nat /\ Len(data) >= 58 + IpBytes(p) + SrhBytes(p)
      BY Sizes
    <3> QED
      BY <3>1, <3>2
  <2>3. ip = 40
    BY <2>2, SegmentsV6
  <2>4. data \in Seq(Byte)
    BY Sizes
  <2> QED
    BY <2>1, <2>2, <2>3, <2>4
<1>2. At(Emitted(p), 70, Srv6Header(p))
  <2>1. 30 + IpBytes(p) = 70
    BY SegmentsV6
  <2>2. At(Emitted(p), 30 + IpBytes(p), Srv6Header(p))
    BY EmittedLayout DEF Layout
  <2> QED
    BY <2>1, <2>2
<1>3. /\ 1 \in 1..Len(Srv6Header(p)) /\ 5 \in 1..Len(Srv6Header(p)) /\ 9 \in 1..Len(Srv6Header(p))
      /\ Srv6Header(p)[1].v = Proto(p) /\ Srv6Header(p)[5].v = p.segments - 1
  <2>1. Len(Srv6Header(p)) = SrhBytes(p)
    BY Srv6HeaderIs DEF IsHeader
  <2> QED
    BY <1>1, <2>1, Srv6HeaderIs
<1>4. data[70 + 1] = Srv6Header(p)[1] /\ data[70 + 5] = Srv6Header(p)[5]
      /\ data[70 + 9] = Srv6Header(p)[9]
  BY <1>1, <1>2, <1>3, ReadByte
<1>5. data[71] = Srv6Header(p)[1] /\ data[75] = Srv6Header(p)[5] /\ data[79] = Srv6Header(p)[9]
  BY <1>4
<1>6. Number(70, 1) = data[70 + 1].v /\ Number(74, 1) = data[74 + 1].v
  BY <1>1, NumberOne
<1> QED
  BY <1>1, <1>3, <1>5, <1>6

LEMMA ShiftIs ==
  ASSUME NEW p \in Packet, Datagram(p)
  PROVE  Shift = IpBytes(p) - 20 + SrhBytes(p)
<1>1. (IF Ethertype = 34525 THEN 20 ELSE 0) = IpBytes(p) - 20
  BY EthertypeIs DEF IpBytes
<1>2. (IF HasSegments THEN 8 + 16 * (Number(74, 1) + 1) ELSE 0) = SrhBytes(p)
  <2>1. CASE p.segments > 0
    <3>1. HasSegments /\ Number(74, 1) = p.segments - 1 /\ p.segments \in Nat
      BY <2>1, SegmentsSeen, SegmentBytes, PacketIs
    <3>2. SrhBytes(p) = 8 + 16 * p.segments
      BY <2>1 DEF SrhBytes
    <3> QED
      BY <3>1, <3>2
  <2>2. CASE ~ (p.segments > 0)
    BY <2>2, SegmentsSeen DEF SrhBytes
  <2> QED
    BY <2>1, <2>2
<1> QED
  BY <1>1, <1>2 DEF Shift

LEMMA ProtocolIs ==
  ASSUME NEW p \in Packet, Datagram(p)
  PROVE  Protocol = Proto(p)
<1>1. CASE p.segments > 0
  BY <1>1, SegmentsSeen, SegmentBytes DEF Protocol
<1>2. CASE ~ (p.segments > 0) /\ IsV6(p)
  <2>1. ~ HasSegments /\ Ethertype = 34525 /\ Number(36, 1) = Proto(p)
    BY <1>2, SegmentsSeen, EthertypeIs, NextHeaderIs
  <2> QED
    BY <2>1 DEF Protocol
<1>3. CASE ~ (p.segments > 0) /\ ~ IsV6(p)
  <2>1. ~ HasSegments /\ Ethertype # 34525
    BY <1>3, SegmentsSeen, EthertypeIs
  <2>2. data \in Seq(Byte) /\ 40 <= Len(data)
    <3>1. PICK m \in Nat, ip \in {20, 40}, srh \in Nat :
            m = Len(data) /\ ip = IpBytes(p) /\ srh = SrhBytes(p) /\ m >= 58 + ip + srh
      BY Sizes
    <3> QED
      BY <3>1, Sizes
  <2>3. At(Emitted(p), 30, IpHeader(p))
    BY EmittedLayout DEF Layout
  <2>4. 10 \in 1..Len(IpHeader(p)) /\ IpHeader(p)[10].v = Proto(p)
    <3>1. Len(IpHeader(p)) = 20
      BY <1>3, Ipv4HeaderIs DEF IsHeader
    <3> QED
      BY <1>3, <3>1, Ipv4HeaderIs
  <2>5. data[30 + 10] = IpHeader(p)[10]
    BY <2>2, <2>3, <2>4, ReadByte
  <2>6. data[40] = IpHeader(p)[10]
    BY <2>5
  <2>7. Number(39, 1) = data[39 + 1].v
    BY <2>2, NumberOne
  <2>8. Number(39, 1) = Proto(p)
    BY <2>4, <2>6, <2>7
  <2> QED
    BY <2>1, <2>8 DEF Protocol
<1> QED
  BY <1>1, <1>2, <1>3

(* The collector's offset is that of the flag. *)
LEMMA OffsetIs ==
  ASSUME NEW p \in Packet, Datagram(p)
  PROVE  Offset = FlagAt(p) /\ 50 + Shift = 30 + IpBytes(p) + SrhBytes(p)
<1>1. Shift = IpBytes(p) - 20 + SrhBytes(p) /\ IpBytes(p) \in Nat /\ SrhBytes(p) \in Nat
  BY ShiftIs, Sizes
<1>2. (IF Protocol = 17 THEN 42 ELSE 54) = 34 + L4Bytes(p)
  BY ProtocolIs DEF Proto, L4Bytes
<1>3. L4Bytes(p) \in Nat /\ FlagAt(p) = 30 + IpBytes(p) + SrhBytes(p) + L4Bytes(p)
  BY DEF L4Bytes, FlagAt
<1> QED
  BY <1>1, <1>2, <1>3 DEF Offset

LEMMA SliceStarts ==
  ASSUME NEW p, Datagram(p), NEW a, NEW s, At(Emitted(p), a, s),
         NEW name, NEW size, IsHeader(s, name, size), NEW i \in 1..size,
         NEW b \in Nat, b + 1 = a + i, NEW n \in Nat, n > 0, b + n <= Len(data)
  PROVE  Starts(Slice(b, n), name, i - 1)
<1>1. data \in Seq(Byte) /\ Len(data) \in Nat
  BY DEF Datagram
<1>2. SliceHolds(Slice(b, n), b, n)
  BY <1>1, SliceIs
<1>3. PICK t : t = Slice(b, n) /\ SliceHolds(t, b, n)
  BY <1>2
<1>4. t # <<>> /\ t[1] = data[b + 1]
  BY <1>3 DEF SliceHolds
<1>5. s[i].header = name /\ s[i].at = i - 1 /\ i \in 1..Len(s)
  BY DEF IsHeader
<1>6. data[a + i] = s[i]
  <2>1. a + i <= Len(data)
    BY <1>1
  <2> QED
    BY <1>5, <2>1, ReadByte
<1>7. t[1].header = name /\ t[1].at = i - 1
  BY <1>4, <1>5, <1>6
<1> QED
  BY <1>3, <1>4, <1>7 DEF Starts

(* The numbers that relate a packet to the datagram. *)
Sized(p, m, f, n) ==
  /\ m \in Nat /\ f \in Nat /\ n \in 1..4
  /\ m = Len(data) /\ f = FlagAt(p) /\ n = Len(p.hops)
  /\ m >= f + 12 + 8 * n
  /\ p.dataOffset > 5 => m >= f + 13 + 8 * n
  /\ ~ (p.dataOffset > 5) => m = f + 12 + 8 * n

LEMMA SizedBy ==
  ASSUME NEW p \in Packet, Datagram(p)
  PROVE  \E m, f, n : Sized(p, m, f, n)
<1>1. Sized(p, Len(data), FlagAt(p), Len(p.hops))
  BY Sizes DEF Sized
<1> QED
  BY <1>1

LEMMA PortsFound ==
  ASSUME NEW p \in Packet, Datagram(p)
  PROVE  Starts(Slice(50 + Shift, 8), "l4", 0)
<1>1. PICK b : b = 50 + Shift /\ b = 30 + IpBytes(p) + SrhBytes(p)
  BY OffsetIs
<1>2. b \in Nat /\ b + 8 <= FlagAt(p) /\ FlagAt(p) <= Len(data)
  <2>1. PICK m, f, n : Sized(p, m, f, n)
    BY SizedBy
  <2>2. f <= m
    BY <2>1 DEF Sized
  <2>3. FlagAt(p) <= Len(data)
    BY <2>1, <2>2 DEF Sized
  <2>4. /\ IpBytes(p) \in Nat /\ SrhBytes(p) \in Nat
        /\ FlagAt(p) \in Nat /\ FlagAt(p) >= 38 + IpBytes(p) + SrhBytes(p)
    <3>1. IpBytes(p) \in Nat
      BY DEF IpBytes
    <3> QED
      BY <3>1, Sizes, Zenon
  <2> QED
    BY <1>1, <2>3, <2>4
<1>3. At(Emitted(p), b, L4Header(p))
  BY <1>1, EmittedLayout DEF Layout
<1>4. IsHeader(L4Header(p), "l4", L4Bytes(p))
  BY L4HeaderIs
<1>5. 1 \in 1..L4Bytes(p)
  BY DEF L4Bytes
<1>6. FlagAt(p) \in Nat /\ Len(data) \in Nat
  BY Sizes
<1>7. b + 8 <= Len(data)
  BY <1>2, <1>6
<1>8. Starts(Slice(b, 8), "l4", 1 - 1)
  BY <1>2, <1>3, <1>4, <1>5, <1>7, SliceStarts
<1> QED
  BY <1>1, <1>8

LEMMA TargetFound ==
  ASSUME NEW p \in Packet, Datagram(p)
  PROVE  Starts(DstAddress,
                IF HasSegments THEN "srv6h" ELSE IF IsV6(p) THEN "ipv6" ELSE "ipv4",
                IF HasSegments THEN 8 ELSE IF IsV6(p) THEN 24 ELSE 16)
<1>0. PICK m \in Nat, ip \in {20, 40}, srh \in Nat :
        m = Len(data) /\ ip = IpBytes(p) /\ srh = SrhBytes(p) /\ m >= 58 + ip + srh
  BY Sizes
<1>1. CASE p.segments > 0
  <2>1. HasSegments
    BY <1>1, SegmentsSeen
  <2>2. ip = 40 /\ srh >= 24
    BY <1>0, <1>1, SegmentsV6, SegmentBytes
  <2>3. 78 + 16 <= Len(data) /\ 9 \in 1..SrhBytes(p)
    BY <1>0, <2>2
  <2>4. At(Emitted(p), 70, Srv6Header(p))
    <3>1. 30 + IpBytes(p) = 70
      BY <1>1, SegmentsV6
    <3>2. At(Emitted(p), 30 + IpBytes(p), Srv6Header(p))
      BY EmittedLayout DEF Layout
    <3> QED
      BY <3>1, <3>2
  <2>5. IsHeader(Srv6Header(p), "srv6h", SrhBytes(p))
    BY Srv6HeaderIs
  <2>6. Starts(Slice(78, 16), "srv6h", 9 - 1)
    BY <2>3, <2>4, <2>5, SliceStarts
  <2> QED
    BY <2>1, <2>6 DEF DstAddress
<1>2. CASE ~ (p.segments > 0) /\ IsV6(p)
  <2>1. ~ HasSegments /\ Ethertype = 34525
    BY <1>2, SegmentsSeen, EthertypeIs
  <2>2. ip = 40
    BY <1>0, <1>2 DEF IpBytes
  <2>3. 54 + 16 <= Len(data)
    BY <1>0, <2>2
  <2>4. At(Emitted(p), 30, IpHeader(p))
    BY EmittedLayout DEF Layout
  <2>5. IsHeader(IpHeader(p), "ipv6", 40)
    BY <1>2, Ipv6HeaderIs
  <2>6. Starts(Slice(54, 16), "ipv6", 25 - 1)
    <3>1. 25 \in 1..40 /\ 54 \in Nat /\ 54 + 1 = 30 + 25 /\ 16 \in Nat /\ 16 > 0
      OBVIOUS
    <3> QED
      BY <2>3, <2>4, <2>5, <3>1, SliceStarts
  <2> QED
    BY <1>2, <2>1, <2>6 DEF DstAddress
<1>3. CASE ~ (p.segments > 0) /\ ~ IsV6(p)
  <2>1. ~ HasSegments /\ Ethertype # 34525
    BY <1>3, SegmentsSeen, EthertypeIs
  <2>3. 46 + 4 <= Len(data)
    BY <1>0
  <2>4. At(Emitted(p), 30, IpHeader(p))
    BY EmittedLayout DEF Layout
  <2>5. IsHeader(IpHeader(p), "ipv4", 20)
    BY <1>3, Ipv4HeaderIs
  <2>6. Starts(Slice(46, 4), "ipv4", 17 - 1)
    BY <2>3, <2>4, <2>5, SliceStarts
  <2> QED
    BY <1>3, <2>1, <2>6 DEF DstAddress
<1> QED
  BY <1>1, <1>2, <1>3

(* The flag, the shim and the INT header. *)
LEMMA IntFound ==
  ASSUME NEW p \in Packet, Datagram(p)
  PROVE  /\ Starts(Slice(Offset, 1), "flowlet", 0) /\ Number(Offset, 1) = p.update_path
         /\ Starts(Slice(Offset + 1, 4), "int_shim", 0) /\ Number(Offset + 3, 1) = ShimLen(p)
         /\ Starts(Slice(Offset + 5, 8), "int_header", 0) /\ Number(Offset + 7, 1) = 2
<1>1. PICK m, f, n : Sized(p, m, f, n)
  BY SizedBy
<1>2. /\ f \in Nat /\ f = FlagAt(p) /\ Offset = f
      /\ data \in Seq(Byte) /\ f + 20 <= Len(data)
  <2>1. f = FlagAt(p) /\ f \in Nat /\ f + 20 <= Len(data)
    <3>1. m \in Nat /\ f \in Nat /\ n \in 1..4 /\ m >= f + 12 + 8 * n
      BY <1>1 DEF Sized
    <3>2. f + 20 <= m
      BY <3>1
    <3> QED
      BY <1>1, <3>1, <3>2 DEF Sized
  <2>2. data \in Seq(Byte)
    BY Sizes
  <2> QED
    BY <2>1, <2>2, OffsetIs
<1>3. /\ At(Emitted(p), f, FlowletHeader(p)) /\ At(Emitted(p), f + 1, IntShim(p))
      /\ At(Emitted(p), f + 5, IntHeader)
  BY <1>2, EmittedLayout DEF Layout
<1>4. /\ IsHeader(FlowletHeader(p), "flowlet", 1) /\ FlowletHeader(p)[1].v = p.update_path
      /\ IsHeader(IntShim(p), "int_shim", 4) /\ IntShim(p)[3].v = ShimLen(p)
      /\ IsHeader(IntHeader, "int_header", 8) /\ IntHeader[3].v = 2
  BY FlowletHeaderIs, IntShimIs, IntHeaderIs
<1>5. 1 \in 1..1 /\ 1 \in 1..4 /\ 1 \in 1..8 /\ 3 \in 1..4 /\ 3 \in 1..8
  OBVIOUS
<1>6. /\ 1 \in 1..Len(FlowletHeader(p)) /\ 3 \in 1..Len(IntShim(p)) /\ 3 \in 1..Len(IntHeader)
  BY <1>4 DEF IsHeader
<1>7. /\ f + 1 <= Len(data) /\ (f + 1) + 4 <= Len(data) /\ (f + 5) + 8 <= Len(data)
      /\ (f + 1) + 3 <= Len(data) /\ (f + 5) + 3 <= Len(data)
      /\ (f + 3) + 1 <= Len(data) /\ (f + 7) + 1 <= Len(data)
      /\ f + 1 \in Nat /\ f + 5 \in Nat /\ f + 3 \in Nat /\ f + 7 \in Nat
      /\ (f + 3) + 1 = (f + 1) + 3 /\ (f + 7) + 1 = (f + 5) + 3
  <2>1. f \in Nat
    BY <1>2
  <2>2. PICK k \in Nat : k = Len(data) /\ f + 20 <= k
    BY <1>2
  <2>3. /\ f + 1 <= k /\ (f + 1) + 4 <= k /\ (f + 5) + 8 <= k /\ (f + 1) + 3 <= k
        /\ (f + 5) + 3 <= k /\ (f + 3) + 1 <= k /\ (f + 7) + 1 <= k
    BY <2>1, <2>2
  <2>4. f + 1 \in Nat /\ f + 5 \in Nat /\ f + 3 \in Nat /\ f + 7 \in Nat
    BY <2>1
  <2>5. (f + 3) + 1 = (f + 1) + 3 /\ (f + 7) + 1 = (f + 5) + 3
    BY <2>1
  <2> QED
    BY <2>2, <2>3, <2>4, <2>5, Zenon
<1>8. Starts(Slice(f, 1), "flowlet", 1 - 1)
  <2>1. At(Emitted(p), f, FlowletHeader(p)) /\ IsHeader(FlowletHeader(p), "flowlet", 1)
    BY <1>3, <1>4
  <2>2. 1 \in 1..1 /\ 1 \in Nat /\ 1 > 0 /\ f \in Nat /\ f + 1 <= Len(data)
    BY <1>2, <1>7
  <2> QED
    BY <2>1, <2>2, SliceStarts
<1>9. Starts(Slice(f + 1, 4), "int_shim", 1 - 1)
  <2>1. At(Emitted(p), f + 1, IntShim(p)) /\ IsHeader(IntShim(p), "int_shim", 4)
    BY <1>3, <1>4
  <2>2. 1 \in 1..4 /\ 4 \in Nat /\ 4 > 0 /\ f + 1 \in Nat /\ (f + 1) + 4 <= Len(data)
    BY <1>7
  <2> QED
    BY <2>1, <2>2, SliceStarts
<1>10. Starts(Slice(f + 5, 8), "int_header", 1 - 1)
  <2>1. At(Emitted(p), f + 5, IntHeader) /\ IsHeader(IntHeader, "int_header", 8)
    BY <1>3, <1>4
  <2>2. 1 \in 1..8 /\ 8 \in Nat /\ 8 > 0 /\ f + 5 \in Nat /\ (f + 5) + 8 <= Len(data)
    BY <1>7
  <2> QED
    BY <2>1, <2>2, SliceStarts
<1>11. Number(f, 1) = p.update_path
  <2>1. data[f + 1] = FlowletHeader(p)[1]
    <3>1. /\ At(Emitted(p), f, FlowletHeader(p)) /\ 1 \in 1..Len(FlowletHeader(p))
          /\ f + 1 <= Len(data)
      BY <1>3, <1>6, <1>7
    <3> QED
      BY <3>1, ReadByte
  <2>2. Number(f, 1) = data[f + 1].v
    BY <1>2, <1>7, NumberOne
  <2> QED
    BY <1>4, <2>1, <2>2
<1>12. Number(f + 3, 1) = ShimLen(p)
  <2>1. data[(f + 1) + 3] = IntShim(p)[3]
    <3>1. At(Emitted(p), f + 1, IntShim(p)) /\ 3 \in 1..Len(IntShim(p)) /\ (f + 1) + 3 <= Len(data)
      BY <1>3, <1>6, <1>7
    <3> QED
      BY <3>1, ReadByte
  <2>2. Number(f + 3, 1) = data[(f + 3) + 1].v
    BY <1>2, <1>7, NumberOne
  <2> QED
    BY <1>4, <1>7, <2>1, <2>2
<1>13. Number(f + 7, 1) = 2
  <2>1. data[(f + 5) + 3] = IntHeader[3]
    <3>1. At(Emitted(p), f + 5, IntHeader) /\ 3 \in 1..Len(IntHeader) /\ (f + 5) + 3 <= Len(data)
      BY <1>3, <1>6, <1>7
    <3> QED
      BY <3>1, ReadByte
  <2>2. Number(f + 7, 1) = data[(f + 7) + 1].v
    BY <1>2, <1>7, NumberOne
  <2> QED
    BY <1>4, <1>7, <2>1, <2>2
<1> QED
  BY <1>2, <1>8, <1>9, <1>10, <1>11, <1>12, <1>13

LEMMA HopCountIs ==
  ASSUME NEW p \in Packet, Datagram(p)
  PROVE  HopCount = Len(p.hops)
<1>1. PICK n \in Nat : n = Len(p.hops)
  BY PacketIs
<1>2. PICK f \in Nat : f = Offset
  <2>1. FlagAt(p) \in Nat
    BY Sizes
  <2> QED
    BY <2>1, OffsetIs
<1>3. Number(Offset + 3, 1) = 3 + 2 * n /\ Number(Offset + 7, 1) = 2
  BY <1>1, IntFound DEF ShimLen
<1>4. Offset + 1 + 2 = Offset + 3 /\ Offset + 1 + 6 = Offset + 7
  BY <1>2
<1>5. HopCount = ((3 + 2 * n) - 3) \div (2 % 32)
  BY <1>3, <1>4 DEF HopCount
<1>6. 2 % 32 = 2 /\ ((3 + 2 * n) - 3) \div 2 = n
  OBVIOUS
<1> QED
  BY <1>1, <1>5, <1>6

(* The three bytes of the depth, and the trend above it. *)
DepthRead(q, t) ==
  65536 * (128 * t + (q \div 65536)) + 256 * ((q \div 256) % 256) + (q % 256)
    = TrendBit * t + q

LEMMA DepthBytes == ASSUME NEW q \in Nat, NEW t \in 0..1 PROVE DepthRead(q, t)
<1>1. PICK h \in Int, m \in Int, l \in Int :
        h = q \div 65536 /\ m = (q \div 256) % 256 /\ l = q % 256
  OBVIOUS
<1>2. PICK k \in Int : k = q \div 256
  OBVIOUS
<1>3. q = 256 * k + l /\ k >= 0
  BY <1>1, <1>2
<1>4. k = 256 * (k \div 256) + m /\ k \div 256 \in Int
  BY <1>1, <1>2
<1>5. k \div 256 = h
  BY <1>1, <1>2
<1>6. q = 65536 * h + 256 * m + l
  BY <1>3, <1>4, <1>5
<1>7. PICK b \in Nat : b = TrendBit /\ b = 65536 * 128
  BY TrendBitIs
<1>8. 65536 * (128 * t + h) + 256 * m + l = b * t + q
  <2>1. CASE t = 0
    BY <1>1, <1>6, <1>7, <2>1
  <2>2. CASE t = 1
    BY <1>1, <1>6, <1>7, <2>2
  <2> QED
    BY <2>1, <2>2
<1> QED
  BY <1>1, <1>7, <1>8 DEF DepthRead

LEMMA TrendApart ==
  ASSUME NEW q \in Nat, q < TrendBit, NEW t \in 0..1
  PROVE  (TrendBit * t + q) \div TrendBit = t /\ (TrendBit * t + q) % TrendBit = q
<1>1. PICK b \in Nat : b = TrendBit /\ b > 0 /\ q < b
  BY TrendBitIs
<1>2. CASE t = 0
  <2>1. q \div b = 0 /\ q % b = q
    BY <1>1
  <2> QED
    BY <1>1, <1>2, <2>1
<1>3. CASE t = 1
  <2>1. (b + q) \div b = 1 /\ (b + q) % b = q
    BY <1>1
  <2> QED
    BY <1>1, <1>3, <2>1
<1> QED
  BY <1>2, <1>3

(* The metadata of a hop in the datagram: the last byte may be cut off. *)
LEMMA HopBytesAre ==
  ASSUME NEW p \in Packet, Datagram(p), NEW i \in 1..Len(p.hops),
         NEW j \in 1..8, NEW a \in Nat, a = FlagAt(p) + 13 + 8 * (i - 1), a + j <= Len(data)
  PROVE  data[a + j] = Metadata(p.hops[i])[j]
<1>1. PICK b : b = FlagAt(p) + 13 /\ At(Emitted(p), b, IntData(p.hops))
  BY EmittedLayout DEF Layout
<1>2. PICK c : c = 8 * (i - 1) /\ At(IntData(p.hops), c, Metadata(p.hops[i]))
  BY PacketIs, IntDataIs
<1>3. Len(p.hops) \in 1..4 /\ p.hops[i] \in Hop
  BY PacketIs
<1>4. Len(Metadata(p.hops[i])) = 8
  BY <1>3, MetadataIs
<1>5. Len(IntData(p.hops)) = 8 * Len(p.hops)
  BY PacketIs, IntDataIs
<1>6. b \in Nat /\ c \in Nat
  BY <1>1, <1>2 DEF At
<1>7. c + j \in 1..Len(IntData(p.hops)) /\ IntData(p.hops)[c + j] = Metadata(p.hops[i])[j]
  <2>1. IntData(p.hops)[c + j] = Metadata(p.hops[i])[j]
    BY <1>2, <1>4 DEF At
  <2>2. PICK n \in 1..4 : n = Len(p.hops)
    BY <1>3
  <2>3. c + j \in 1..(8 * n)
    <3>1. i \in 1..n /\ c = 8 * (i - 1)
      BY <1>2, <2>2
    <3> QED
      BY <3>1
  <2> QED
    BY <1>5, <2>1, <2>2, <2>3
<1>8. b + (c + j) = a + j
  <2>1. PICK f \in Nat : f = FlagAt(p)
    BY Sizes
  <2>2. b = f + 13 /\ c = 8 * (i - 1) /\ a = f + 13 + 8 * (i - 1) /\ i \in Nat
    BY <1>1, <1>2, <1>3, <2>1
  <2> QED
    BY <2>2
<1>9. data[b + (c + j)] = IntData(p.hops)[c + j]
  <2>1. PICK k : k = c + j /\ k \in 1..Len(IntData(p.hops))
    BY <1>7
  <2>2. b + k <= Len(data)
    BY <1>8, <2>1
  <2>3. data[b + k] = IntData(p.hops)[k]
    BY <1>1, <2>1, <2>2, ReadByte
  <2> QED
    BY <2>1, <2>3
<1> QED
  BY <1>7, <1>8, <1>9

(* Where HopMetadata looks, and how much of it the datagram holds. *)
LEMMA HopStart ==
  ASSUME NEW p \in Packet, Datagram(p), NEW i \in 1..Len(p.hops)
  PROVE  \E a \in Nat :
           /\ a = FlagAt(p) + 13 + 8 * (i - 1) /\ a = Offset + 1 + 12 + 8 * (i - 1)
           /\ a + 7 <= Len(data)
           /\ IF i < Len(p.hops) \/ p.dataOffset > 5 THEN a + 8 <= Len(data)
              ELSE a + 7 = Len(data)
<1>1. PICK m, f, n : Sized(p, m, f, n)
  BY SizedBy
<1>2. /\ m \in Nat /\ f \in Nat /\ n \in 1..4 /\ i \in 1..n
      /\ m >= f + 12 + 8 * n /\ (p.dataOffset > 5 => m >= f + 13 + 8 * n)
      /\ ~ (p.dataOffset > 5) => m = f + 12 + 8 * n
  BY <1>1 DEF Sized
<1>3. m = Len(data) /\ f = FlagAt(p) /\ n = Len(p.hops) /\ Offset = f
  BY <1>1, OffsetIs DEF Sized
<1>4. PICK a \in Nat : a = f + 13 + 8 * (i - 1)
  BY <1>2
<1>5. a = f + 1 + 12 + 8 * (i - 1) /\ a + 7 <= m
  BY <1>2, <1>4
<1>6. i < n => a + 8 <= m
  BY <1>2, <1>4
<1>7. p.dataOffset > 5 => a + 8 <= m
  BY <1>2, <1>4
<1>8. ~ (i < n) /\ ~ (p.dataOffset > 5) => a + 7 = m
  BY <1>2, <1>4
<1> QED
  BY <1>3, <1>4, <1>5, <1>6, <1>7, <1>8

LEMMA SwitchIdRead ==
  ASSUME NEW p \in Packet, Datagram(p), NEW i \in 1..Len(p.hops)
  PROVE  HopMetadata(i).switch_id = p.hops[i].switch_id
<1>1. PICK a \in Nat :
        /\ a = FlagAt(p) + 13 + 8 * (i - 1) /\ a = Offset + 1 + 12 + 8 * (i - 1)
        /\ a + 7 <= Len(data)
  BY HopStart
<1>2. data \in Seq(Byte) /\ Len(data) \in Nat
  BY Sizes
<1>3. a + 1 <= Len(data) /\ a + 2 <= Len(data) /\ a + 3 <= Len(data) /\ a + 4 <= Len(data)
  BY <1>1, <1>2
<1>4. 1 \in 1..8 /\ 2 \in 1..8 /\ 3 \in 1..8 /\ 4 \in 1..8
  OBVIOUS
<1>5. /\ data[a + 1] = Metadata(p.hops[i])[1] /\ data[a + 2] = Metadata(p.hops[i])[2]
      /\ data[a + 3] = Metadata(p.hops[i])[3] /\ data[a + 4] = Metadata(p.hops[i])[4]
  BY <1>1, <1>3, <1>4, HopBytesAre
<1>6. p.hops[i] \in Hop
  BY PacketIs
<1>7. PICK id \in Nat : id = p.hops[i].switch_id
  BY <1>6, HopIs
<1>8. /\ data[a + 1].v = 0 /\ data[a + 2].v = 0 /\ data[a + 3].v = 0 /\ data[a + 4].v = id
  <2>1. PICK hop \in Hop : hop = p.hops[i]
    BY <1>6
  <2>2. /\ Metadata(hop)[1].v = 0 /\ Metadata(hop)[2].v = 0 /\ Metadata(hop)[3].v = 0
        /\ Metadata(hop)[4].v = hop.switch_id
    BY MetadataIs
  <2> QED
    BY <1>5, <1>7, <2>1, <2>2
<1>9. Number(a, 4) = 16777216 * 0 + 65536 * 0 + 256 * 0 + id
  BY <1>2, <1>3, <1>8, NumberFour
<1>10. HopMetadata(i).switch_id = Number(a, 4)
  BY <1>1 DEF HopMetadata
<1> QED
  BY <1>7, <1>9, <1>10

LEMMA HopRead ==
  ASSUME NEW p \in Packet, Datagram(p), NEW i \in 1..Len(p.hops),
         i < Len(p.hops) \/ p.dataOffset > 5
  PROVE  HopMetadata(i) = p.hops[i]
<1>1. PICK a \in Nat :
        /\ a = FlagAt(p) + 13 + 8 * (i - 1) /\ a = Offset + 1 + 12 + 8 * (i - 1)
        /\ a + 8 <= Len(data)
  BY HopStart
<1>2. data \in Seq(Byte) /\ Len(data) \in Nat
  BY Sizes
<1>3. a + 6 <= Len(data) /\ a + 7 <= Len(data) /\ a + 8 <= Len(data)
  BY <1>1, <1>2
<1>4. 6 \in 1..8 /\ 7 \in 1..8 /\ 8 \in 1..8
  OBVIOUS
<1>5. /\ data[a + 6] = Metadata(p.hops[i])[6] /\ data[a + 7] = Metadata(p.hops[i])[7]
      /\ data[a + 8] = Metadata(p.hops[i])[8]
  BY <1>1, <1>3, <1>4, HopBytesAre
<1>6. p.hops[i] \in Hop
  BY PacketIs
<1>7. PICK q \in Nat, t \in 0..1 :
        q = p.hops[i].q_occupancy /\ t = p.hops[i].trend /\ q < TrendBit
  BY <1>6, HopIs
<1>8. /\ data[a + 6].v = 128 * t + (q \div 65536)
      /\ data[a + 7].v = (q \div 256) % 256 /\ data[a + 8].v = q % 256
  <2>1. PICK hop \in Hop : hop = p.hops[i]
    BY <1>6
  <2>2. /\ Metadata(hop)[6].v = 128 * hop.trend + (hop.q_occupancy \div 65536)
        /\ Metadata(hop)[7].v = (hop.q_occupancy \div 256) % 256
        /\ Metadata(hop)[8].v = hop.q_occupancy % 256
    BY MetadataIs
  <2> QED
    BY <1>5, <1>7, <2>1, <2>2
<1>9. /\ a + 5 \in Nat /\ (a + 5) + 3 <= Len(data)
      /\ (a + 5) + 1 = a + 6 /\ (a + 5) + 2 = a + 7 /\ (a + 5) + 3 = a + 8
  BY <1>2, <1>3
<1>10. Number(a + 5, 3) = 65536 * data[a + 6].v + 256 * data[a + 7].v + data[a + 8].v
  BY <1>2, <1>9, NumberThree
<1>11. Number(a + 5, 3) = TrendBit * t + q
  <2>1. 65536 * (128 * t + (q \div 65536)) + 256 * ((q \div 256) % 256) + (q % 256)
          = TrendBit * t + q
    <3>1. DepthRead(q, t)
      BY DepthBytes
    <3> QED
      BY <3>1 DEF DepthRead
  <2> QED
    BY <1>8, <1>10, <2>1
<1>12. Number(a + 5, 3) \div TrendBit = t /\ Number(a + 5, 3) % TrendBit = q
  BY <1>7, <1>11, TrendApart
<1>13. HopMetadata(i) = [switch_id |-> Number(a, 4), trend |-> Number(a + 5, 3) \div TrendBit,
                         q_occupancy |-> Number(a + 5, 3) % TrendBit]
  BY <1>1, Zenon DEF HopMetadata, TrendBit
<1>14. HopMetadata(i).switch_id = Number(a, 4)
  BY <1>13
<1>15. Number(a, 4) = p.hops[i].switch_id
  BY <1>14, SwitchIdRead
<1>16. p.hops[i] = [switch_id |-> p.hops[i].switch_id, trend |-> t, q_occupancy |-> q]
  BY <1>6, <1>7, HopIs
<1> QED
  BY <1>12, <1>13, <1>15, <1>16

(* What is left of the source's depth without its low byte. *)
CutRead(q, t) ==
  /\ 256 * (128 * t + (q \div 65536)) + ((q \div 256) % 256) = 32768 * t + (q \div 256)
  /\ (32768 * t + (q \div 256)) \div TrendBit = 0
  /\ (32768 * t + (q \div 256)) % TrendBit = 32768 * t + (q \div 256)

LEMMA CutBytes == ASSUME NEW q \in Nat, q < TrendBit, NEW t \in 0..1 PROVE CutRead(q, t)
<1>1. PICK h \in Int, m \in Int, k \in Int :
        h = q \div 65536 /\ m = (q \div 256) % 256 /\ k = q \div 256
  OBVIOUS
<1>2. k = 256 * (k \div 256) + m /\ k \div 256 = h
  BY <1>1
<1>3. 256 * (128 * t + h) + m = 32768 * t + k
  <2>1. 256 * (128 * t) = 32768 * t
    OBVIOUS
  <2> QED
    BY <1>2, <2>1
<1>4. k \in Nat /\ k < 32768
  <2>1. q < 256 * 32768
    BY TrendBitIs
  <2> QED
    BY <1>1, <2>1
<1>5. 32768 * t + k \in Nat /\ 32768 * t + k < TrendBit
  <2>1. t = 0 \/ t = 1
    OBVIOUS
  <2> QED
    BY <1>4, <2>1, TrendBitIs
<1>6. PICK b \in Nat, w \in Nat : b = TrendBit /\ w = 32768 * t + k /\ w < b
  BY <1>5, TrendBitIs
<1>7. w \div b = 0 /\ w % b = w
  BY <1>6
<1> QED
  BY <1>1, <1>3, <1>6, <1>7 DEF CutRead

(* Three bytes are read where two are left. *)
LEMMA CutSlice ==
  ASSUME data \in Seq(Byte), NEW a \in Nat, a + 2 = Len(data)
  PROVE  Number(a, 3) = 256 * data[a + 1].v + data[a + 2].v
<1>1. Slice(a, 3) = Slice(a, 2)
  <2>1. ~ (a + 3 < Len(data)) /\ ~ (a + 2 < Len(data))
    OBVIOUS
  <2> QED
    BY <2>1, Zenon DEF Slice
<1>2. Number(a, 3) = Number(a, 2)
  BY <1>1, Zenon DEF Number
<1> QED
  BY <1>2, NumberTwo

LEMMA SourceRead ==
  ASSUME NEW p \in Packet, Datagram(p), NEW i \in 1..Len(p.hops),
         ~ (i < Len(p.hops) \/ p.dataOffset > 5)
  PROVE  HopMetadata(i)
           = [switch_id |-> p.hops[i].switch_id, trend |-> 0,
              q_occupancy |-> 2^15 * p.hops[i].trend + p.hops[i].q_occupancy \div 2^8]
<1>1. PICK a \in Nat :
        /\ a = FlagAt(p) + 13 + 8 * (i - 1) /\ a = Offset + 1 + 12 + 8 * (i - 1)
        /\ a + 7 = Len(data)
  BY HopStart
<1>2. data \in Seq(Byte) /\ Len(data) \in Nat
  BY Sizes
<1>3. a + 6 <= Len(data) /\ a + 7 <= Len(data)
  BY <1>1, <1>2
<1>4. 6 \in 1..8 /\ 7 \in 1..8
  OBVIOUS
<1>5. data[a + 6] = Metadata(p.hops[i])[6] /\ data[a + 7] = Metadata(p.hops[i])[7]
  BY <1>1, <1>3, <1>4, HopBytesAre
<1>6. PICK hop \in Hop : hop = p.hops[i]
  BY PacketIs
<1>7. PICK q \in Nat, t \in 0..1 : q = hop.q_occupancy /\ t = hop.trend /\ q < TrendBit
  BY HopIs
<1>8. data[a + 6].v = 128 * t + (q \div 65536) /\ data[a + 7].v = (q \div 256) % 256
  <2>1. /\ Metadata(hop)[6].v = 128 * hop.trend + (hop.q_occupancy \div 65536)
        /\ Metadata(hop)[7].v = (hop.q_occupancy \div 256) % 256
    BY MetadataIs
  <2> QED
    BY <1>5, <1>6, <1>7, <2>1
<1>9. Number(a + 5, 3) = 256 * data[a + 6].v + data[a + 7].v
  <2>1. a + 5 \in Nat /\ (a + 5) + 2 = Len(data) /\ (a + 5) + 1 = a + 6 /\ (a + 5) + 2 = a + 7
    BY <1>1
  <2> QED
    BY <1>2, <2>1, CutSlice
<1>10. PICK w : w = 32768 * t + (q \div 256)
  OBVIOUS
<1>11. Number(a + 5, 3) = w /\ w \div TrendBit = 0 /\ w % TrendBit = w
  <2>1. CutRead(q, t)
    BY <1>7, CutBytes
  <2> QED
    BY <1>8, <1>9, <1>10, <2>1 DEF CutRead
<1>12. HopMetadata(i) = [switch_id |-> Number(a, 4), trend |-> Number(a + 5, 3) \div TrendBit,
                         q_occupancy |-> Number(a + 5, 3) % TrendBit]
  BY <1>1, Zenon DEF HopMetadata, TrendBit
<1>13. HopMetadata(i).switch_id = Number(a, 4)
  BY <1>12
<1>14. Number(a, 4) = hop.switch_id
  BY <1>6, <1>13, SwitchIdRead
<1>15. 2^15 * hop.trend + hop.q_occupancy \div 2^8 = w
  BY <1>7, <1>10
<1> QED
  BY <1>6, <1>11, <1>12, <1>14, <1>15

-----------------------------------------------------------------------------
(* IntReport: the invariant and the theorems.                              *)

(* The socket holds the datagram of the packet that was reported. *)
ReportInvariant ==
  sent # NoReport =>
    /\ sent \in Packet
    /\ data = SubSeq(Emitted(sent), 1, TotalLen(sent) - 20 - 8)

LEMMA ReportInductive == ReportSpec => []ReportInvariant
<1>1. ReportInit => ReportInvariant
  BY DEF ReportInit, ReportInvariant
<1>2. ReportInvariant /\ [ReportNext]_reportVars => ReportInvariant'
  <2> SUFFICES ASSUME ReportInvariant, [ReportNext]_reportVars PROVE ReportInvariant'
    OBVIOUS
  <2>1. ASSUME NEW p \in Packet, SendReport(p) PROVE ReportInvariant'
    <3>1. sent' = p /\ data' = SubSeq(Emitted(p), 1, TotalLen(p) - 20 - 8)
      BY <2>1 DEF SendReport
    <3>2. data' = SubSeq(Emitted(sent'), 1, TotalLen(sent') - 20 - 8)
      BY <3>1
    <3> QED
      BY <3>1, <3>2 DEF ReportInvariant
  <2>2. CASE Collect
    BY <2>2 DEF Collect, ReportInvariant
  <2>3. CASE UNCHANGED reportVars
    BY <2>3 DEF ReportInvariant, reportVars
  <2> QED
    BY <2>1, <2>2, <2>3 DEF ReportNext
<1> QED
  BY <1>1, <1>2, PTL DEF ReportSpec

LEMMA DatagramSent ==
  ASSUME ReportInvariant, sent # NoReport
  PROVE  sent \in Packet /\ Datagram(sent)
BY DatagramIs DEF ReportInvariant

(* Whatever headers, IP version, segments, TCP options and number of hops  *)
(* the reported packet has, class IntReport finds in the datagram of the   *)
(* sink leaf each header where it looks for it.                            *)
THEOREM FieldsAreFound == ReportSpec => []FieldsFound
<1>1. ReportInvariant => FieldsFound
  <2> SUFFICES ASSUME ReportInvariant, sent # NoReport PROVE FieldsFound
    BY DEF FieldsFound
  <2>1. PICK p \in Packet : p = sent /\ Datagram(p)
    BY DatagramSent
  <2>2. Starts(Slice(50 + Shift, 8), "l4", 0)
    BY <2>1, PortsFound
  <2>3. Starts(DstAddress,
               IF HasSegments THEN "srv6h" ELSE IF IsV6(p) THEN "ipv6" ELSE "ipv4",
               IF HasSegments THEN 8 ELSE IF IsV6(p) THEN 24 ELSE 16)
    BY <2>1, TargetFound
  <2>4. Protocol = IF IsUdp(p) THEN 17 ELSE 6
    BY <2>1, ProtocolIs DEF Proto
  <2>5. /\ Starts(Slice(Offset, 1), "flowlet", 0) /\ Number(Offset, 1) = p.update_path
        /\ Starts(Slice(Offset + 1, 4), "int_shim", 0)
        /\ Starts(Slice(Offset + 5, 8), "int_header", 0)
    BY <2>1, IntFound
  <2> QED
    BY <2>1, <2>2, <2>3, <2>4, <2>5, Zenon DEF FieldsFound
<1> QED
  BY <1>1, ReportInductive, PTL

(* The collector reads as many hops as the switches wrote, the switch of   *)
(* each of them, and the trend and queue depth of each but the source; of  *)
(* the source too when TCP options make the report a word longer.  Else    *)
(* its depth is read without the low byte, with the trend as its top bit:  *)
(* the byte that totalLen is short of is all that a report ever loses.     *)
THEOREM PathIsDecoded == ReportSpec => []OnlySourceDepthLost
<1>1. ReportInvariant => OnlySourceDepthLost
  <2> SUFFICES ASSUME ReportInvariant PROVE OnlySourceDepthLost
    OBVIOUS
  <2>1. CASE sent = NoReport
    BY <2>1 DEF OnlySourceDepthLost, PathDecoded
  <2>2. CASE sent # NoReport
    <3>1. PICK p \in Packet : p = sent /\ Datagram(p)
      BY <2>2, DatagramSent
    <3>2. HopCount = Len(p.hops) /\ DOMAIN p.hops = 1..Len(p.hops)
      BY <3>1, HopCountIs, PacketIs
    <3>3. \A i \in 1..Len(p.hops) : HopMetadata(i).switch_id = p.hops[i].switch_id
      BY <3>1, SwitchIdRead
    <3>4. PathDecoded
      <4>1. [i \in 1..HopCount |-> HopMetadata(i).switch_id]
              = [i \in DOMAIN p.hops |-> p.hops[i].switch_id]
        BY <3>2, <3>3, Zenon
      <4> QED
        BY <3>1, <4>1, Zenon DEF PathDecoded
    <3>5. ASSUME NEW i \in 1..Len(p.hops)
          PROVE  HopMetadata(i) =
                   IF i < Len(p.hops) \/ p.dataOffset > 5 THEN p.hops[i]
                   ELSE [switch_id |-> p.hops[i].switch_id, trend |-> 0,
                         q_occupancy |-> 2^15 * p.hops[i].trend
                                         + p.hops[i].q_occupancy \div 2^8]
      BY <3>1, HopRead, SourceRead, Zenon
    <3> QED
      BY <3>1, <3>2, <3>4, <3>5, Zenon DEF OnlySourceDepthLost
  <2> QED
    BY <2>1, <2>2
<1> QED
  BY <1>1, ReportInductive, PTL
=============================================================================
