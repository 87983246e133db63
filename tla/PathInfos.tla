------------------------------ MODULE PathInfos ------------------------------
(***************************************************************************)
(* class path_infos of the collector: the last weights of one path in a    *)
(* ring of two parallel arrays, and the slope of the line through them.    *)
(***************************************************************************)
EXTENDS Integers, Sequences, FiniteSets, Functions

CONSTANTS
  Size,       (* the capacity of the ring                                  *)
  Weights,    (* path weights                                              *)
  Times,      (* what time.time() may return; it may also go back          *)
  None        (* an array cell never written                               *)

VARIABLES
  index,      (* the next cell to write                                    *)
  len,        (* the cells in use                                          *)
  weights, times,
  first_t, last_t

vars == <<index, len, weights, times, first_t, last_t>>

Cells == 0..(Size - 1)

ASSUME PathInfosAssumption ==
  /\ Size \in Nat \ {0}
  /\ Weights \subseteq Int /\ None \notin Weights
  /\ Times \subseteq Nat /\ 0 \in Times

Init ==
  /\ index = 0 /\ len = 0
  /\ weights = [c \in Cells |-> None]
  /\ times = [c \in Cells |-> 0]
  /\ first_t = 0 /\ last_t = 0

(* The instant of the oldest sample once t is written at index. *)
OldestIsOverwritten(t) ==     (* mutant: looks at the cell just written *)
  CASE len = 0 -> t
    [] len = Size -> times'[index]
    [] OTHER -> first_t

OldestAfter(t) ==
  CASE len = 0 -> t
    [] len = Size -> times'[(index + 1) % Size]
    [] OTHER -> first_t

AddWeightUncapped(w, t) ==                (* mutant: len exceeds the ring *)
  /\ weights' = [weights EXCEPT ![index] = w]
  /\ times' = [times EXCEPT ![index] = t]
  /\ last_t' = t
  /\ first_t' = OldestAfter(t)
  /\ index' = (index + 1) % Size
  /\ len' = IF len <= Size THEN len + 1 ELSE Size

AddWeight(w, t) ==
  /\ weights' = [weights EXCEPT ![index] = w]
  /\ times' = [times EXCEPT ![index] = t]
  /\ last_t' = t
  /\ first_t' = OldestAfter(t)
  /\ index' = (index + 1) % Size
  /\ len' = IF len + 1 <= Size THEN len + 1 ELSE Size

Next == \E w \in Weights, t \in Times : AddWeight(w, t)

Spec == Init /\ [][Next]_vars

-----------------------------------------------------------------------------
(* linreg.                                                                 *)

(* sorted(zip(times, weights)): the samples by time, then by weight. The   *)
(* k-th of them is the one with k - 1 samples before it; samples that are  *)
(* equal may stand in either order.                                        *)
Before(i, j) ==
  \/ times[i] < times[j]
  \/ times[i] = times[j] /\ weights[i] < weights[j]
  \/ times[i] = times[j] /\ weights[i] = weights[j] /\ i < j

Sorted ==
  [x \in 0..(len - 1) |->
     weights[CHOOSE i \in 0..(len - 1) :
               Cardinality({j \in 0..(len - 1) : Before(j, i)}) = x]]

SumOver(f) == FoldFunction(+, 0, f)

(* linreg: slope and intercept of the fitted line, both times the          *)
(* determinant, and the determinant; 0 when there is no line.              *)
LinregUnsorted ==             (* mutant: takes the samples as they lie *)
  LET X == 0..(len - 1)
      Sx == SumOver([x \in X |-> x])
      Sy == SumOver([x \in X |-> weights[x]])
      Sxx == SumOver([x \in X |-> x * x])
      Sxy == SumOver([x \in X |-> x * weights[x]])
      det == Sxx * len - Sx * Sx
  IN IF det = 0 THEN [det |-> 0]
     ELSE [det |-> det, a |-> Sxy * len - Sy * Sx, b |-> Sxx * Sy - Sx * Sxy]

Linreg ==
  LET X == 0..(len - 1)
      Y == Sorted
      Sx == SumOver([x \in X |-> x])
      Sy == SumOver(Y)
      Sxx == SumOver([x \in X |-> x * x])
      Sxy == SumOver([x \in X |-> x * Y[x]])
      det == Sxx * len - Sx * Sx
  IN IF det = 0 THEN [det |-> 0]
     ELSE [det |-> det, a |-> Sxy * len - Sy * Sx, b |-> Sxx * Sy - Sx * Sxy]

-----------------------------------------------------------------------------
(* Properties.                                                             *)

(* The cell of the k-th oldest sample. *)
CellOf(k) == (index - len + (k - 1)) % Size

(* Every variable has its type, and the ring never hands out a cell that   *)
(* was not written.                                                        *)
TypeOK ==
  /\ index \in Cells /\ len \in 0..Size
  /\ weights \in [Cells -> Weights \union {None}]
  /\ times \in [Cells -> Times]
  /\ first_t \in Times /\ last_t \in Times
  /\ \A k \in 1..len : weights[CellOf(k)] # None

(* The ring implements a sliding window: nothing but the oldest sample is  *)
(* ever overwritten, and first_t is always the instant of the oldest       *)
(* sample kept, across every wrap of index.                                *)
Window == INSTANCE SlidingWindow WITH
  window <- [k \in 1..len |-> [w |-> weights[CellOf(k)], t |-> times[CellOf(k)]]],
  first <- first_t,
  last <- last_t
IsSlidingWindow == Window!Spec

(* linreg's docstring: no line with integer coefficients is closer to the  *)
(* samples, in the least-squares sense, than the one it returns.  Both     *)
(* sides are scaled by det^2.                                              *)
LeastSquares ==
  LET fit == Linreg
      Error(a, b) == SumOver([x \in 0..(len - 1) |->
                       (fit.det * Sorted[x] - a * x - b) * (fit.det * Sorted[x] - a * x - b)])
  IN fit.det # 0 =>
       \A a, b \in -3..3 : Error(fit.a, fit.b) <= Error(fit.det * a, fit.det * b)
=============================================================================
