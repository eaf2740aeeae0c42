-------------------------- MODULE Evaluator_proofs --------------------------
(***************************************************************************)
(* calculate_arbitrage against the decision rule of spec.md 4.2 and 8, for *)
(* every snapshot (w > 0) and every value of the constants.  The run        *)
(* evaluator_spec checks the same statement on a grid of snapshots.        *)
(***************************************************************************)
EXTENDS MC_Evaluator, TLAPS

\* The spec's deviation test is the code's band test: deviation is
\* Gap * 100 / (RefNum * w), so abs(deviation) < min_profit is
\* WithinBand, cross-multiplied.
LEMMA BandIsThreshold ==
  ASSUME NEW wv \in Nat \ {0}, NEW pv \in Nat
  PROVE  LET lhs == AbsVal((pv * RefDen - RefNum * wv) * 100) * MinProfitDen
             rhs == MinProfitNum * (RefNum * wv)
         IN  /\ lhs < rhs <=> WithinBand(wv, pv)
             /\ (pv * RefDen - RefNum * wv) * 100 > 0 <=> Gap(wv, pv) > 0
<1> DEFINE g == pv * RefDen - RefNum * wv
<1>1. g \in Int
  BY EvaluatorAssumption
<1>2. AbsVal(g * 100) = AbsVal(g) * 100
  BY <1>1 DEF AbsVal
<1>3. AbsVal(g) \in Nat
  BY <1>1 DEF AbsVal
<1>4. AbsVal(g) * 100 * MinProfitDen = (AbsVal(g) * 100) * MinProfitDen
      /\ MinProfitNum * (RefNum * wv) = MinProfitNum * RefNum * wv
  BY <1>3, EvaluatorAssumption
<1> QED
  BY <1>1, <1>2, <1>4 DEF WithinBand, Gap

\* The trade size min(max_swap_amount_hez, 5% of the reserve) is within both
\* caps and is the larger of them that fits: either the swap cap or the
\* largest whole amount within 5%.
LEMMA AmountWithinCaps ==
  ASSUME NEW wv \in Nat
  PROVE  LET a == OptimalAmountIn(wv) IN
         /\ a <= MaxSwapAmountHez * ONE_TOKEN
         /\ a * 100 <= wv * 5
         /\ a = MaxSwapAmountHez * ONE_TOKEN \/ (a + 1) * 100 > wv * 5
<1> DEFINE q == (wv * 5) \div 100
           cap == MaxSwapAmountHez * ONE_TOKEN
<1>1. q \in Nat /\ q * 100 <= wv * 5 /\ (q + 1) * 100 > wv * 5
  OBVIOUS
<1>2. cap \in Nat
  BY EvaluatorAssumption
<1> QED
  BY <1>1, <1>2 DEF OptimalAmountIn, MinOf

\* For every value of the constants and every snapshot, calculate_arbitrage
\* returns None below the threshold, and above it an opportunity in the
\* direction of the deviation whose size is min(max_swap, 5% of wHEZ).
THEOREM EvaluatorCorrect == Spec => []EvaluateMatchesSpec
<1> DEFINE Snap == w \in Nat \ {0} /\ p \in Nat
<1>1. Init => Snap
  BY MCEvaluatorAssumption DEF Init
<1>2. Snap /\ [Next]_<<w, p>> => Snap'
  BY DEF Next
<1>3. Snap => EvaluateMatchesSpec
  <2> SUFFICES ASSUME Snap PROVE EvaluateMatchesSpec
    OBVIOUS
  <2>1. /\ DevVsThreshold = -1 <=> WithinBand(w, p)
        /\ DevNum > 0 <=> Gap(w, p) > 0
    BY BandIsThreshold DEF DevVsThreshold, DevNum, DevDen
  <2>2. CASE WithinBand(w, p)
    BY <2>1, <2>2 DEF EvaluateMatchesSpec, CalculateArbitrage
  <2>3. CASE ~WithinBand(w, p)
    <3> DEFINE o == [direction |-> Direction(w, p), amount |-> OptimalAmountIn(w)]
    <3>1. CalculateArbitrage(w, p) = o
      BY <2>3 DEF CalculateArbitrage
    <3>2. OptimalAmountIn(w) \in Nat
      BY EvaluatorAssumption DEF OptimalAmountIn, MinOf
    <3>3. o \in Opportunities
      BY <3>2 DEF Opportunities, Direction, Directions
    <3>4. o # NoOpp
      BY <3>3, NoOppAssumption
    <3>5. o.direction = IF DevNum > 0 THEN HezToPez ELSE PezToHez
      BY <2>1 DEF Direction
    <3> QED
      BY <2>1, <2>3, <3>1, <3>4, <3>5, AmountWithinCaps DEF EvaluateMatchesSpec
  <2> QED
    BY <2>2, <2>3
<1> QED
  BY <1>1, <1>2, <1>3, PTL DEF Spec
=============================================================================
