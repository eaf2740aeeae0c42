---------------------------- MODULE MC_Evaluator ----------------------------
(***************************************************************************)
(* calculate_arbitrage checked against spec.md 4.2 and 8 on every pool     *)
(* snapshot with a wHEZ reserve in WhezRange and a PEZ reserve in          *)
(* PezRange (atomic units).  The snapshot is the state; nothing moves.     *)
(***************************************************************************)
EXTENDS Evaluator

CONSTANTS WhezRange, PezRange

ASSUME MCEvaluatorAssumption ==
  WhezRange \subseteq Nat \ {0} /\ PezRange \subseteq Nat

\* Values for the cfg.
MCPezRange == 0..560
MCTiePezRange == 400..600

VARIABLES w, p

Init == w \in WhezRange /\ p \in PezRange
Next == UNCHANGED <<w, p>>
Spec == Init /\ [][Next]_<<w, p>>

(***************************************************************************)
(* The spec's evaluate, over the deviation as an exact rational dNum/dDen  *)
(* (dDen > 0): deviation = (price - ref) / ref * 100.                      *)
(***************************************************************************)
DevNum == (p * RefDen - RefNum * w) * 100
DevDen == RefNum * w
\* abs(deviation) compared with min_profit_percent: -1, 0 or 1.
DevVsThreshold ==
  LET lhs == AbsVal(DevNum) * MinProfitDen
      rhs == MinProfitNum * DevDen
  IN  IF lhs < rhs THEN -1 ELSE IF lhs = rhs THEN 0 ELSE 1

\* spec.md 4.2 and 8: below the threshold there is no opportunity; above
\* it the direction follows the sign of the deviation (price > ref sells
\* HEZ) and the atomic amount is min(max_swap_amount, 5% of the wHEZ
\* reserve), within both caps.  The tie is left to TieNotActionable.
EvaluateMatchesSpec ==
  LET o == CalculateArbitrage(w, p) IN
  /\ DevVsThreshold = -1 => o = NoOpp
  /\ DevVsThreshold = 1 =>
       /\ o # NoOpp
       /\ o.direction = IF DevNum > 0 THEN HezToPez ELSE PezToHez
       /\ o.amount <= MaxSwapAmountHez * ONE_TOKEN
       /\ o.amount * 100 <= w * 5
       /\ \/ o.amount = MaxSwapAmountHez * ONE_TOKEN
          \/ (o.amount + 1) * 100 > w * 5

\* spec.md 4.2: "deviation of exactly the threshold is treated as not
\* actionable (strict inequality only)".  calculate_arbitrage returns None
\* only when abs(deviation) < min_profit_percent.
TieNotActionable ==
  DevVsThreshold = 0 => CalculateArbitrage(w, p) = NoOpp
=============================================================================
