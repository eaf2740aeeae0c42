----------------------------- MODULE Evaluator -----------------------------
(***************************************************************************)
(* The pure part of scripts/arbitrage_bot.py: the price of a pool          *)
(* snapshot, the arbitrage decision of ArbitrageBot.calculate_arbitrage    *)
(* and the two-call plans composed by _swap_hez_to_pez and                 *)
(* _swap_pez_to_hez.                                                       *)
(*                                                                         *)
(* Amounts are in atomic units (ONE_TOKEN atomic units per token).  The    *)
(* code computes with Python floats; here every rational is exact and a    *)
(* comparison of two rationals is a comparison of cross products.  The     *)
(* float rounding this removes is discussed in the README.                 *)
(***************************************************************************)
EXTENDS Integers

CONSTANTS
  RefNum, RefDen,          \* CONFIG['reference_price'] = RefNum / RefDen
  MinProfitNum,            \* CONFIG['min_profit_percent'] =
  MinProfitDen,            \*    MinProfitNum / MinProfitDen (percent)
  MaxSwapAmountHez,        \* CONFIG['max_swap_amount_hez'], whole tokens
  ONE_TOKEN,               \* atomic units per token (10^12 in the code)
  NoOpp                    \* the None returned when there is no opportunity

ASSUME EvaluatorAssumption ==
  /\ RefNum \in Nat \ {0} /\ RefDen \in Nat \ {0}
  /\ MinProfitNum \in Nat \ {0} /\ MinProfitDen \in Nat \ {0}
  /\ MaxSwapAmountHez \in Nat \ {0}
  /\ ONE_TOKEN \in Nat \ {0}

\* The two directions of calculate_arbitrage.
HezToPez == "HEZ_TO_PEZ"
PezToHez == "PEZ_TO_HEZ"
Directions == {HezToPez, PezToHez}

AbsVal(x) == IF x < 0 THEN -x ELSE x
MinOf(a, b) == IF a <= b THEN a ELSE b

(***************************************************************************)
(* calculate_arbitrage on a snapshot with w atomic wHEZ and p atomic PEZ   *)
(* in the pool (w > 0).  price = p / w and                                 *)
(*   deviation = (price - ref) / ref * 100 = Gap * 100 / (w * RefNum)      *)
(* so deviation has the sign of Gap, and abs(deviation) < min_profit is    *)
(* the cross-multiplied comparison in WithinBand.                          *)
(***************************************************************************)
Gap(w, p) == p * RefDen - RefNum * w

WithinBand(w, p) ==
  AbsVal(Gap(w, p)) * 100 * MinProfitDen < MinProfitNum * RefNum * w

\* Mutant: the comparison turned around.
MutantDirectionSwapped(w, p) == IF Gap(w, p) >= 0 THEN PezToHez ELSE HezToPez

\* pool_price > reference_price selects HEZ_TO_PEZ, anything else PEZ_TO_HEZ.
Direction(w, p) == IF Gap(w, p) > 0 THEN HezToPez ELSE PezToHez

\* min(max_swap_amount_hez, reserve_whez * 0.05), then int(amount * ONE_TOKEN)
\* in the composer: the atomic amount_in of the first call of the plan.
OptimalAmountIn(w) == MinOf(MaxSwapAmountHez * ONE_TOKEN, (w * 5) \div 100)

Opportunities == [direction : Directions, amount : Nat]

\* calculate_arbitrage's None is not an opportunity dict.
ASSUME NoOppAssumption == NoOpp \notin Opportunities

CalculateArbitrage(w, p) ==
  IF WithinBand(w, p)
    THEN NoOpp
    ELSE [direction |-> Direction(w, p), amount |-> OptimalAmountIn(w)]

(***************************************************************************)
(* The slippage floors: int(amount_in * 0.95 * 4.85) for wHEZ -> PEZ and   *)
(* int(amount_in * 0.95 * 0.19) for PEZ -> wHEZ.  Both are constants of    *)
(* the code, not derived from the snapshot.                                *)
(***************************************************************************)
MinAmountOut(dir, amountIn) ==
  IF dir = HezToPez THEN (amountIn * 95 * 485) \div 10000
                    ELSE (amountIn * 95 * 19) \div 10000

(***************************************************************************)
(* The calls of a plan.  A swap moves amountIn of path[1] into the pool    *)
(* and asks for at least minOut of path[2]; wrap and unwrap convert        *)
(* native HEZ and wHEZ one to one.                                         *)
(***************************************************************************)
WrapCall(a) == [op |-> "wrap", amount |-> a]
UnwrapCall(a) == [op |-> "unwrap", amount |-> a]
SwapCall(from, to, a, m) ==
  [op |-> "swap", from |-> from, to |-> to, amount |-> a, minOut |-> m]

\* _swap_hez_to_pez: batch_all [wrap(amount_in), swap wHEZ->PEZ].
SwapHezToPez(amountIn) ==
  << WrapCall(amountIn),
     SwapCall("WHEZ", "PEZ", amountIn, MinAmountOut(HezToPez, amountIn)) >>

\* Mutant: the unwrap takes the expected output at the quoted 0.2 rate
\* instead of the slippage floor of the swap.
MutantSwapPezToHezOptimistic(amountIn) ==
  << SwapCall("PEZ", "WHEZ", amountIn, MinAmountOut(PezToHez, amountIn)),
     UnwrapCall((amountIn * 2) \div 10) >>

\* _swap_pez_to_hez: batch_all [swap PEZ->wHEZ, unwrap(min_amount_out)];
\* the unwrap takes the floor of the swap, never its expected output.
SwapPezToHez(amountIn) ==
  << SwapCall("PEZ", "WHEZ", amountIn, MinAmountOut(PezToHez, amountIn)),
     UnwrapCall(MinAmountOut(PezToHez, amountIn)) >>

\* The batch submitted by execute_arbitrage for an opportunity.
ComposePlan(opp) ==
  [mode  |-> "batch_all",
   calls |-> IF opp.direction = HezToPez THEN SwapHezToPez(opp.amount)
                                         ELSE SwapPezToHez(opp.amount)]
=============================================================================
