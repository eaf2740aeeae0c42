------------------------------ MODULE Runtime ------------------------------
(***************************************************************************)
(* What the chain does with the calls the scripts submit.  The runtime     *)
(* pallets (AssetConversion, TokenWrapper, Utility) are not among the      *)
(* source files: these operators follow the behaviour the scripts and the  *)
(* spec rely on (spec.md 4.3, 9: batch_all is all-or-nothing, enforced by  *)
(* the chain).                                                             *)
(*                                                                         *)
(* A ledger is the part of chain state the bot touches: the two reserves   *)
(* of the wHEZ/PEZ pool account and the three balances of the bot's        *)
(* account.  Transaction fees and the existential deposit are left out.    *)
(***************************************************************************)
EXTENDS Integers

CONSTANT LPFee                 \* the pool's fee in per mille

ASSUME RuntimeAssumption == LPFee \in 0..999

PoolAssets == {"WHEZ", "PEZ"}
Coins == {"HEZ", "WHEZ", "PEZ"}

Ledgers == [reserve : [PoolAssets -> Nat], bal : [Coins -> Nat]]

\* The calls the scripts compose, and a plan: two calls under Utility's
\* batch_all or batch.
Calls == [op : {"wrap", "unwrap"}, amount : Nat]
           \cup [op : {"swap"}, from : PoolAssets, to : PoolAssets,
                 amount : Nat, minOut : Nat]
Plans == [mode : {"batch_all", "batch"}, calls : [1..2 -> Calls]]

\* AssetConversion's constant-product quote for amountIn into a pool with
\* reserves rIn, rOut: the fee is taken from the input.
GetAmountOut(amountIn, rIn, rOut) ==
  (amountIn * (1000 - LPFee) * rOut) \div (rIn * 1000 + amountIn * (1000 - LPFee))

SwapOut(L, c) == GetAmountOut(c.amount, L.reserve[c.from], L.reserve[c.to])

(***************************************************************************)
(* When a call succeeds on ledger L, and what it leaves.                   *)
(***************************************************************************)
\* Mutant: wrap without checking the native balance.
MutantWrapOkNoBalance(L, c) == c.amount > 0

\* TokenWrapper.wrap: native HEZ to wHEZ, one to one.
WrapOk(L, c) == c.amount > 0 /\ L.bal["HEZ"] >= c.amount
DoWrap(L, c) ==
  [reserve |-> L.reserve,
   bal     |-> [L.bal EXCEPT !["HEZ"] = @ - c.amount, !["WHEZ"] = @ + c.amount]]

\* TokenWrapper.unwrap: wHEZ back to native HEZ.
UnwrapOk(L, c) == c.amount > 0 /\ L.bal["WHEZ"] >= c.amount
DoUnwrap(L, c) ==
  [reserve |-> L.reserve,
   bal     |-> [L.bal EXCEPT !["WHEZ"] = @ - c.amount, !["HEZ"] = @ + c.amount]]

\* AssetConversion.swap_exact_tokens_for_tokens along [from, to], proceeds
\* to the signer: fails on a zero amount, a balance short of amount_in, an
\* empty pool, an output below amount_out_min or one that would drain it.
SwapOk(L, c) ==
  /\ c.amount > 0
  /\ L.bal[c.from] >= c.amount
  /\ L.reserve[c.from] > 0 /\ L.reserve[c.to] > 0
  /\ SwapOut(L, c) >= c.minOut
  /\ SwapOut(L, c) < L.reserve[c.to]
DoSwap(L, c) ==
  [reserve |-> [L.reserve EXCEPT ![c.from] = @ + c.amount,
                                 ![c.to]   = @ - SwapOut(L, c)],
   bal     |-> [L.bal EXCEPT ![c.from] = @ - c.amount,
                             ![c.to]   = @ + SwapOut(L, c)]]

CallOk(L, c) ==
  CASE c.op = "wrap"   -> WrapOk(L, c)
    [] c.op = "unwrap" -> UnwrapOk(L, c)
    [] c.op = "swap"   -> SwapOk(L, c)

DoCall(L, c) ==
  CASE c.op = "wrap"   -> DoWrap(L, c)
    [] c.op = "unwrap" -> DoUnwrap(L, c)
    [] c.op = "swap"   -> DoSwap(L, c)

(***************************************************************************)
(* Utility.batch_all of the two calls of a plan: both apply or neither     *)
(* does, and the extrinsic reports failure when either fails.              *)
(* Utility.batch stops at the first failing call, keeps what ran before    *)
(* it and still reports success.                                           *)
(***************************************************************************)
Step1(L, plan) == DoCall(L, plan.calls[1])

PlanCompletes(L, plan) ==
  CallOk(L, plan.calls[1]) /\ CallOk(Step1(L, plan), plan.calls[2])

PlanLedger(L, plan) ==
  IF PlanCompletes(L, plan) THEN DoCall(Step1(L, plan), plan.calls[2])
  ELSE IF plan.mode = "batch" /\ CallOk(L, plan.calls[1]) THEN Step1(L, plan)
  ELSE L

PlanReportsSuccess(L, plan) == plan.mode = "batch" \/ PlanCompletes(L, plan)

\* Another account's swap on the pool: only the reserves move.
ExternalSwapReserve(r, from, to, a) ==
  LET out == GetAmountOut(a, r[from], r[to])
  IN  [r EXCEPT ![from] = @ + a, ![to] = @ - out]
=============================================================================
