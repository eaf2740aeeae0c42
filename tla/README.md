# TLA+ models of the pezkuwi-sdk DEX scripts

This directory models the Python scripts that operate the wHEZ/PEZ pool of
the pezkuwi chain:

- `scripts/arbitrage_bot.py` is the arbitrage bot. It polls the pool, compares
  its price with a reference price and trades the pool back towards it.
- `scripts/create_pool_instance3.py` and `scripts/init/init_pools.py` are the
  setup scripts. They create the pool and give it its first liquidity.
- `scripts/generate-key-insertion-script.py` is a generator of a shell script
  for session keys.

## The system and how its parts interact

The **bot** is one Python thread.

- `main()` connects to the node.
- `run()` then loops forever. Each iteration does the following:
  1. `get_pool_price` makes four storage queries: `Pools`, `PoolAccountIds`,
     the pool account's wHEZ balance and its PEZ balance.
  2. `calculate_arbitrage` turns the snapshot into a direction and an amount,
     or into `None`.
  3. `execute_arbitrage` composes a `Utility.batch_all` of two calls.
     - For HEZ_TO_PEZ: wrap, then swap wHEZ for PEZ.
     - For PEZ_TO_HEZ: swap PEZ for wHEZ, then unwrap the swap's minimum output.
  4. It signs the batch and submits it with `wait_for_inclusion=True`.
  5. If the receipt reports success, it increments `trades_executed`.
  6. It sleeps.
- Every exception inside a step is caught by a local `except Exception`, and
  the cycle goes on.
- `KeyboardInterrupt` is not an `Exception`. It ends `run()` from wherever it
  is raised.

The **chain** runs concurrently with the bot:

- Blocks include the bot's batch some time after it is broadcast.
- Other accounts swap on the same pool between any two of the bot's queries.
- The setup scripts create the pool (`AssetConversion.create_pool`) and add
  its first liquidity (`add_liquidity`), possibly after the bot has started.

The runtime pallets (AssetConversion, TokenWrapper, Utility) are not among the
sources. What they do is taken from the spec, and the map marks those
definitions as `spec_modelled`.

## Modules

| module | models | state and actions |
|---|---|---|
| `Evaluator` | `calculate_arbitrage` (105-144); the call composition of `execute_arbitrage`, `_swap_hez_to_pez` and `_swap_pez_to_hez` (146-253) | Pure operators. `Gap`/`WithinBand` give the deviation test of line 117. `Direction` is line 121. `OptimalAmountIn` is lines 134-137 with the `int(x * ONE_TOKEN)` of lines 168/219. `MinAmountOut` gives the two hard-coded floors. `ComposePlan` builds the batch. |
| `Runtime` | the chain pallets (spec-modelled) | A ledger holds the pool reserves and the bot's balances. `GetAmountOut` is the constant-product quote with the fee per mille. `CallOk`/`DoCall` cover wrap, unwrap and swap. `PlanLedger`/`PlanReportsSuccess` cover `batch_all` (all or nothing) and `batch` (keeps a prefix and reports success). |
| `ArbitrageBot` | the bot loop, composed with the chain, other traders and pool setup | The bot's variables are `pc`, `iteration`, `trades` (= `trades_executed`), `snap` (the reserves read this cycle) and `opp`. The chain's are `poolState`, `ledger`, `txs` (the bot's broadcast batches, in nonce order), `res` (the outcomes of the included ones), `okCount` (a history variable: the plans that completed) and `extCount`. Bot actions: `Connect`, `QueryPool`, `ReadWhez`, `ReadPez`, `QueryFails`, `Evaluate`, `Broadcast`, `SubmitFails`, `AwaitReceipt`, `AwaitFails`, `Sleep`, `Interrupt`, `Done`. Chain actions: `IncludeBotTx`, `ExternalSwap`, `CreatePool`, `AddLiquidity`. |
| `BotLoop` | the Execution Loop of spec 4.4 (abstract, spec-modelled) | `phase`, `iterationCount`, `tradesExecuted`. Actions `StartCycle`, `SkipCycle`, `Absent`, `Evaluate`, `Decide`, `Submitted`, `Interrupted`, `ConnectFails`. |
| `PoolSetup` | `init_pools.py` (`main`, `wait_for_node`, `wrap_hez_to_whez`, `create_pool`, `add_liquidity`) and `create_pool_instance3.py`, running concurrently against one node | Chain: `nodeUp`, `poolState`, `ledger`. init_pools: `ipPc`, `retry`, `poolsCreated`, `liquidityAdded`, `ipExit`, with actions `IpProbeReady`, `IpProbeFails`, `IpConnect`, `IpWrap`, `IpCreate`, `IpAdd`, `IpInterrupt`. create_pool_instance3: `cpPc`, `cpExit`, with `CpConnect`, `CpCheck`, `CpCreate`. Environment: `NodeStarts`. |
| `KeyInsertion` | `generate-key-insertion-script.py` and the `insert-all-beta-keys.sh` it writes | Generator: `gPc`, `beta`, `gExit`, `file`, with `GenRead`, `GenGenerate`, `GenWrite`. Generated script: `sPc`, `sLine`, `inserted`, `complete`, with `RunStart`, `RunConfirm`, `RunInsert`, `RunFooter`. |
| `ArbitrageBot_proofs`, `BotLoop_proofs`, `PoolSetup_proofs`, `KeyInsertion_proofs`, `Evaluator_proofs` | — | TLAPS proofs (see "What is proved"). |
| `MC_ArbitrageBot`, `MC_Evaluator`, `MC_PoolSetup`, `MC_KeyInsertion` | — | TLC instances. |

Each storage query of `get_pool_price` is its own step, because a block can
land between any two of them. In the model, `QueryPool` folds `Pools` and
`PoolAccountIds` into one step: both are set once by `create_pool` and never
change afterwards.

`submit_extrinsic` has two steps:
- the broadcast (`Broadcast`);
- the wait, which ends in `AwaitReceipt`, or in `AwaitFails` when the
  connection or the subscription raises.

Inclusion (`IncludeBotTx`) is a chain step in between those two.

The arithmetic is exact:
- Amounts are integers in atomic units, with `ONE_TOKEN` atomic units per token.
- Every float comparison of the code becomes a comparison of cross products.

## Runs

All runs use `tlc -workers 2 -config <cfg> <MC module>`.

| run | cfg | expect | what it shows |
|---|---|---|---|
| bot_safety | `MC_ArbitrageBot.cfg` | pass (452,725 states) | The following three properties hold (details below the table). |
| bot_overshoot | `MC_ArbitrageBot_NoOvershoot.cfg` | violation | A single 5% trade moves the price across the reference. |
| bot_interrupt_inflight | `MC_ArbitrageBot_NothingInFlightAtStop.cfg` | violation | Ctrl-C while waiting leaves the batch pending. |
| bot_poll_overlap | `MC_ArbitrageBot_NoPollWhileInFlight.cfg` | violation | A failed wait lets the next cycle poll, and even trade, with a batch pending. |
| evaluator_spec | `MC_Evaluator.cfg` | pass | `calculate_arbitrage` matches the spec's decision rule, away from exact ties. |
| evaluator_tie | `MC_Evaluator_Tie.cfg` | violation | A deviation of exactly the threshold is traded. |
| bot_loop_refinement | `MC_ArbitrageBot_Loop.cfg` | pass | `ImplementsBotLoop` (the bot refines `BotLoop`) and `CycleEnds` under `LiveSpec`. |
| bot_stale_trade | `MC_ArbitrageBot_Stale.cfg` | violation | A trade decided on a stale snapshot is included after the pool moved and pushes the price further from the reference. |
| setup_terminates | `MC_PoolSetup.cfg` | pass (855 states) | `TypeOK` and `SetupTerminates`: both setup scripts always exit. |
| setup_init_exit | `MC_PoolSetup_InitExit.cfg` | violation | init_pools returns 0 with no funded pool. |
| setup_creator_exit | `MC_PoolSetup_CreatorExit.cfg` | violation | create_pool_instance3 exits 0 with no pool. |
| key_insertion | `MC_KeyInsertion.cfg` | pass (503 states) | `TypeOK` and `CompleteImpliesAllKeys`. |

The bot_safety run checks:
- `TypeOK`;
- `CounterSound`: `trades_executed` never exceeds the bot's batches that
  completed on chain;
- `WrappedNeverDecreases`: no step takes wHEZ from the bot.

The bot_loop_refinement run checks:
- `ImplementsBotLoop == BL!Spec`, where `BL` is `BotLoop` instantiated with
  `phase <- Phase`, `iterationCount <- iteration`, `tradesExecuted <- trades`.
  `Phase` maps `pc`: `poll` is Idle before the first iteration and Sleeping
  after; `readW`/`readP` are Polling; `evaluate` is Evaluating;
  `execute`/`await` are Executing; `sleep` is Sleeping. `QueryPool` is
  `StartCycle`, or `SkipCycle` when Pools answers None.
- `CycleEnds`: a cycle that has started its reads reaches `sleep` or `stop`.

The key_insertion run checks `CompleteImpliesAllKeys`: when the generated
script prints "Key insertion complete!", every validator of
`validators[:8]` has all six keys in the keystore of the node on its own
port. This rests on two details of the code: the script runs under
`set -e`, so the first failing `insert_key` ends it, and a script cut short
by a failed write has no footer.

Each property of a passing run has a mutant in `PROJECT.json` that breaks it:
- an `AwaitReceipt` that does not look at `is_success`;
- an unwrap of the quoted output instead of the floor;
- a wrap without a balance check;
- a swapped direction;
- a `QueryPool` that does not count the iteration (breaks the refinement);
- an `AwaitReceipt` that only returns on success (breaks `CycleEnds`);
- a `wait_for_node` that gives up one probe late or never counts;
- a generated script without `set -e`, and one that writes the validator's
  index in place of its entry.

### Bounds and why they suffice

The scale is `ONE_TOKEN = 10` with reserves of about 1000 wHEZ : 5000 PEZ. At
this scale:
- the 5% rule (50) is below the cap (`MaxSwapAmountHez * ONE_TOKEN = 50`), so
  both arms of the `min` are equal;
- the floors `int(a * 0.95 * 4.85)` and `int(a * 0.95 * 0.19)` are 230 and 9
  for a = 50;
- the constant-product outputs with a 3 per mille fee are in the same ratio
  as on chain.

The initial reserves are either 1000/5200 (HEZ expensive, +4%) or 1000/4700
(-6%), or the pool does not exist yet. With a 2% threshold this makes both
directions, and the no-opportunity case, reachable.

The bot starts with:
- 100 HEZ, enough for two wraps;
- 20 wHEZ;
- 500 PEZ, enough for a few PEZ swaps.

So both success and failure of each call occur.

The other counts are:
- two external swaps of each direction (`MaxExternal = 2`), enough to push the
  price across the band and back;
- four loop iterations (`MaxIteration = 4`), enough for two trades, an
  overlapping trade, and a failure cycle between them.

The coverage of the run shows that every action and every disjunct fires.

`MC_Evaluator` enumerates:
- wHEZ reserves around the cap's knee (19/20/21, 79/80/81, 99/100/101);
- every PEZ reserve from 0 to 560.

This covers both band edges for every w. `MC_Evaluator_Tie` sets the
threshold to 10% so that the band edge 4.5 is a representable price.

`MC_PoolSetup` uses `MaxRetries = 3` (the code has 30). Three probes are
enough for a node that starts before, between and after them, and for the
give-up path. Alice starts with either enough or too little HEZ to wrap
(`WrapAmount = 3`), and with 5 PEZ, so `add_liquidity` of (2, 5) succeeds
only after a successful wrap. `MC_KeyInsertion` uses `MaxUse = 2` in place
of 8, with beta lists that are empty, longer than the cut (with an
incomplete entry past it), start with an incomplete entry, or hold one
validator.

`MC_ArbitrageBot_Stale` uses a single external swap of 30 wHEZ and two
iterations. That is the smallest move that keeps the bot's batch above the
fixed floor.

### Fairness

`Spec` has no fairness. The safety runs use it.

`ArbitrageBot!LiveSpec` adds weak fairness of each of the bot's normal steps
(`Connect`, `QueryPool`, `ReadWhez`, `ReadPez`, `Evaluate`, `Broadcast`,
`AwaitReceipt`, `Sleep`) and of `IncludeBotTx`. The justification is that
each step is a statement of a single thread that returns once its RPC
returns, and a node includes a valid extrinsic it has accepted. There is no
fairness on the failure steps, the interrupt, other traders or pool setup:
nothing obliges them to happen.

`PoolSetup!Spec` has weak fairness of each script's own steps (`IpStep`,
`CpStep`), for the same reason. There is no fairness on `NodeStarts` or on
Ctrl-C: `SetupTerminates` holds even when the node never starts, because
`wait_for_node` gives up after `MaxRetries` probes.

Neither assumption covers a hung call: `submit_extrinsic(wait_for_inclusion=True)`
and the storage queries have no timeout, and a hung RPC stalls the process
forever.

## Findings

Findings 1-6 are divergences between the code and `spec.md`, and finding 7
is a gap in the spec.

1. **NoOvershoot** (`arbitrage_bot.py:134`). The code sizes a trade at
   min(max_swap, 5% of the wHEZ reserve). Spec 4.2 says this size avoids
   trades that push the pool past the reference price, but a 5% trade moves
   the price by about 10%. TLC shows it: from 1000/5200 (+4%), selling 50 wHEZ
   leaves 1050/4954 (-5.6%).
2. **NothingInFlightAtStop** (`:318`). `KeyboardInterrupt` ends `run()` during
   `submit_extrinsic`, contrary to spec 5.
3. **NoPollWhileInFlight** (`:162`). Suppose `submit_extrinsic` raises after
   the broadcast. `execute_arbitrage` catches the exception and returns False,
   and the next cycle polls and may trade again while the first batch is still
   pending. This is contrary to spec 5.
4. **TieNotActionable** (`:117`). The test is `abs(deviation) <
   min_profit_percent`, so a deviation equal to the threshold trades. Spec 4.2
   says "exceeds".
5. **InitExitZeroImpliesFunded** (`init_pools.py:243`). `create_pool` and
   `add_liquidity` return True for any included extrinsic without reading
   `receipt.is_success`, and `main` returns 0 after step 3 whatever happened.
   TLC: `create_pool` fails in dispatch, `add_liquidity` fails, and the exit
   code is 0 with no pool. Spec 6 says a setup task exits 1 on an
   unrecoverable error.
6. **CreatorExitZeroImpliesPool** (`create_pool_instance3.py:72`). A failed
   `create_pool` receipt is printed, then "Pool creation complete!" and exit 0.
7. **NoTradeAgainstReference** (`arbitrage_bot.py:184`). The swap floor is the
   constant 4.85 x 0.95, not derived from the snapshot. TLC: the bot decides
   at 1000/5200; another trader's 30 wHEZ swap moves the pool to 1030/5049
   (4.90, below the reference 5); the bot's batch still passes the floor and
   leaves 1080/4816 (4.46).

## What is proved

Five modules hold proofs, all checked by `tlapm`: `ArbitrageBot_proofs`,
`BotLoop_proofs`, `PoolSetup_proofs`, `KeyInsertion_proofs` and
`Evaluator_proofs`. Each theorem holds for every value of the constants
allowed by the named assumptions of the modules it extends:
`EvaluatorAssumption`, `NoOppAssumption`, `RuntimeAssumption`,
`BotAssumption`, `SetupAssumption` and `KeyAssumption`. `NoOppAssumption`
says that `None` is not an opportunity dict.

**`TypeCorrect`: `Spec => []TypeOK`.**
- `TypeOK` is not inductive as it stands: `Evaluate` needs a numeric
  snapshot, and `Broadcast` needs `opp` to be an opportunity.
- The proof therefore uses `TypeInv`, which adds two conjuncts:
  - `ReadyToEvaluate`: at `evaluate`, both reserves of `snap` are numbers and
    the wHEZ reserve is positive;
  - `ReadyToExecute`: at `execute`, `opp` is an opportunity.
- It rests on lemmas stating that each call, each plan and `ComposePlan` stay
  inside `Ledgers`/`Plans`. For example, a swap's output is a natural number
  below the output reserve.

**`CounterSoundness`: `Spec => []CounterSound`.**
- The inductive invariant `CounterInv` is `TypeInv` plus three conjuncts:
  - every broadcast batch is a `batch_all` (`AllBatchAll`);
  - at `await` the bot has broadcast something (`AwaitingOwnTx`);
  - `trades + Unreported <= okCount`, where `Unreported` is 1 exactly when
    the bot's last batch has been included with success and the bot has not
    yet read the receipt.
- `CounterInv` is needed because, between inclusion and the receipt check,
  `okCount` is ahead of `trades`.
- It is also needed because only `batch_all` makes "reported success" mean
  "completed". A `batch` reports success even when its second call fails.

**`Refinement`: `Spec => ImplementsBotLoop`** (in `ArbitrageBot_proofs`).
- `Init` maps to `BL!Init`. `RefStep` shows that every step of `Next` is a
  `BL!Next` step or a stutter of the mapped variables.
- The step needs the invariant `RefInv`, which is `TypeInv` plus
  `CycleStarted`: at `connect` no iteration has been counted, and from
  `readW` to `sleep` at least one has. Without it, `Connect` could not be
  shown to keep the phase Idle, and `Sleep` to keep it Sleeping.

**`TradesBound` (in `BotLoop_proofs`) and `SessionTradesBound`.**
- In `BotLoop`, `tradesExecuted <= iterationCount`. The inductive invariant
  adds `InCycle`: while Polling, Evaluating or Executing,
  `tradesExecuted < iterationCount`, so `Submitted` may add one.
- `SessionTradesBound` carries this to the bot (`trades <= iteration`)
  through the refinement, by instantiating `BotLoop_proofs` with the same
  mapping.

**`SetupTypeCorrect`: `PoolSetup!Spec => []TypeOK`** (in `PoolSetup_proofs`).
- The inductive invariant adds `WaitBound` (in `wait`, `retry <
  MaxRetries`, which keeps `retry` in range) and `StepCounts` (create and
  add have each run at most once, tied to `ipPc`).

**`WrappedNeverDecreasesProved`: `Spec => WrappedNeverDecreases`** (an
action property, in `ArbitrageBot_proofs`).
- Only `IncludeBotTx` can change the bot's balances. So the proof rests on
  the invariant `AllComposed`: every broadcast batch is `ComposePlan(o)` for
  some opportunity `o`. `Broadcast` keeps it because `ReadyToExecute` gives
  an opportunity at `execute`.
- `PlanKeepsWrapped` covers what such a plan does to wHEZ:
  - if the plan does not complete, `batch_all` leaves the ledger unchanged;
  - `HezToPezKeepsWrapped`: the wrap adds exactly the amount the swap spends;
  - `PezToHezKeepsWrapped`: the unwrap takes the floor, and `SwapOk` makes
    the swap produce at least that floor.

**`KeyTypeCorrect` and `AllKeysOnCompletion`** (in `KeyInsertion_proofs`).
- `CallsShape` gives the call list six calls per used validator. The call at
  position (i - 1) * 6 + j is key j of validator i, on port
  `BasePort + i`. This is the div/mod arithmetic of the generator's nested
  loop.
- The inductive invariant `KeyInv` is `TypeOK` plus four conjuncts:
  - `GenFirst`: nothing is written or run before the generator exits;
  - `FooterWhole`: a file with a footer holds the whole `Calls` of the list
    that was read;
  - `Progress`: every line before `sLine` is in the keystore;
  - `Completed`: completion is printed only at the end of the file.
- `Progress` is the `set -e` argument: a line is passed only when its
  `insert_key` succeeded. `FooterWhole` is why a truncated write can never
  report completion.
- `CompleteImpliesAllKeys` then follows by picking the position of each
  (validator, key) pair.

**`EvaluatorCorrect`: `Spec => []EvaluateMatchesSpec`** (in
`Evaluator_proofs`, over the snapshot variables of `MC_Evaluator`).
- `BandIsThreshold`: the spec's test `abs(deviation) < min_profit` on the
  rational deviation is the code's cross-multiplied `WithinBand`, and the
  two signs agree.
- `AmountWithinCaps` covers the size: `min(cap, (5w) div 100)` is within both
  caps, and it equals the cap or is the largest whole amount within 5%.
- The run checks this on a grid. The theorem states it for every snapshot
  with w > 0 and every constant.

## What is only model-checked

The following stay with TLC:
- **Liveness:** `CycleEnds` and `SetupTerminates`. TLAPS does not reason
  about fairness and ENABLED here.
- **The violated properties:** `NoOvershoot`, `NothingInFlightAtStop`,
  `NoPollWhileInFlight`, `TieNotActionable`, `NoTradeAgainstReference`,
  `InitExitZeroImpliesFunded` and `CreatorExitZeroImpliesPool`. These are
  findings, shown by TLC counterexamples.

## Not modelled

- **Fees and the existential deposit.** Transaction fees are paid in HEZ and
  would only make wraps fail earlier. Accounts are never reaped in the model.
- **Transaction drop, reorgs, and finality.** A broadcast batch is always
  eventually included or stays pending.
- **Float rounding.** `WithinBand` is the exact cross-multiplied form of
  lines 111/117; the code computes in floats. They differ at the band edge
  itself, and not only where the float result is exact: with the code's
  CONFIG (5.0, 2%) a pool price of exactly 5.1 or 4.9 gives a float
  |deviation| of 1.9999999999999929, so the code does not trade where the
  model does. `EvaluateMatchesSpec` excludes the band edge, so no passing
  property depends on this. The tie run uses 10% and a price of 4.5, where
  the float deviation is exactly -10.0, so the code and the model agree
  there.
- **The fee of the chain.** The comment at `arbitrage_bot.py:184` assumes a
  3% fee; the model's `LPFee` is 3 per mille. With a 3% fee the stale-trade
  counterexample (finding 7) needs a smaller foreign swap (21 wHEZ instead of
  30) for the bot's batch to still meet its floor; the finding holds either
  way.
- **The `except Exception` "Fatal error" branch of `run()` (line 323).** Every
  call inside the loop is wrapped by its own `except Exception`, except
  `calculate_arbitrage`, which cannot raise on a positive wHEZ reserve.
- **The setup scripts composed with the bot.** `PoolSetup` and
  `ArbitrageBot` share the chain, but the bot model keeps the two one-step
  environment actions `CreatePool`/`AddLiquidity`. Composing them would
  multiply the two state spaces and adds nothing to the bot's properties: the
  bot only observes whether the pool exists and its reserves.
- **Detail kept for the code's shape, not for a property.** `Runtime`'s
  `batch` mode (a prefix applied, success reported) is never composed by the
  code; it is there to state what `batch_all` rules out. `PoolSetup`'s
  `poolsCreated` and `liquidityAdded` are the counters `main` prints; only
  `TypeOK` and the proof's `StepCounts` read them.
- **Hazards the properties do not cover.** The split reserve read (line 83)
  is modelled as two steps, but no property states that the snapshot was a
  state of the pool; `NoOvershoot` fails without any block between the
  reads. `CycleEnds` assumes every RPC call returns and every batch is
  included, so the missing timeout of `submit_extrinsic` (line 207) is
  assumed away. A zero wHEZ reserve (line 92) is modelled but unreachable,
  since `SwapOk` never drains a reserve. In the create race of
  `create_pool_instance3.py` the pool exists, so `CreatorExitZeroImpliesPool`
  holds there; only the printed "failed" message is wrong.
- **Key insertion text.** Seeds, public keys, names, colours and echo lines
  are left out. A seed that contains a quote would break the generated
  script's quoting; this is not modelled.
- **A previous `insert-all-beta-keys.sh`.** The model starts with no script,
  so running an old one after a failed generation is not covered.

## Plan for the next sittings

1. A property for the unit confusion of PEZ_TO_HEZ (line 219): the PEZ
   amount is sized in HEZ.
2. Check `StepCounts` (create and add each run at most once) in the
   setup_terminates run. It is already proved, as a conjunct of `SetupInv`.
