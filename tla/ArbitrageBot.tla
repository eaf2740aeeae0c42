---------------------------- MODULE ArbitrageBot ----------------------------
(***************************************************************************)
(* scripts/arbitrage_bot.py: the ArbitrageBot polling loop (connect, run,  *)
(* get_pool_price, calculate_arbitrage, execute_arbitrage), composed with  *)
(* the chain it polls and trades on, the other traders of the wHEZ/PEZ     *)
(* pool, and the setup scripts that create and fund the pool               *)
(* (scripts/create_pool_instance3.py, scripts/init/init_pools.py).         *)
(*                                                                         *)
(* The bot is one sequential thread; every RPC it makes is one step, so    *)
(* the chain (block inclusion, other traders, setup) interleaves between   *)
(* any two of its queries.  A submitted batch sits in the transaction      *)
(* pool until a block includes it, in nonce order.                         *)
(***************************************************************************)
EXTENDS Integers, Sequences, Evaluator, Runtime

CONSTANTS
  InitReserves,    \* possible reserves of an already funded pool at start
  BotBalance,      \* the bot account's HEZ, wHEZ and PEZ at start
  LiquidityWhez,   \* INITIAL_LIQUIDITY['WHEZ_PEZ']['amount1'] (init_pools)
  LiquidityPez,    \* INITIAL_LIQUIDITY['WHEZ_PEZ']['amount2']
  ExternalSwaps,   \* swaps other accounts may make: [from, to, amount]
  MaxIteration,    \* bound on the loop's iteration counter
  MaxExternal,     \* bound on the number of other traders' swaps
  NoValue          \* the None of a storage query with no entry

ASSUME BotAssumption ==
  /\ InitReserves \subseteq [PoolAssets -> Nat \ {0}]
  /\ BotBalance \in [Coins -> Nat]
  /\ LiquidityWhez \in Nat \ {0} /\ LiquidityPez \in Nat \ {0}
  /\ ExternalSwaps \subseteq [from : PoolAssets, to : PoolAssets, amount : Nat \ {0}]
  /\ MaxIteration \in Nat /\ MaxExternal \in Nat
  /\ NoValue \notin Nat
  /\ NoOpp \notin Opportunities

VARIABLES
  \* chain
  poolState,   \* "none", "created" (Pools entry, no liquidity), "funded"
  ledger,      \* pool reserves and the bot's balances (Runtime!Ledgers)
  txs,         \* every batch the bot has broadcast, in nonce order
  res,         \* the reported outcome of each included one (a prefix of txs)
  okCount,     \* history: how many of the bot's plans ran to completion
  extCount,    \* how many swaps other accounts have made
  \* bot
  pc,          \* where the bot's thread is
  iteration,   \* run(): iteration
  trades,      \* self.trades_executed
  snap,        \* the reserves get_pool_price has read this cycle
  opp          \* the result of calculate_arbitrage this cycle

chainVars == <<poolState, ledger, txs, res, okCount, extCount>>
botVars == <<pc, iteration, trades, snap, opp>>
vars == <<chainVars, botVars>>

PcValues == {"connect", "poll", "readW", "readP", "evaluate", "execute",
             "await", "sleep", "stopped", "exited"}
\* The states inside run()'s try block, where KeyboardInterrupt is handled.
RunStates == PcValues \ {"connect", "stopped", "exited"}

\* The bot's broadcast batches that no block has included yet.
InFlight == Len(res) < Len(txs)

TypeOK ==
  /\ poolState \in {"none", "created", "funded"}
  /\ ledger \in Ledgers
  /\ txs \in Seq(Plans)
  /\ res \in Seq(BOOLEAN)
  /\ Len(res) <= Len(txs)
  /\ okCount \in Nat /\ extCount \in Nat
  /\ pc \in PcValues
  /\ iteration \in Nat /\ trades \in Nat
  /\ snap \in [w : Nat \cup {NoValue}, p : Nat \cup {NoValue}]
  /\ opp \in Opportunities \cup {NoOpp}

Init ==
  /\ \/ /\ poolState = "funded"
        /\ \E r \in InitReserves : ledger = [reserve |-> r, bal |-> BotBalance]
     \/ /\ poolState = "none"
        /\ ledger = [reserve |-> [a \in PoolAssets |-> 0], bal |-> BotBalance]
  /\ txs = << >> /\ res = << >> /\ okCount = 0 /\ extCount = 0
  /\ pc = "connect"
  /\ iteration = 0 /\ trades = 0
  /\ snap = [w |-> NoValue, p |-> NoValue]
  /\ opp = NoOpp

(***************************************************************************)
(* The bot.                                                                *)
(***************************************************************************)
\* main(): bot.connect() either succeeds and run() starts, or main returns 1.
Connect ==
  /\ pc = "connect"
  /\ pc' \in {"poll", "exited"}
  /\ UNCHANGED <<chainVars, iteration, trades, snap, opp>>

\* Mutant: the loop forgets iteration += 1.
MutantQueryPoolNoCount ==
  /\ pc = "poll"
  /\ iteration < MaxIteration
  /\ pc' = IF poolState = "none" THEN "sleep" ELSE "readW"
  /\ UNCHANGED <<chainVars, iteration, trades, snap, opp>>

\* Top of the while loop: iteration += 1, then get_pool_price queries
\* Pools and PoolAccountIds; no pool means None and the cycle sleeps.
QueryPool ==
  /\ pc = "poll"
  /\ iteration < MaxIteration
  /\ iteration' = iteration + 1
  /\ pc' = IF poolState = "none" THEN "sleep" ELSE "readW"
  /\ UNCHANGED <<chainVars, trades, snap, opp>>

\* Assets.Account of asset 0 (wHEZ) for the pool account.
ReadWhez ==
  /\ pc = "readW"
  /\ snap' = [snap EXCEPT !.w = IF poolState = "funded"
                                  THEN ledger.reserve["WHEZ"] ELSE NoValue]
  /\ pc' = "readP"
  /\ UNCHANGED <<chainVars, iteration, trades, opp>>

\* Assets.Account of asset 1 (PEZ), then the checks of get_pool_price:
\* a missing balance returns None, a zero wHEZ reserve raises
\* ZeroDivisionError, caught as None.  Either way the cycle sleeps.
ReadPez ==
  /\ pc = "readP"
  /\ LET p == IF poolState = "funded" THEN ledger.reserve["PEZ"] ELSE NoValue
     IN  /\ snap' = [snap EXCEPT !.p = p]
         /\ pc' = IF snap.w = NoValue \/ p = NoValue \/ snap.w = 0
                    THEN "sleep" ELSE "evaluate"
  /\ UNCHANGED <<chainVars, iteration, trades, opp>>

\* Any query of get_pool_price raises (connection lost, request error):
\* the except clause returns None and the cycle sleeps.
QueryFails ==
  /\ \/ /\ pc = "poll"
        /\ iteration < MaxIteration
        /\ iteration' = iteration + 1
     \/ /\ pc \in {"readW", "readP"}
        /\ UNCHANGED iteration
  /\ pc' = "sleep"
  /\ UNCHANGED <<chainVars, trades, snap, opp>>

\* calculate_arbitrage on the snapshot; no opportunity means sleep.
Evaluate ==
  /\ pc = "evaluate"
  /\ opp' = CalculateArbitrage(snap.w, snap.p)
  /\ pc' = IF opp' = NoOpp THEN "sleep" ELSE "execute"
  /\ UNCHANGED <<chainVars, iteration, trades, snap>>

\* execute_arbitrage: compose the plan, sign it and broadcast it; then
\* submit_extrinsic waits for inclusion.
Broadcast ==
  /\ pc = "execute"
  /\ txs' = Append(txs, ComposePlan(opp))
  /\ pc' = "await"
  /\ UNCHANGED <<poolState, ledger, res, okCount, extCount,
                 iteration, trades, snap, opp>>

\* compose_call or create_signed_extrinsic raises before anything is sent:
\* execute_arbitrage returns False.
SubmitFails ==
  /\ pc = "execute"
  /\ pc' = "sleep"
  /\ UNCHANGED <<chainVars, iteration, trades, snap, opp>>

\* Mutant: trades_executed counted without looking at receipt.is_success.
MutantAwaitReceiptNoCheck ==
  /\ pc = "await"
  /\ ~InFlight
  /\ trades' = trades + 1
  /\ pc' = "sleep"
  /\ UNCHANGED <<chainVars, iteration, snap, opp>>

\* Mutant: submit_extrinsic only returns for a successful batch.
MutantAwaitReceiptSuccessOnly ==
  /\ pc = "await"
  /\ ~InFlight
  /\ res[Len(res)]
  /\ trades' = trades + 1
  /\ pc' = "sleep"
  /\ UNCHANGED <<chainVars, iteration, snap, opp>>

\* The block with the bot's batch arrives: receipt.is_success decides
\* whether trades_executed is incremented.
AwaitReceipt ==
  /\ pc = "await"
  /\ ~InFlight
  /\ trades' = IF res[Len(res)] THEN trades + 1 ELSE trades
  /\ pc' = "sleep"
  /\ UNCHANGED <<chainVars, iteration, snap, opp>>

\* submit_extrinsic or receipt.is_success raises while waiting (the
\* connection drops, the subscription errors): execute_arbitrage returns
\* False whether or not the batch is, or will be, included.
AwaitFails ==
  /\ pc = "await"
  /\ pc' = "sleep"
  /\ UNCHANGED <<chainVars, iteration, trades, snap, opp>>

\* time.sleep(check_interval), back to the top of the loop.
Sleep ==
  /\ pc = "sleep"
  /\ pc' = "poll"
  /\ UNCHANGED <<chainVars, iteration, trades, snap, opp>>

\* KeyboardInterrupt is raised wherever the thread is inside run()'s try
\* block; none of the inner `except Exception` clauses catch it.  run()
\* prints the summary and the finally clause closes the connection.
Interrupt ==
  /\ pc \in RunStates
  /\ pc' = "stopped"
  /\ UNCHANGED <<chainVars, iteration, trades, snap, opp>>

(***************************************************************************)
(* The chain and the other actors on it.                                   *)
(***************************************************************************)
\* A block includes the bot's oldest pending batch (nonce order).
IncludeBotTx ==
  /\ InFlight
  /\ LET plan == txs[Len(res) + 1]
     IN  /\ ledger' = PlanLedger(ledger, plan)
         /\ res' = Append(res, PlanReportsSuccess(ledger, plan))
         /\ okCount' = IF PlanCompletes(ledger, plan) THEN okCount + 1
                                                      ELSE okCount
  /\ UNCHANGED <<poolState, txs, extCount, botVars>>

\* Another account swaps on the funded pool.
ExternalSwap ==
  /\ poolState = "funded"
  /\ extCount < MaxExternal
  /\ \E s \in ExternalSwaps :
       /\ s.from # s.to
       /\ GetAmountOut(s.amount, ledger.reserve[s.from], ledger.reserve[s.to])
            \in 1..(ledger.reserve[s.to] - 1)
       /\ ledger' = [reserve |-> ExternalSwapReserve(ledger.reserve, s.from,
                                                     s.to, s.amount),
                     bal     |-> ledger.bal]
  /\ extCount' = extCount + 1
  /\ UNCHANGED <<poolState, txs, res, okCount, botVars>>

\* AssetConversion.create_pool(wHEZ, PEZ) from a setup script; when the
\* pool exists the script reports it and stops.
CreatePool ==
  /\ poolState = "none"
  /\ poolState' = "created"
  /\ UNCHANGED <<ledger, txs, res, okCount, extCount, botVars>>

\* init_pools.add_liquidity on the new pool: the pool account receives
\* its first reserves.
AddLiquidity ==
  /\ poolState = "created"
  /\ poolState' = "funded"
  /\ ledger' = [reserve |-> [WHEZ |-> LiquidityWhez, PEZ |-> LiquidityPez],
                bal     |-> ledger.bal]
  /\ UNCHANGED <<txs, res, okCount, extCount, botVars>>

\* The process has ended: nothing of the bot moves any more.
Done ==
  /\ pc \in {"stopped", "exited"}
  /\ UNCHANGED vars

BotNext ==
  \/ Connect \/ QueryPool \/ ReadWhez \/ ReadPez \/ QueryFails
  \/ Evaluate \/ Broadcast \/ SubmitFails \/ AwaitReceipt \/ AwaitFails
  \/ Sleep \/ Interrupt \/ Done

ChainNext == IncludeBotTx \/ ExternalSwap \/ CreatePool \/ AddLiquidity

Next == BotNext \/ ChainNext

Spec == Init /\ [][Next]_vars

\* The bot's thread runs its next statement when it can, every RPC call
\* returning (spec.md 5 accepts a hung call as a limitation), and the
\* chain eventually includes a valid pending extrinsic.  Failures,
\* interrupts, other traders and setup are under no obligation.
Fairness ==
  /\ WF_vars(Connect) /\ WF_vars(QueryPool) /\ WF_vars(ReadWhez)
  /\ WF_vars(ReadPez) /\ WF_vars(Evaluate) /\ WF_vars(Broadcast)
  /\ WF_vars(AwaitReceipt) /\ WF_vars(Sleep)
  /\ WF_vars(IncludeBotTx)

LiveSpec == Spec /\ Fairness

(***************************************************************************)
(* The refinement mapping to the Execution Loop of spec.md 4.4: the phase *)
(* is read off pc; "poll" before the first iteration is still Idle.       *)
(***************************************************************************)
Phase ==
  CASE pc = "connect"                      -> "Idle"
    [] pc = "poll"                         -> IF iteration = 0 THEN "Idle"
                                                               ELSE "Sleeping"
    [] pc \in {"readW", "readP"}           -> "Polling"
    [] pc = "evaluate"                     -> "Evaluating"
    [] pc \in {"execute", "await"}         -> "Executing"
    [] pc = "sleep"                        -> "Sleeping"
    [] pc = "stopped"                      -> "Stopped"
    [] pc = "exited"                       -> "Exited"

BL == INSTANCE BotLoop
        WITH phase <- Phase, iterationCount <- iteration, tradesExecuted <- trades
(***************************************************************************)
(* Properties.                                                             *)
(***************************************************************************)
\* The session summary never overstates: trades_executed is at most the
\* number of the bot's plans that ran to completion on chain.  It is about
\* the receipt check in _swap_hez_to_pez/_swap_pez_to_hez and the batch
\* they submit (an undercount is possible, after a failed wait).
CounterSound == trades <= okCount

\* No step takes wHEZ from the bot: a plan either unwraps at most what its
\* own swap produced (the min_amount_out floor of _swap_pez_to_hez) or wraps
\* what it swaps away (_swap_hez_to_pez), and batch_all never keeps half a
\* plan.  A decrease would mean wHEZ held before the trade was spent by it.
WrappedNeverDecreases ==
  [][ledger'.bal["WHEZ"] >= ledger.bal["WHEZ"]]_vars

\* spec.md 4.2: the trade size min(max_swap, 5% of the wHEZ reserve) is meant
\* to "avoid single trades that would themselves move the pool past the
\* reference price".  A completed bot plan never moves the pool price from
\* one side of the reference to the other.
Crosses(r1, r2) ==
  Gap(r1["WHEZ"], r1["PEZ"]) * Gap(r2["WHEZ"], r2["PEZ"]) < 0
NoOvershoot ==
  [][okCount' = okCount + 1 => ~Crosses(ledger.reserve, ledger'.reserve)]_vars

\* spec.md 4.3 and 9: the minimum output guards a trade against the price
\* moving between submission and execution.  A completed bot plan never
\* moves the pool price further away from the reference than it was when
\* the block included it (a stale opportunity is rejected, not executed).
PriceMove(r1, r2) == r2["PEZ"] * r1["WHEZ"] - r1["PEZ"] * r2["WHEZ"]
NoTradeAgainstReference ==
  [][okCount' = okCount + 1 =>
       Gap(ledger.reserve["WHEZ"], ledger.reserve["PEZ"])
         * PriceMove(ledger.reserve, ledger'.reserve) <= 0]_vars

\* spec.md 5: "an in-flight submission always completes (success or
\* failure) before the process honors a shutdown request".  When run() has
\* stopped on KeyboardInterrupt, no batch of the bot is still pending.
NothingInFlightAtStop == pc = "stopped" => ~InFlight

\* spec.md 5: "the next poll never begins until the current cycle
\* (including a potential trade submission) completes".  While
\* get_pool_price reads and the bot decides and submits, no earlier batch
\* of its own is still waiting for a block.
NoPollWhileInFlight ==
  pc \in {"readW", "readP", "evaluate", "execute"} => ~InFlight

\* run() implements the Execution Loop of spec.md 4.4: its phases follow
\* the state machine, iteration counts the cycles started and
\* trades_executed moves only when a submission ends.
ImplementsBotLoop == BL!Spec

\* spec.md 5: every cycle that has started reading the pool ends (sleeps)
\* or is interrupted: submit_extrinsic(wait_for_inclusion=True) returns
\* once the batch is in a block, whether the batch succeeded or failed.
CycleEnds ==
  pc \in {"readW", "readP", "evaluate", "execute", "await"}
    ~> pc \in {"sleep", "stopped"}
=============================================================================
