------------------------- MODULE ArbitrageBot_proofs -------------------------
(***************************************************************************)
(* Proofs about ArbitrageBot for every value of the constants.             *)
(***************************************************************************)
EXTENDS ArbitrageBot, TLAPS

(***************************************************************************)
(* Lemmas about the chain's operators (module Runtime).                    *)
(***************************************************************************)
\* Integer division of a natural by a positive natural is a natural.
LEMMA DivNat ==
  ASSUME NEW x \in Nat, NEW y \in Nat \ {0}
  PROVE  x \div y \in Nat
BY SMT

\* The constant-product quote is a natural when the input reserve is not 0.
LEMMA GetAmountOutNat ==
  ASSUME NEW a \in Nat, NEW rIn \in Nat \ {0}, NEW rOut \in Nat
  PROVE  GetAmountOut(a, rIn, rOut) \in Nat
<1>1. 1000 - LPFee \in Nat
  BY RuntimeAssumption
<1>2. a * (1000 - LPFee) * rOut \in Nat
  BY <1>1
<1>3. rIn * 1000 + a * (1000 - LPFee) \in Nat \ {0}
  BY <1>1
<1>4. QED
  BY <1>2, <1>3, DivNat DEF GetAmountOut

\* A call that succeeds leaves a ledger.
LEMMA DoCallType ==
  ASSUME NEW L \in Ledgers, NEW c \in Calls, CallOk(L, c)
  PROVE  DoCall(L, c) \in Ledgers
<1>1. CASE c.op = "wrap"
  <2>1. c \in [op : {"wrap", "unwrap"}, amount : Nat]
    BY <1>1 DEF Calls
  <2>2. DoCall(L, c) = DoWrap(L, c)
    BY <1>1 DEF DoCall
  <2>3. L.bal["HEZ"] >= c.amount
    BY <1>1 DEF CallOk, WrapOk
  <2>4. QED
    BY <2>1, <2>2, <2>3 DEF DoWrap, Ledgers, Coins
<1>2. CASE c.op = "unwrap"
  <2>1. c \in [op : {"wrap", "unwrap"}, amount : Nat]
    BY <1>2 DEF Calls
  <2>2. DoCall(L, c) = DoUnwrap(L, c)
    BY <1>2 DEF DoCall
  <2>3. L.bal["WHEZ"] >= c.amount
    BY <1>2 DEF CallOk, UnwrapOk
  <2>4. QED
    BY <2>1, <2>2, <2>3 DEF DoUnwrap, Ledgers, Coins
<1>3. CASE c.op = "swap"
  <2>1. c \in [op : {"swap"}, from : PoolAssets, to : PoolAssets,
               amount : Nat, minOut : Nat]
    BY <1>3 DEF Calls
  <2>2. DoCall(L, c) = DoSwap(L, c)
    BY <1>3 DEF DoCall
  <2>3. SwapOk(L, c)
    BY <1>3 DEF CallOk
  <2>4. /\ L.reserve[c.from] \in Nat \ {0}
        /\ L.reserve[c.to] \in Nat
        /\ c.amount \in Nat
    BY <2>1, <2>3 DEF SwapOk, Ledgers
  <2>5. SwapOut(L, c) \in Nat
    <3>1. GetAmountOut(c.amount, L.reserve[c.from], L.reserve[c.to]) \in Nat
      BY <2>4, GetAmountOutNat, Zenon
    <3>2. QED
      BY <3>1 DEF SwapOut
  <2>6. [L.reserve EXCEPT ![c.from] = @ + c.amount, ![c.to] = @ - SwapOut(L, c)]
          \in [PoolAssets -> Nat]
    BY <2>1, <2>3, <2>4, <2>5 DEF SwapOk, Ledgers
  <2>7. c.from \in Coins /\ c.to \in Coins
    BY <2>1 DEF Coins, PoolAssets
  <2>8. [L.bal EXCEPT ![c.from] = @ - c.amount, ![c.to] = @ + SwapOut(L, c)]
          \in [Coins -> Nat]
    BY <2>1, <2>3, <2>5, <2>7 DEF SwapOk, Ledgers
  <2>9. QED
    BY <2>2, <2>6, <2>8 DEF DoSwap, Ledgers
<1>4. QED
  BY <1>1, <1>2, <1>3 DEF Calls

\* Whatever a block does with a plan, it leaves a ledger.
LEMMA PlanLedgerType ==
  ASSUME NEW L \in Ledgers, NEW plan \in Plans
  PROVE  PlanLedger(L, plan) \in Ledgers
<1>1. plan.calls[1] \in Calls /\ plan.calls[2] \in Calls
  BY DEF Plans
<1>2. CallOk(L, plan.calls[1]) => Step1(L, plan) \in Ledgers
  BY <1>1, DoCallType DEF Step1
<1>3. PlanCompletes(L, plan) => DoCall(Step1(L, plan), plan.calls[2]) \in Ledgers
  BY <1>1, <1>2, DoCallType DEF PlanCompletes
<1>4. QED
  BY <1>2, <1>3 DEF PlanLedger, PlanCompletes

(***************************************************************************)
(* Lemmas about the bot's pure operators (module Evaluator).               *)
(***************************************************************************)
LEMMA CalculateArbitrageType ==
  ASSUME NEW w \in Nat, NEW p \in Nat
  PROVE  CalculateArbitrage(w, p) \in Opportunities \cup {NoOpp}
<1>1. OptimalAmountIn(w) \in Nat
  BY EvaluatorAssumption, DivNat DEF OptimalAmountIn, MinOf
<1>2. Direction(w, p) \in Directions
  BY DEF Direction, Directions
<1>3. QED
  BY <1>1, <1>2 DEF CalculateArbitrage, Opportunities

LEMMA ComposePlanType ==
  ASSUME NEW o \in Opportunities
  PROVE  ComposePlan(o) \in Plans
<1>1. \A a \in Nat : \A d \in Directions : MinAmountOut(d, a) \in Nat
  BY DivNat DEF MinAmountOut
<1>2. \A a \in Nat : SwapHezToPez(a) \in [1..2 -> Calls]
  BY <1>1 DEF SwapHezToPez, WrapCall, SwapCall, Calls, PoolAssets, Directions
<1>3. \A a \in Nat : SwapPezToHez(a) \in [1..2 -> Calls]
  BY <1>1 DEF SwapPezToHez, UnwrapCall, SwapCall, Calls, PoolAssets, Directions
<1>4. QED
  BY <1>2, <1>3 DEF ComposePlan, Plans, Opportunities

(***************************************************************************)
(* Type correctness.  TypeOK alone is not inductive: Evaluate needs the    *)
(* snapshot to hold two numbers, and Broadcast needs an opportunity.       *)
(***************************************************************************)
ReadyToEvaluate == pc = "evaluate" => snap.w \in Nat /\ snap.p \in Nat
ReadyToExecute == pc = "execute" => opp \in Opportunities

TypeInv == TypeOK /\ ReadyToEvaluate /\ ReadyToExecute

LEMMA TypeInvInit == Init => TypeInv
BY BotAssumption DEF Init, TypeInv, TypeOK, ReadyToEvaluate, ReadyToExecute,
                     Ledgers, PcValues

LEMMA TypeInvStep == TypeInv /\ [Next]_vars => TypeInv'
<1> SUFFICES ASSUME TypeInv, [Next]_vars PROVE TypeInv'
  OBVIOUS
<1> USE DEF TypeInv, TypeOK, ReadyToEvaluate, ReadyToExecute, PcValues,
           chainVars, botVars
<1>1. CASE Connect
  BY <1>1 DEF Connect
<1>2. CASE QueryPool
  BY <1>2 DEF QueryPool
<1>3. CASE ReadWhez
  <2>1. ledger.reserve["WHEZ"] \in Nat
    BY DEF Ledgers, PoolAssets
  <2>2. QED
    BY <1>3, <2>1 DEF ReadWhez
<1>4. CASE ReadPez
  <2>1. ledger.reserve["PEZ"] \in Nat
    BY DEF Ledgers, PoolAssets
  <2>2. QED
    BY <1>4, <2>1 DEF ReadPez
<1>5. CASE QueryFails
  BY <1>5 DEF QueryFails
<1>6. CASE Evaluate
  <2>1. CalculateArbitrage(snap.w, snap.p) \in Opportunities \cup {NoOpp}
    BY <1>6, CalculateArbitrageType DEF Evaluate
  <2>2. QED
    BY <1>6, <2>1 DEF Evaluate
<1>7. CASE Broadcast
  <2>1. ComposePlan(opp) \in Plans
    BY <1>7, ComposePlanType DEF Broadcast
  <2>2. QED
    BY <1>7, <2>1 DEF Broadcast
<1>8. CASE SubmitFails
  BY <1>8 DEF SubmitFails
<1>9. CASE AwaitReceipt
  BY <1>9 DEF AwaitReceipt
<1>10. CASE AwaitFails
  BY <1>10 DEF AwaitFails
<1>11. CASE Sleep
  BY <1>11 DEF Sleep
<1>12. CASE Interrupt
  BY <1>12 DEF Interrupt, RunStates
<1>13. CASE Done
  BY <1>13 DEF Done, vars, chainVars, botVars
<1>14. CASE IncludeBotTx
  <2> DEFINE plan == txs[Len(res) + 1]
  <2>1. plan \in Plans
    BY <1>14 DEF IncludeBotTx, InFlight
  <2>2. PlanLedger(ledger, plan) \in Ledgers
    BY <2>1, PlanLedgerType
  <2>3. QED
    BY <1>14, <2>2 DEF IncludeBotTx, InFlight, PlanReportsSuccess
<1>15. CASE ExternalSwap
  <2>1. PICK s \in ExternalSwaps :
          /\ s.from # s.to
          /\ GetAmountOut(s.amount, ledger.reserve[s.from], ledger.reserve[s.to])
               \in 1..(ledger.reserve[s.to] - 1)
          /\ ledger' = [reserve |-> ExternalSwapReserve(ledger.reserve, s.from,
                                                        s.to, s.amount),
                        bal     |-> ledger.bal]
    BY <1>15 DEF ExternalSwap
  <2>2. s.from \in PoolAssets /\ s.to \in PoolAssets /\ s.amount \in Nat
    BY BotAssumption
  <2>3. ledger.reserve \in [PoolAssets -> Nat] /\ ledger.bal \in [Coins -> Nat]
    BY DEF Ledgers
  <2> DEFINE r == ledger.reserve
              out == GetAmountOut(s.amount, r[s.from], r[s.to])
  <2>4. ExternalSwapReserve(r, s.from, s.to, s.amount) \in [PoolAssets -> Nat]
    <3>1. out \in Nat /\ out < r[s.to] /\ r[s.to] \in Nat /\ r[s.from] \in Nat
      BY <2>1, <2>2, <2>3
    <3>2. [r EXCEPT ![s.from] = @ + s.amount, ![s.to] = @ - out]
            \in [PoolAssets -> Nat]
      BY <2>2, <2>3, <3>1
    <3>3. QED
      BY <3>2 DEF ExternalSwapReserve
  <2>5. QED
    BY <1>15, <2>1, <2>3, <2>4 DEF ExternalSwap, Ledgers
<1>16. CASE CreatePool
  BY <1>16 DEF CreatePool
<1>17. CASE AddLiquidity
  <2>1. [WHEZ |-> LiquidityWhez, PEZ |-> LiquidityPez] \in [PoolAssets -> Nat]
    BY BotAssumption DEF PoolAssets
  <2>2. ledger.bal \in [Coins -> Nat]
    BY DEF Ledgers
  <2>3. QED
    BY <1>17, <2>1, <2>2 DEF AddLiquidity, Ledgers
<1>18. CASE UNCHANGED vars
  BY <1>18 DEF vars, chainVars, botVars
<1>19. QED
  BY <1>1, <1>2, <1>3, <1>4, <1>5, <1>6, <1>7, <1>8, <1>9, <1>10, <1>11,
     <1>12, <1>13, <1>14, <1>15, <1>16, <1>17, <1>18
  DEF Next, BotNext, ChainNext

\* The bot's and the chain's variables always have their types.
THEOREM TypeCorrect == Spec => []TypeOK
<1>1. Init => TypeInv
  BY TypeInvInit
<1>2. TypeInv /\ [Next]_vars => TypeInv'
  BY TypeInvStep
<1>3. TypeInv => TypeOK
  BY DEF TypeInv
<1>4. QED
  BY <1>1, <1>2, <1>3, PTL DEF Spec
(***************************************************************************)
(* CounterSound.  trades <= okCount is not inductive: between the block    *)
(* that completes the bot's plan and the receipt that increments           *)
(* trades_executed, okCount is already one ahead and must stay so.         *)
(* Unreported is that pending increment.  It also needs every broadcast    *)
(* batch to be a batch_all, so that a reported success is a completed      *)
(* plan.                                                                   *)
(***************************************************************************)
AllBatchAll == \A i \in 1..Len(txs) : txs[i].mode = "batch_all"
AwaitingOwnTx == pc = "await" => Len(txs) > 0
Unreported == IF pc = "await" /\ ~InFlight /\ res[Len(res)] THEN 1 ELSE 0

CounterInv ==
  /\ TypeInv
  /\ AllBatchAll
  /\ AwaitingOwnTx
  /\ trades + Unreported <= okCount

LEMMA CounterInvInit == Init => CounterInv
<1> SUFFICES ASSUME Init PROVE CounterInv
  OBVIOUS
<1>1. TypeInv
  BY TypeInvInit
<1>2. QED
  BY <1>1 DEF Init, CounterInv, AllBatchAll, AwaitingOwnTx, Unreported

LEMMA CounterInvStep == CounterInv /\ [Next]_vars => CounterInv'
<1> SUFFICES ASSUME CounterInv, [Next]_vars PROVE CounterInv'
  OBVIOUS
<1>1. TypeInv'
  BY TypeInvStep DEF CounterInv
<1>0. /\ txs \in Seq(Plans) /\ res \in Seq(BOOLEAN) /\ Len(res) <= Len(txs)
      /\ trades \in Nat /\ okCount \in Nat
      /\ AllBatchAll /\ AwaitingOwnTx
      /\ trades + Unreported <= okCount
  BY DEF CounterInv, TypeInv, TypeOK
<1>2. CASE IncludeBotTx
  <2> DEFINE plan == txs[Len(res) + 1]
  <2>1. plan.mode = "batch_all"
    BY <1>0, <1>2 DEF IncludeBotTx, InFlight, AllBatchAll
  <2>2. res' = Append(res, PlanReportsSuccess(ledger, plan))
    BY <1>2 DEF IncludeBotTx
  <2>3. PlanReportsSuccess(ledger, plan) <=> PlanCompletes(ledger, plan)
    BY <2>1 DEF PlanReportsSuccess
  <2>4. /\ Len(res') = Len(res) + 1
        /\ res'[Len(res')] <=> PlanCompletes(ledger, plan)
    BY <1>0, <2>2, <2>3
  <2>5. okCount' = IF PlanCompletes(ledger, plan) THEN okCount + 1 ELSE okCount
    BY <1>2 DEF IncludeBotTx
  <2>6. UNCHANGED <<txs, pc, trades>>
    BY <1>2 DEF IncludeBotTx, botVars
  <2>7. Unreported = 0
    BY <1>2 DEF IncludeBotTx, Unreported
  <2>8. Unreported' = IF pc = "await" /\ Len(res') = Len(txs) /\ res'[Len(res')]
                        THEN 1 ELSE 0
    BY <1>1, <2>6 DEF Unreported, InFlight, TypeInv, TypeOK
  <2>9. trades' + Unreported' <= okCount'
    BY <1>0, <2>4, <2>5, <2>6, <2>7, <2>8
  <2>10. QED
    BY <1>0, <1>1, <2>6, <2>9 DEF CounterInv, AllBatchAll, AwaitingOwnTx
<1>3. CASE Broadcast
  <2>1. ComposePlan(opp).mode = "batch_all"
    BY DEF ComposePlan
  <2>2. txs' = Append(txs, ComposePlan(opp))
    BY <1>3 DEF Broadcast
  <2>3. AllBatchAll' /\ Len(txs') = Len(txs) + 1
    BY <1>0, <2>1, <2>2 DEF AllBatchAll
  <2>4. UNCHANGED <<res, okCount, trades>> /\ pc = "execute" /\ pc' = "await"
    BY <1>3 DEF Broadcast
  <2>5. Unreported = 0 /\ Unreported' = 0
    BY <1>0, <2>3, <2>4 DEF Unreported, InFlight
  <2>6. QED
    BY <1>0, <1>1, <2>3, <2>4, <2>5 DEF CounterInv, AwaitingOwnTx
<1>4. CASE AwaitReceipt
  <2>1. UNCHANGED <<txs, res, okCount>> /\ pc' = "sleep"
    BY <1>4 DEF AwaitReceipt, chainVars
  <2>2. Unreported = IF res[Len(res)] THEN 1 ELSE 0
    BY <1>4 DEF AwaitReceipt, Unreported
  <2>3. trades' = trades + Unreported /\ Unreported' = 0
    BY <1>4, <2>1, <2>2 DEF AwaitReceipt, Unreported
  <2>4. QED
    BY <1>0, <1>1, <2>1, <2>3 DEF CounterInv, AllBatchAll, AwaitingOwnTx
<1>5. CASE BotNext /\ ~Broadcast /\ ~AwaitReceipt
  <2>1. UNCHANGED <<txs, res, okCount, trades>>
    BY <1>5 DEF BotNext, Connect, QueryPool, ReadWhez, ReadPez, QueryFails,
                Evaluate, SubmitFails, AwaitFails, Sleep, Interrupt, Done,
                vars, chainVars, botVars
  <2>2. pc' = "await" => pc = "await"
    BY <1>5 DEF BotNext, Connect, QueryPool, ReadWhez, ReadPez, QueryFails,
                Evaluate, SubmitFails, AwaitFails, Sleep, Interrupt, Done,
                vars, botVars
  <2>3. Unreported' <= Unreported
    BY <2>1, <2>2 DEF Unreported, InFlight
  <2>4. QED
    BY <1>0, <1>1, <2>1, <2>2, <2>3 DEF CounterInv, AllBatchAll, AwaitingOwnTx,
                                        Unreported
<1>6. CASE ExternalSwap \/ CreatePool \/ AddLiquidity \/ UNCHANGED vars
  <2>1. UNCHANGED <<txs, res, okCount, trades, pc>>
    BY <1>6 DEF ExternalSwap, CreatePool, AddLiquidity, vars, chainVars, botVars
  <2>2. Unreported' = Unreported
    BY <2>1 DEF Unreported, InFlight
  <2>3. QED
    BY <1>0, <1>1, <2>1, <2>2 DEF CounterInv, AllBatchAll, AwaitingOwnTx
<1>7. QED
  BY <1>2, <1>3, <1>4, <1>5, <1>6 DEF Next, ChainNext

\* The session never counts more trades than the chain has completed.
THEOREM CounterSoundness == Spec => []CounterSound
<1>1. Init => CounterInv
  BY CounterInvInit
<1>2. CounterInv /\ [Next]_vars => CounterInv'
  BY CounterInvStep
<1>3. CounterInv => CounterSound
  BY DEF CounterInv, TypeInv, TypeOK, Unreported, CounterSound
<1>4. QED
  BY <1>1, <1>2, <1>3, PTL DEF Spec

(***************************************************************************)
(* ImplementsBotLoop.  The mapping sends "poll" to Idle only before the    *)
(* first cycle, so a step of Sleep or QueryPool maps correctly only when   *)
(* every pc inside a cycle, and "sleep", has iteration >= 1, and before   *)
(* connecting none has started: CycleStarted.                              *)
(***************************************************************************)
CycleStarted ==
  /\ pc = "connect" => iteration = 0
  /\ pc \in {"readW", "readP", "evaluate", "execute", "await", "sleep"}
       => iteration >= 1

RefInv == TypeInv /\ CycleStarted

LEMMA RefInvInit == Init => RefInv
<1>1. Init => CycleStarted
  BY DEF Init, CycleStarted
<1>2. QED
  BY <1>1, TypeInvInit DEF RefInv

LEMMA RefInvStep == RefInv /\ [Next]_vars => RefInv'
<1> SUFFICES ASSUME RefInv, [Next]_vars PROVE RefInv'
  OBVIOUS
<1>1. TypeInv'
  BY TypeInvStep DEF RefInv
<1>2. CycleStarted'
  <2> USE DEF RefInv, TypeInv, TypeOK, CycleStarted
  <2>1. CASE QueryPool \/ QueryFails
    BY <2>1 DEF QueryPool, QueryFails
  <2>2. CASE Connect \/ ReadWhez \/ ReadPez \/ Evaluate \/ Broadcast
             \/ SubmitFails \/ AwaitReceipt \/ AwaitFails \/ Sleep
             \/ Interrupt \/ Done
    BY <2>2 DEF Connect, ReadWhez, ReadPez, Evaluate, Broadcast, SubmitFails,
                AwaitReceipt, AwaitFails, Sleep, Interrupt, Done, vars,
                chainVars, botVars
  <2>3. CASE ChainNext \/ UNCHANGED vars
    BY <2>3 DEF ChainNext, IncludeBotTx, ExternalSwap, CreatePool,
                AddLiquidity, vars, botVars
  <2>4. QED
    BY <2>1, <2>2, <2>3 DEF Next, BotNext
<1>3. QED
  BY <1>1, <1>2 DEF RefInv

\* Every step of the bot, the chain or the setup is a step of the
\* Execution Loop of spec.md 4.4 under the mapping Phase, or leaves its
\* phase and both counters alone.
LEMMA RefStep == RefInv /\ [Next]_vars => [BL!Next]_BL!vars
<1> SUFFICES ASSUME RefInv, [Next]_vars PROVE [BL!Next]_BL!vars
  OBVIOUS
<1> USE DEF RefInv, TypeInv, TypeOK, PcValues, CycleStarted
<1>1. CASE Connect
  BY <1>1 DEF Connect, Phase, BL!Next, BL!ConnectFails, BL!vars
<1>2. CASE QueryPool
  BY <1>2 DEF QueryPool, Phase, BL!Next, BL!StartCycle, BL!SkipCycle
<1>3. CASE ReadWhez
  BY <1>3 DEF ReadWhez, Phase, BL!vars
<1>4. CASE ReadPez
  BY <1>4 DEF ReadPez, Phase, BL!Next, BL!Absent, BL!Evaluate
<1>5. CASE QueryFails
  BY <1>5 DEF QueryFails, Phase, BL!Next, BL!SkipCycle, BL!Absent
<1>6. CASE Evaluate
  BY <1>6 DEF Evaluate, Phase, BL!Next, BL!Decide
<1>7. CASE Broadcast
  BY <1>7 DEF Broadcast, Phase, BL!vars
<1>8. CASE SubmitFails \/ AwaitFails
  BY <1>8 DEF SubmitFails, AwaitFails, Phase, BL!Next, BL!Submitted
<1>9. CASE AwaitReceipt
  BY <1>9 DEF AwaitReceipt, Phase, BL!Next, BL!Submitted
<1>10. CASE Sleep
  BY <1>10 DEF Sleep, Phase, BL!vars
<1>11. CASE Interrupt
  BY <1>11 DEF Interrupt, RunStates, Phase, BL!Next, BL!Interrupted
<1>12. CASE Done \/ UNCHANGED vars
  BY <1>12 DEF Done, vars, chainVars, botVars, BL!vars, Phase
<1>13. CASE ChainNext
  BY <1>13 DEF ChainNext, IncludeBotTx, ExternalSwap, CreatePool,
               AddLiquidity, botVars, BL!vars, Phase
<1>14. QED
  BY <1>1, <1>2, <1>3, <1>4, <1>5, <1>6, <1>7, <1>8, <1>9, <1>10, <1>11,
     <1>12, <1>13 DEF Next, BotNext

\* run() implements the Execution Loop of spec.md 4.4 (ImplementsBotLoop):
\* for every value of the constants, its phases follow the loop's state
\* machine, iteration counts started cycles and trades_executed moves only
\* when a submission ends.
THEOREM Refinement == Spec => ImplementsBotLoop
<1>1. Init => BL!Init
  BY DEF Init, Phase, BL!Init
<1>2. QED
  BY <1>1, RefInvInit, RefInvStep, RefStep, PTL
     DEF Spec, ImplementsBotLoop, BL!Spec

BLP == INSTANCE BotLoop_proofs
         WITH phase <- Phase, iterationCount <- iteration, tradesExecuted <- trades

\* The bound of the Execution Loop carried over by the refinement: the
\* session summary of run() never shows more trades_executed than
\* iterations, for every value of the constants.
THEOREM SessionTradesBound == Spec => []BL!TradesWithinIterations
<1>1. BLP!Spec => []BLP!TradesWithinIterations
  BY BLP!TradesBound
<1>2. BL!Spec => BLP!Spec
  BY DEF BL!Spec, BLP!Spec, BL!Init, BLP!Init, BL!Next, BLP!Next,
         BL!vars, BLP!vars, BL!StartCycle, BLP!StartCycle, BL!SkipCycle,
         BLP!SkipCycle, BL!Absent, BLP!Absent, BL!Evaluate, BLP!Evaluate,
         BL!Decide, BLP!Decide, BL!Submitted, BLP!Submitted,
         BL!Interrupted, BLP!Interrupted, BL!ConnectFails, BLP!ConnectFails
<1>3. BLP!TradesWithinIterations => BL!TradesWithinIterations
  BY DEF BL!TradesWithinIterations, BLP!TradesWithinIterations
<1>4. QED
  BY <1>1, <1>2, <1>3, Refinement, PTL DEF ImplementsBotLoop
(***************************************************************************)
(* WrappedNeverDecreases.  Only a block that includes the bot's batch      *)
(* moves the bot's wHEZ, so the action property rests on every pending     *)
(* batch being a plan composed by execute_arbitrage, and on what such a    *)
(* plan does to wHEZ under batch_all.                                      *)
(***************************************************************************)
AllComposed ==
  \A i \in 1..Len(txs) : \E o \in Opportunities : txs[i] = ComposePlan(o)

WrapInv == TypeInv /\ AllComposed

\* _swap_hez_to_pez wraps exactly the amount its swap spends.
LEMMA HezToPezKeepsWrapped ==
  ASSUME NEW L \in Ledgers, NEW a \in Nat,
         PlanCompletes(L, [mode |-> "batch_all", calls |-> SwapHezToPez(a)])
  PROVE  PlanLedger(L, [mode |-> "batch_all", calls |-> SwapHezToPez(a)]).bal["WHEZ"]
           = L.bal["WHEZ"]
<1> DEFINE plan == [mode |-> "batch_all", calls |-> SwapHezToPez(a)]
           c2 == SwapCall("WHEZ", "PEZ", a, MinAmountOut(HezToPez, a))
           S == DoWrap(L, WrapCall(a))
<1>1. Step1(L, plan) = S
  BY DEF Step1, SwapHezToPez, DoCall, WrapCall
<1>2. S.bal["WHEZ"] = L.bal["WHEZ"] + a /\ S \in Ledgers
  <2>1. CallOk(L, WrapCall(a))
    BY DEF PlanCompletes, SwapHezToPez
  <2>2. L.bal["HEZ"] >= a
    BY <2>1 DEF CallOk, WrapCall, WrapOk
  <2> QED
    BY <2>2 DEF DoWrap, WrapCall, Ledgers, Coins
<1>3. PlanLedger(L, plan) = DoSwap(S, c2)
  BY <1>1 DEF PlanLedger, SwapHezToPez, DoCall, SwapCall
<1>4. DoSwap(S, c2).bal["WHEZ"] = S.bal["WHEZ"] - a
  BY <1>2 DEF DoSwap, SwapCall, Ledgers, Coins
<1>5. L.bal["WHEZ"] \in Nat
  BY DEF Ledgers, Coins
<1> QED
  BY <1>2, <1>3, <1>4, <1>5 DEF plan

\* _swap_pez_to_hez unwraps the swap's floor, which the swap has produced.
LEMMA PezToHezKeepsWrapped ==
  ASSUME NEW L \in Ledgers, NEW a \in Nat,
         PlanCompletes(L, [mode |-> "batch_all", calls |-> SwapPezToHez(a)])
  PROVE  PlanLedger(L, [mode |-> "batch_all", calls |-> SwapPezToHez(a)]).bal["WHEZ"]
           >= L.bal["WHEZ"]
<1> DEFINE plan == [mode |-> "batch_all", calls |-> SwapPezToHez(a)]
           m == MinAmountOut(PezToHez, a)
           c1 == SwapCall("PEZ", "WHEZ", a, m)
           S == DoSwap(L, c1)
<1>1. m \in Nat
  BY DivNat DEF MinAmountOut
<1>2. SwapOk(L, c1)
  BY DEF PlanCompletes, SwapPezToHez, CallOk, SwapCall
<1>3. SwapOut(L, c1) \in Nat /\ SwapOut(L, c1) >= m
  <2>1. L.reserve["PEZ"] \in Nat \ {0} /\ L.reserve["WHEZ"] \in Nat
    BY <1>2 DEF SwapOk, SwapCall, Ledgers, PoolAssets
  <2>2. GetAmountOut(a, L.reserve["PEZ"], L.reserve["WHEZ"]) \in Nat
    BY <2>1, GetAmountOutNat
  <2> QED
    BY <1>2, <2>2 DEF SwapOk, SwapOut, SwapCall
<1>4. Step1(L, plan) = S
  BY DEF Step1, SwapPezToHez, DoCall, SwapCall
<1>5. S.bal["WHEZ"] = L.bal["WHEZ"] + SwapOut(L, c1)
  BY DEF DoSwap, SwapCall, Ledgers, Coins
<1>6. PlanLedger(L, plan) = DoUnwrap(S, UnwrapCall(m))
  BY <1>4 DEF PlanLedger, SwapPezToHez, DoCall, UnwrapCall
<1>7. DoUnwrap(S, UnwrapCall(m)).bal["WHEZ"] = S.bal["WHEZ"] - m
  BY DEF DoUnwrap, UnwrapCall, DoSwap, Ledgers, Coins
<1>8. L.bal["WHEZ"] \in Nat
  BY DEF Ledgers, Coins
<1> QED
  BY <1>1, <1>3, <1>5, <1>6, <1>7, <1>8 DEF plan

\* A block applying a batch composed by execute_arbitrage never lowers the
\* bot's wHEZ.
LEMMA PlanKeepsWrapped ==
  ASSUME NEW L \in Ledgers, NEW o \in Opportunities
  PROVE  PlanLedger(L, ComposePlan(o)).bal["WHEZ"] >= L.bal["WHEZ"]
<1>1. o.amount \in Nat /\ o.direction \in {HezToPez, PezToHez}
  BY DEF Opportunities, Directions
<1>2. L.bal["WHEZ"] \in Nat
  BY DEF Ledgers, Coins
<1>3. CASE ~PlanCompletes(L, ComposePlan(o))
  BY <1>2, <1>3 DEF PlanLedger, ComposePlan
<1>4. CASE PlanCompletes(L, ComposePlan(o)) /\ o.direction = HezToPez
  <2>1. ComposePlan(o) = [mode |-> "batch_all", calls |-> SwapHezToPez(o.amount)]
    BY <1>4 DEF ComposePlan
  <2> QED
    BY <1>1, <1>2, <1>4, <2>1, HezToPezKeepsWrapped
<1>5. CASE PlanCompletes(L, ComposePlan(o)) /\ o.direction = PezToHez
  <2>1. ComposePlan(o) = [mode |-> "batch_all", calls |-> SwapPezToHez(o.amount)]
    BY <1>5 DEF ComposePlan, HezToPez, PezToHez
  <2> QED
    BY <1>1, <1>5, <2>1, PezToHezKeepsWrapped
<1> QED
  BY <1>1, <1>3, <1>4, <1>5

LEMMA WrapInvInit == Init => WrapInv
BY TypeInvInit DEF Init, WrapInv, AllComposed

LEMMA WrapInvStep == WrapInv /\ [Next]_vars => WrapInv'
<1> SUFFICES ASSUME WrapInv, [Next]_vars PROVE WrapInv'
  OBVIOUS
<1>1. TypeInv'
  BY TypeInvStep DEF WrapInv
<1>2. txs \in Seq(Plans)
  BY DEF WrapInv, TypeInv, TypeOK
<1>3. CASE Broadcast
  <2>1. opp \in Opportunities
    BY <1>3 DEF Broadcast, WrapInv, TypeInv, ReadyToExecute
  <2>2. txs' = Append(txs, ComposePlan(opp))
    BY <1>3 DEF Broadcast
  <2> QED
    BY <1>1, <1>2, <2>1, <2>2 DEF WrapInv, AllComposed
<1>4. CASE UNCHANGED txs
  BY <1>1, <1>4 DEF WrapInv, AllComposed
<1> QED
  BY <1>3, <1>4 DEF Next, BotNext, ChainNext, Connect, QueryPool, ReadWhez,
     ReadPez, QueryFails, Evaluate, SubmitFails, AwaitReceipt, AwaitFails,
     Sleep, Interrupt, Done, IncludeBotTx, ExternalSwap, CreatePool,
     AddLiquidity, vars, chainVars

\* For every value of the constants, no step of the bot, the chain, other
\* traders or pool setup takes wHEZ from the bot: _swap_pez_to_hez unwraps
\* at most what its swap produced, _swap_hez_to_pez wraps what it swaps,
\* and batch_all keeps no half plan.
THEOREM WrappedNeverDecreasesProved == Spec => WrappedNeverDecreases
<1>1. WrapInv /\ [Next]_vars => [ledger'.bal["WHEZ"] >= ledger.bal["WHEZ"]]_vars
  <2> SUFFICES ASSUME WrapInv, [Next]_vars
               PROVE  ledger'.bal["WHEZ"] >= ledger.bal["WHEZ"]
    OBVIOUS
  <2>1. ledger \in Ledgers
    BY DEF WrapInv, TypeInv, TypeOK
  <2>2. ledger.bal["WHEZ"] \in Nat
    BY <2>1 DEF Ledgers, Coins
  <2>3. CASE IncludeBotTx
    <3> DEFINE plan == txs[Len(res) + 1]
    <3>1. Len(res) + 1 \in 1..Len(txs)
      BY <2>3 DEF IncludeBotTx, InFlight, WrapInv, TypeInv, TypeOK
    <3>2. PICK o \in Opportunities : plan = ComposePlan(o)
      BY <3>1 DEF WrapInv, AllComposed
    <3>3. ledger' = PlanLedger(ledger, ComposePlan(o))
      BY <2>3, <3>2 DEF IncludeBotTx
    <3> QED
      BY <2>1, <3>3, PlanKeepsWrapped
  <2>4. CASE ExternalSwap \/ AddLiquidity
    BY <2>2, <2>4 DEF ExternalSwap, AddLiquidity
  <2>5. CASE UNCHANGED ledger
    BY <2>2, <2>5
  <2> QED
    BY <2>3, <2>4, <2>5 DEF Next, BotNext, ChainNext, Connect, QueryPool,
       ReadWhez, ReadPez, QueryFails, Evaluate, Broadcast, SubmitFails,
       AwaitReceipt, AwaitFails, Sleep, Interrupt, Done, CreatePool, vars,
       chainVars
<1> QED
  BY <1>1, WrapInvInit, WrapInvStep, PTL DEF Spec, WrappedNeverDecreases
=============================================================================
