--------------------------- MODULE BotLoop_proofs ---------------------------
(***************************************************************************)
(* The Execution Loop never shows more trades than iterations.  The bound  *)
(* alone is not inductive: Submitted may add a trade, which is safe only   *)
(* because the cycle that is executing has already been counted and has   *)
(* not traded yet.  InCycle states that.                                   *)
(***************************************************************************)
EXTENDS BotLoop, TLAPS

InCycle ==
  phase \in {"Polling", "Evaluating", "Executing"}
    => tradesExecuted < iterationCount

LoopInv == TypeOK /\ TradesWithinIterations /\ InCycle

LEMMA LoopInvInit == Init => LoopInv
BY DEF Init, LoopInv, TypeOK, Phases, TradesWithinIterations, InCycle

LEMMA LoopInvStep == LoopInv /\ [Next]_vars => LoopInv'
<1> SUFFICES ASSUME LoopInv, [Next]_vars PROVE LoopInv'
  OBVIOUS
<1> USE DEF LoopInv, TypeOK, Phases, TradesWithinIterations, InCycle
<1>1. CASE StartCycle \/ SkipCycle
  BY <1>1 DEF StartCycle, SkipCycle
<1>2. CASE Absent \/ Evaluate \/ Decide
  BY <1>2 DEF Absent, Evaluate, Decide
<1>3. CASE Submitted
  BY <1>3 DEF Submitted
<1>4. CASE Interrupted \/ ConnectFails
  BY <1>4 DEF Interrupted, ConnectFails
<1>5. CASE UNCHANGED vars
  BY <1>5 DEF vars
<1>6. QED
  BY <1>1, <1>2, <1>3, <1>4, <1>5 DEF Next

\* The session summary of spec.md 4.4 never reports more trades
\* (totalTradesExecuted) than iterations (iterationCount).
THEOREM TradesBound == Spec => []TradesWithinIterations
<1>1. LoopInv => TradesWithinIterations
  BY DEF LoopInv
<1>2. QED
  BY <1>1, LoopInvInit, LoopInvStep, PTL DEF Spec
=============================================================================
