-------------------------- MODULE PoolSetup_proofs --------------------------
(***************************************************************************)
(* Type correctness of the two setup scripts and the chain they share.     *)
(* TypeOK is inductive as it stands once wait_for_node's counter is known  *)
(* to stay below max_retries while the script still waits.                 *)
(***************************************************************************)
EXTENDS PoolSetup, TLAPS

WaitBound == ipPc = "wait" => retry < MaxRetries

\* init_pools counts a pool only at step 2 and liquidity only at step 3.
StepCounts ==
  /\ ipPc \in {"wait", "connect", "wrap", "create"} => poolsCreated = 0
  /\ ipPc # "exited" => liquidityAdded = 0

SetupInv == TypeOK /\ WaitBound /\ StepCounts

LEMMA SetupInvInit == Init => SetupInv
BY SetupAssumption DEF Init, SetupInv, TypeOK, WaitBound, StepCounts, Ledgers, PoolAssets

LEMMA SetupInvStep == SetupInv /\ [Next]_vars => SetupInv'
<1> SUFFICES ASSUME SetupInv, [Next]_vars PROVE SetupInv'
  OBVIOUS
<1> USE SetupAssumption DEF SetupInv, TypeOK, WaitBound, StepCounts, chainVars, ipVars,
                            cpVars
<1>1. CASE NodeStarts
  BY <1>1 DEF NodeStarts
<1>2. CASE IpProbeReady \/ IpConnect \/ IpInterrupt
  BY <1>2 DEF IpProbeReady, IpConnect, IpInterrupt
<1>3. CASE IpProbeFails
  BY <1>3 DEF IpProbeFails
<1>4. CASE IpWrap
  <2> DEFINE c == [op |-> "wrap", amount |-> WrapAmount]
  <2>1. WrapOk(ledger, c) => DoWrap(ledger, c) \in Ledgers
    BY DEF WrapOk, DoWrap, Ledgers, Coins
  <2>2. QED
    BY <1>4, <2>1 DEF IpWrap
<1>5. CASE IpCreate
  BY <1>5 DEF IpCreate, CreatePoolResults, CreatedPool
<1>6. CASE IpAdd
  <2>1. AddLiquidityOk => LedgerAfterAdd \in Ledgers
    BY DEF AddLiquidityOk, LedgerAfterAdd, Ledgers, PoolAssets, Coins
  <2>2. QED
    BY <1>6, <2>1 DEF IpAdd
<1>7. CASE CpConnect \/ CpCheck \/ CpCreate
  BY <1>7 DEF CpConnect, CpCheck, CpCreate, CreatePoolResults, CreatedPool
<1>8. CASE Done \/ UNCHANGED vars
  BY <1>8 DEF Done, vars
<1>9. QED
  BY <1>1, <1>2, <1>3, <1>4, <1>5, <1>6, <1>7, <1>8 DEF Next, IpStep, CpStep

\* Every reachable state of the two setup scripts is well typed: in
\* particular wait_for_node never counts past max_retries and init_pools
\* counts at most one created pool and one funded pool.
THEOREM SetupTypeCorrect == Spec => []TypeOK
<1>1. SetupInv => TypeOK
  BY DEF SetupInv
<1>2. QED
  BY <1>1, SetupInvInit, SetupInvStep, PTL DEF Spec
=============================================================================
