----------------------------- MODULE PoolSetup -----------------------------
(***************************************************************************)
(* The two one-shot setup scripts that bring the wHEZ/PEZ pool up, run     *)
(* against the same node, possibly at the same time:                       *)
(*   - scripts/init/init_pools.py: main() waits for the node, connects,    *)
(*     wraps HEZ, creates the pool and adds its first liquidity;           *)
(*   - scripts/create_pool_instance3.py: connects, checks Pools and       *)
(*     creates the pool when it is absent.                                 *)
(* Both sign as Alice.  Every submit_extrinsic(wait_for_inclusion=True) is *)
(* one step: the call either raises before anything is sent (no chain      *)
(* effect) or returns the receipt of the block that included it.  An       *)
(* exception after inclusion leaves the same chain state as the receipt    *)
(* path and is folded into it where the script's reaction is the same.     *)
(***************************************************************************)
EXTENDS Integers, Runtime

CONSTANTS
  MaxRetries,      \* wait_for_node(max_retries=30)
  WrapAmount,      \* wrap_amount = 150_000 * ONE_TOKEN
  Amount1,         \* INITIAL_LIQUIDITY['WHEZ_PEZ']['amount1'] (wHEZ)
  Amount2,         \* INITIAL_LIQUIDITY['WHEZ_PEZ']['amount2'] (PEZ)
  AliceBalances    \* possible HEZ / wHEZ / PEZ balances of Alice at start

ASSUME SetupAssumption ==
  /\ MaxRetries \in Nat \ {0}
  /\ WrapAmount \in Nat \ {0}
  /\ Amount1 \in Nat \ {0} /\ Amount2 \in Nat \ {0}
  /\ AliceBalances \subseteq [Coins -> Nat]

VARIABLES
  \* chain
  nodeUp,          \* the node answers RPC
  poolState,       \* "none", "created", "funded"
  ledger,          \* pool reserves and Alice's balances (Runtime!Ledgers)
  \* init_pools.py
  ipPc, retry, poolsCreated, liquidityAdded, ipExit,
  \* create_pool_instance3.py
  cpPc, cpExit

chainVars == <<nodeUp, poolState, ledger>>
ipVars == <<ipPc, retry, poolsCreated, liquidityAdded, ipExit>>
cpVars == <<cpPc, cpExit>>
vars == <<chainVars, ipVars, cpVars>>

TypeOK ==
  /\ nodeUp \in BOOLEAN
  /\ poolState \in {"none", "created", "funded"}
  /\ ledger \in Ledgers
  /\ ipPc \in {"wait", "connect", "wrap", "create", "add", "exited"}
  /\ retry \in 0..MaxRetries
  /\ poolsCreated \in {0, 1} /\ liquidityAdded \in {0, 1}
  /\ cpPc \in {"connect", "check", "create", "exited"}
  /\ ipExit \in {0, 1} /\ cpExit \in {0, 1}

Init ==
  /\ nodeUp \in BOOLEAN
  /\ poolState = "none"
  /\ \E b \in AliceBalances :
       ledger = [reserve |-> [a \in PoolAssets |-> 0], bal |-> b]
  /\ ipPc = "wait" /\ retry = 0 /\ poolsCreated = 0 /\ liquidityAdded = 0
  /\ cpPc = "connect"
  /\ ipExit = 0 /\ cpExit = 0

\* The node process finishes starting.
NodeStarts ==
  /\ ~nodeUp
  /\ nodeUp' = TRUE
  /\ UNCHANGED <<poolState, ledger, ipVars, cpVars>>

(***************************************************************************)
(* Chain effects of the setup calls.                                       *)
(***************************************************************************)
\* AssetConversion.create_pool dispatched in a block: it creates the pool,
\* or fails: with PoolExists once the pool exists, and on an absent pool
\* with any other dispatch error (an asset not created yet, the pool setup
\* fee).  The receipt's is_success is whether the pool state moved.
CreatedPool == IF poolState = "none" THEN "created" ELSE poolState
CreatePoolResults == {CreatedPool, poolState}

\* AssetConversion.add_liquidity of (Amount1, Amount2), minted to Alice:
\* needs the pool and Alice's two balances.  The pool only ever holds the
\* 1:5 liquidity of this script, so the amounts always meet the 95% mins.
AddLiquidityOk ==
  /\ poolState \in {"created", "funded"}
  /\ ledger.bal["WHEZ"] >= Amount1 /\ ledger.bal["PEZ"] >= Amount2
LedgerAfterAdd ==
  [reserve |-> [ledger.reserve EXCEPT !["WHEZ"] = @ + Amount1,
                                      !["PEZ"] = @ + Amount2],
   bal     |-> [ledger.bal EXCEPT !["WHEZ"] = @ - Amount1,
                                  !["PEZ"] = @ - Amount2]]

(***************************************************************************)
(* init_pools.py                                                           *)
(***************************************************************************)
\* wait_for_node: a system_health probe answers 200: "Node is ready!".
IpProbeReady ==
  /\ ipPc = "wait"
  /\ nodeUp
  /\ ipPc' = "connect"
  /\ UNCHANGED <<chainVars, retry, poolsCreated, liquidityAdded, ipExit, cpVars>>

\* Mutant: the probe loop gives up one attempt late.
MutantIpProbeFailsLate ==
  /\ ipPc = "wait"
  /\ retry' = retry + 1
  /\ IF retry' > MaxRetries THEN ipPc' = "exited" /\ ipExit' = 1
                            ELSE UNCHANGED <<ipPc, ipExit>>
  /\ UNCHANGED <<chainVars, poolsCreated, liquidityAdded, cpVars>>

\* Mutant: the probe loop forgets its retry counter.
MutantIpProbeFailsForever ==
  /\ ipPc = "wait"
  /\ UNCHANGED <<chainVars, ipVars, cpVars>>

\* The probe raises or answers non-200: sleep and retry; after max_retries
\* attempts wait_for_node returns False and main returns 1.
IpProbeFails ==
  /\ ipPc = "wait"
  /\ retry' = retry + 1
  /\ IF retry' = MaxRetries THEN ipPc' = "exited" /\ ipExit' = 1
                            ELSE UNCHANGED <<ipPc, ipExit>>
  /\ UNCHANGED <<chainVars, poolsCreated, liquidityAdded, cpVars>>

\* SubstrateInterface(url=...): connected, or "Connection failed", return 1.
IpConnect ==
  /\ ipPc = "connect"
  /\ \/ nodeUp /\ ipPc' = "wrap" /\ UNCHANGED ipExit
     \/ ipPc' = "exited" /\ ipExit' = 1
  /\ UNCHANGED <<chainVars, retry, poolsCreated, liquidityAdded, cpVars>>

\* Step 1, wrap_hez_to_whez(150K): the receipt is never checked, and a
\* False result only prints "continuing anyway".
IpWrap ==
  /\ ipPc = "wrap"
  /\ LET c == [op |-> "wrap", amount |-> WrapAmount]
     IN  ledger' \in {IF WrapOk(ledger, c) THEN DoWrap(ledger, c) ELSE ledger,
                      ledger}
  /\ ipPc' = "create"
  /\ UNCHANGED <<nodeUp, poolState, retry, poolsCreated, liquidityAdded,
                 ipExit, cpVars>>

\* Step 2, create_pool: an included extrinsic returns True whether or not
\* it succeeded; a SubstrateRequestException returns True when its message
\* says PoolExists (possible only once the pool exists); any other
\* exception returns False, whether or not the pool exists.
IpCreate ==
  /\ ipPc = "create"
  /\ \/ /\ poolState' \in CreatePoolResults
        /\ poolsCreated' = poolsCreated + 1
     \/ /\ UNCHANGED poolState
        /\ \/ poolState # "none" /\ poolsCreated' = poolsCreated + 1
           \/ UNCHANGED poolsCreated
  /\ ipPc' = "add"
  /\ UNCHANGED <<nodeUp, ledger, retry, liquidityAdded, ipExit, cpVars>>

\* Step 3, add_liquidity: an included extrinsic counts as "Liquidity
\* added" whether or not it succeeded; an exception returns False.  Then
\* main prints the summary and returns 0.
IpAdd ==
  /\ ipPc = "add"
  /\ \/ /\ IF AddLiquidityOk
             THEN ledger' = LedgerAfterAdd /\ poolState' = "funded"
             ELSE UNCHANGED <<ledger, poolState>>
        /\ liquidityAdded' = liquidityAdded + 1
     \/ UNCHANGED <<ledger, poolState, liquidityAdded>>
  /\ ipPc' = "exited" /\ ipExit' = 0
  /\ UNCHANGED <<nodeUp, retry, poolsCreated, cpVars>>

\* KeyboardInterrupt anywhere in main(): "Interrupted by user", exit(1).
IpInterrupt ==
  /\ ipPc # "exited"
  /\ ipPc' = "exited" /\ ipExit' = 1
  /\ UNCHANGED <<chainVars, retry, poolsCreated, liquidityAdded, cpVars>>

(***************************************************************************)
(* create_pool_instance3.py                                                *)
(***************************************************************************)
\* SubstrateInterface(url=...) at module level: an exception is uncaught
\* and the interpreter exits 1.
CpConnect ==
  /\ cpPc = "connect"
  /\ \/ nodeUp /\ cpPc' = "check" /\ UNCHANGED cpExit
     \/ cpPc' = "exited" /\ cpExit' = 1
  /\ UNCHANGED <<chainVars, ipVars>>

\* Query Pools: an existing pool ends the script with exit(0); an absent
\* one, or an exception of the query, goes on to create it.
CpCheck ==
  /\ cpPc = "check"
  /\ \/ poolState # "none" /\ cpPc' = "exited" /\ cpExit' = 0
     \/ cpPc' = "create" /\ UNCHANGED cpExit
  /\ UNCHANGED <<chainVars, ipVars>>

\* Submit create_pool.  Included: success creates the pool and the script
\* queries it again (a SubstrateRequestException there exits 1); a failed
\* dispatch prints the error and the events; both run on to "Pool creation
\* complete!", exit 0.  A SubstrateRequestException of the submit exits 1,
\* any other exception is uncaught and exits 1 too.
CpCreate ==
  /\ cpPc = "create"
  /\ \/ /\ poolState' \in CreatePoolResults
        /\ cpExit' \in IF poolState' # poolState THEN {0, 1} ELSE {0}
     \/ UNCHANGED poolState /\ cpExit' = 1
  /\ cpPc' = "exited"
  /\ UNCHANGED <<nodeUp, ledger, ipVars>>

\* Both processes have exited.
Done ==
  /\ ipPc = "exited" /\ cpPc = "exited"
  /\ UNCHANGED vars

IpStep == IpProbeReady \/ IpProbeFails \/ IpConnect \/ IpWrap \/ IpCreate \/ IpAdd
CpStep == CpConnect \/ CpCheck \/ CpCreate

Next == NodeStarts \/ IpStep \/ IpInterrupt \/ CpStep \/ Done

\* Each script runs its next statement once it can: every RPC call returns
\* or raises (no hung call).  The node, the user's Ctrl-C and the other
\* script are under no obligation.
Fairness == WF_vars(IpStep) /\ WF_vars(CpStep)

Spec == Init /\ [][Next]_vars /\ Fairness

(***************************************************************************)
(* Properties.                                                             *)
(***************************************************************************)
\* spec.md 6: create_pool_instance3 exits 0 only when the pool exists,
\* whichever way its check-then-create races with init_pools' create_pool
\* and whatever the receipt of its own create_pool says.
CreatorExitZeroImpliesPool ==
  cpPc = "exited" /\ cpExit = 0 => poolState # "none"

\* spec.md 6: a one-shot setup task exits 0 on normal completion and 1 on
\* an unrecoverable error.  init_pools returns 0 only when the pool it was
\* to create and fund is funded.
InitExitZeroImpliesFunded ==
  ipPc = "exited" /\ ipExit = 0 => poolState = "funded"

\* Both scripts terminate: wait_for_node gives up after max_retries, and
\* every other step runs once.
SetupTerminates == <>(ipPc = "exited") /\ <>(cpPc = "exited")
=============================================================================
