---------------------------- MODULE MC_PoolSetup ----------------------------
(***************************************************************************)
(* A TLC instance of PoolSetup.  Alice either holds enough HEZ to wrap the *)
(* liquidity's wHEZ or does not; she always holds the PEZ.                 *)
(***************************************************************************)
EXTENDS PoolSetup

MCAliceBalances ==
  {[HEZ |-> 3, WHEZ |-> 0, PEZ |-> 5], [HEZ |-> 1, WHEZ |-> 0, PEZ |-> 5]}
=============================================================================
