--------------------------- MODULE MC_ArbitrageBot ---------------------------
(***************************************************************************)
(* A small instance of ArbitrageBot.  ONE_TOKEN = 10 atomic units, the     *)
(* reference price 5 PEZ per HEZ and a 2% band as in CONFIG; the pool      *)
(* holds 1000 atomic wHEZ (so 5% of it is 50 = the 5-token cap, the tie of *)
(* spec.md scenario 2) and starts on or off the band.                      *)
(***************************************************************************)
EXTENDS ArbitrageBot

MCInitReserves ==
  { [WHEZ |-> 1000, PEZ |-> 5200],      \* +4%: HEZ overpriced
    [WHEZ |-> 1000, PEZ |-> 4700] }     \* -6%: HEZ underpriced

MCBotBalance == [HEZ |-> 100, WHEZ |-> 20, PEZ |-> 500]

MCExternalSwaps ==
  { [from |-> "WHEZ", to |-> "PEZ", amount |-> 60],
    [from |-> "PEZ", to |-> "WHEZ", amount |-> 600] }
\* Another trader's small wHEZ sale that moves the 1000 / 5200 pool to
\* 1030 / 5049, just past the reference, before the bot's batch lands.
MCExternalSwapsSmall == {[from |-> "WHEZ", to |-> "PEZ", amount |-> 30]}
=============================================================================
