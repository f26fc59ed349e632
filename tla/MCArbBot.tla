------------------------------ MODULE MCArbBot ------------------------------
(* ArbBot with $1500 of capital: a bet is about 500 units of 1/10000 BNB,  *)
(* so a limit of 1200 units is reached with the third order.               *)
EXTENDS ArbBot

MCBinancePrices == {0, 600, 660}
MCDexPrices     == {600, 655}
MCKillLimit     == -1200
=============================================================================
