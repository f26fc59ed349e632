------------------------------ MODULE ArbMath ------------------------------
(***************************************************************************)
(* The arithmetic of modules/arbitrage_engine.py and of the dry-run        *)
(* executor in modules/web3_executor.py.  Amounts are integers in units of *)
(* 1/10000: of a dollar for capital, stake and gas, of a BNB for a bet.    *)
(* Prices are whole dollars and ratios are basis points.  Decimal rounding *)
(* is truncation here, except that the spread test is exact: it multiplies *)
(* out the division.                                                       *)
(***************************************************************************)
EXTENDS Integers

SlippageBp  == 10
FeeBp       == 25
ThresholdBp == 12

SwapCostBp == SlippageBp + FeeBp

Distance(a, b) == IF a > b THEN a - b ELSE b - a

(* spread_pct - total_cost_pct > PROFIT_THRESHOLD_PCT, in basis points and *)
(* multiplied by the Binance price; a missing price is never viable.       *)
Viable(binance, pancake) ==
  /\ binance > 0
  /\ pancake > 0
  /\ Distance(binance, pancake) * 10000 > (ThresholdBp + SwapCostBp) * binance

(* A gross profit per trade above the costs, as the gas test of _try_fire  *)
(* sees it.                                                                *)
NetProfitBp(binance, pancake) ==
  ((Distance(binance, pancake) * 10000) \div binance) - SwapCostBp

Larger(a, b) == IF a >= b THEN a ELSE b

MinStake == 100                                   \* Decimal("0.01") dollars
MinBet   == 1                                     \* Decimal("0.0001") BNB

(* The engine and the executor each compute the stake: 2% of the capital.  *)
StakeOf(capital) == Larger((capital * 2) \div 100, MinStake)

FallbackPrice == 720

(* The dry-run executor's bet in BNB; a price of 0 falls back to 720.      *)
BetOf(stake, binance) ==
  LET price == IF binance <= 0 THEN FallbackPrice ELSE binance
  IN  Larger(stake \div price, MinBet)

(* 0.000225 BNB of gas at the Binance price, against stake * net profit,   *)
(* both multiplied by the same power of ten.                               *)
CoversGas(stake, binance, pancake) ==
  stake * NetProfitBp(binance, pancake) > 22500 * binance
=============================================================================
