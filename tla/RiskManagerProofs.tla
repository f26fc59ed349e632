------------------------- MODULE RiskManagerProofs -------------------------
(***************************************************************************)
(* Safety of the circuit breaker of modules/risk_manager.py for all        *)
(* limits, cooldowns, latencies and numbers of open trades.                *)
(***************************************************************************)
EXTENDS RiskManager, TLAPS

(* The three invariants together are inductive: the overshoot of the       *)
(* counters is bounded because a trade begins only below the limits.       *)
IInv == TypeOK /\ NotOpenWithinLimits /\ OvershootBounded

(* A fresh breaker satisfies the invariant.                                *)
LEMMA InitIInv == Init => IInv
  BY RiskAssumption DEF Init, IInv, TypeOK, NotOpenWithinLimits, OvershootBounded

(* Asking the breaker leaves OPEN only for HALF_OPEN, within the limits.   *)
LEMMA CheckedCases ==
  ASSUME TypeOK
  PROVE  \/ /\ breaker = "OPEN"
            /\ age = Cooldown
            /\ WithinLimits
            /\ Checked = "HALF_OPEN"
         \/ Checked = breaker
  BY DEF TypeOK, Checked, MayReset

(* Every call and every tick preserves the invariant.                      *)
LEMMA StepIInv == IInv /\ [Next]_vars => IInv'
<1> SUFFICES ASSUME IInv, [Next]_vars PROVE IInv'
  OBVIOUS
<1> USE RiskAssumption DEF IInv, TypeOK, NotOpenWithinLimits, OvershootBounded
<1>1. CASE Check
  BY <1>1, CheckedCases DEF Check, metrics, trades, WithinLimits
<1>2. CASE BeginTrade
  <2>1. (breaker' = "OPEN") => DryRun
    BY <1>2 DEF BeginTrade, Allows
  <2>2. breaker' # "OPEN" =>
          consecutive_losses < MaxLosses /\ failed_transactions < MaxFailed
    BY <1>2, CheckedCases DEF BeginTrade, WithinLimits
  <2>3. TypeOK'
    BY <1>2, CheckedCases DEF BeginTrade, metrics
  <2>4. QED
    BY <1>2, <2>1, <2>2, <2>3 DEF BeginTrade, metrics
<1>3. CASE RecordFeedLatency
  BY <1>3 DEF RecordFeedLatency, TripIf, trades
<1>4. CASE TransactionSucceeds
  BY <1>4 DEF TransactionSucceeds, metrics
<1>5. CASE TransactionFails
  BY <1>5 DEF TransactionFails, TripIf
<1>6. CASE RecordWin
  BY <1>6 DEF RecordWin, TripIf
<1>7. CASE RecordLoss
  BY <1>7 DEF RecordLoss, TripIf
<1>8. CASE ResetMetrics
  BY <1>8 DEF ResetMetrics, trades
<1>9. CASE Tick
  BY <1>9 DEF Tick, metrics, trades
<1>10. CASE UNCHANGED vars
  BY <1>10 DEF vars, metrics, trades
<1>11. QED
  BY <1>1, <1>2, <1>3, <1>4, <1>5, <1>6, <1>7, <1>8, <1>9, <1>10 DEF Next

(* The invariant holds of every behaviour.                                 *)
LEMMA Invariance == Spec => []IInv
  BY InitIInv, StepIInv, PTL DEF Spec

(* The counters and the state of the breaker keep their ranges.            *)
THEOREM TypeCorrect == Spec => []TypeOK
  BY Invariance, PTL DEF IInv

(* A breaker that lets trades through is below both limits.                *)
THEOREM NotOpenWithinLimitsHolds == Spec => []NotOpenWithinLimits
  BY Invariance, PTL DEF IInv

(* Losses and failures overshoot their limits by the open trades at most.  *)
THEOREM OvershootBoundedHolds == Spec => []OvershootBounded
  BY Invariance, PTL DEF IInv

-----------------------------------------------------------------------------
(* A fresh RiskManager is a fresh breaker.                                 *)
LEMMA BreakerInitMaps == Init => Promise!BreakerInit
  BY DEF Init, Promise!BreakerInit

(* Every step of the RiskManager is a step of the promise, or none.        *)
LEMMA BreakerStepMaps ==
  IInv /\ [Next]_vars => [Promise!BreakerNext]_(Promise!breakerVars)
<1> SUFFICES ASSUME IInv, [Next]_vars
             PROVE  Promise!BreakerNext \/ UNCHANGED <<breaker, age>>
  BY DEF Promise!breakerVars
<1> USE DEF Promise!BreakerNext
<1>1. CASE Check
  BY <1>1, CheckedCases DEF Check, IInv, Promise!Recover
<1>2. CASE BeginTrade
  BY <1>2, CheckedCases DEF BeginTrade, IInv, Promise!Recover
<1>3. CASE RecordFeedLatency
  BY <1>3 DEF RecordFeedLatency, TripIf, Promise!TripOpen
<1>4. CASE TransactionFails \/ RecordWin \/ RecordLoss
  BY <1>4 DEF TransactionFails, RecordWin, RecordLoss, TripIf, Promise!TripOpen
<1>5. CASE ResetMetrics
  BY <1>5 DEF ResetMetrics, Promise!Reset
<1>6. CASE Tick
  BY <1>6 DEF Tick, Promise!GrowOld
<1>7. CASE TransactionSucceeds \/ UNCHANGED vars
  BY <1>7 DEF TransactionSucceeds, vars
<1>8. QED
  BY <1>1, <1>2, <1>3, <1>4, <1>5, <1>6, <1>7 DEF Next

(* The RiskManager keeps the promise of a breaker.                         *)
THEOREM BreakerImplementedHolds == Spec => BreakerImplemented
  BY BreakerInitMaps, BreakerStepMaps, Invariance, PTL
  DEF Spec, BreakerImplemented, Promise!BreakerSpec
=============================================================================
