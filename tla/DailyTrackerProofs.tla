------------------------- MODULE DailyTrackerProofs -------------------------
(***************************************************************************)
(* Safety of the daily tracker for any number of goroutines that record    *)
(* trades, provided that the daily reset runs alone.                       *)
(***************************************************************************)
EXTENDS DailyTracker, TLAPS

(* No trade is recorded between the two stores of a reset that runs alone, *)
(* so the profit is still zero when the peak is cleared.                   *)
ResetSeesZero ==
  ResetAlone => \A g \in Goroutines : At(g, "reset_peak") => dailyPnl = 0

IInv == TypeOK /\ StakeAboveBase /\ ResetSeesZero

(* A new tracker satisfies the invariants.                                 *)
LEMMA InitInv == Init => IInv /\ PeakCoversPnl
  BY DailyTrackerAssumption
  DEF Init, Idle, IInv, TypeOK, StakeAboveBase, ResetSeesZero, At, PeakCoversPnl

(* Compounding never shrinks a stake.                                      *)
LEMMA CompoundedGrows ==
  ASSUME NEW stake \in Nat
  PROVE  Compounded(stake) \in Nat /\ Compounded(stake) >= stake
  BY DEF Compounded

(* A loss lowers the profit, and never below zero.                         *)
LEMMA AfterLossRange ==
  ASSUME NEW pnl \in Nat, NEW amount \in Nat
  PROVE  AfterLoss(pnl, amount) \in 0 .. pnl
  BY DEF AfterLoss

(* Every access of every goroutine preserves the first invariant.          *)
LEMMA StepIInv == IInv /\ [Next]_vars => IInv'
<1> SUFFICES ASSUME IInv, [Next]_vars PROVE IInv'
  OBVIOUS
<1> USE DailyTrackerAssumption DEF IInv, TypeOK, StakeAboveBase, ResetSeesZero, At
<1>1. CASE SafetyEnds
  BY <1>1 DEF SafetyEnds
<1>2. CASE UNCHANGED vars
  BY <1>2 DEF vars, tracker
<1>3. ASSUME NEW g \in Goroutines, Step(g) PROVE IInv'
  <2>1. CASE ~TradesWait /\ RecordWin(g)
    <3>1. PICK amount \in Amounts :
            /\ dailyPnl + amount <= PnlBound
            /\ dailyPnl' = dailyPnl + amount
            /\ GotoWith(g, "peak", dailyPnl')
      BY <2>1 DEF RecordWin
    <3>2. dailyPnl' \in 0 .. PnlBound
      BY <3>1
    <3>3. TypeOK'
      BY <2>1, <3>1, <3>2 DEF RecordWin, GotoWith
    <3>4. ResetSeesZero'
      BY <2>1, <3>1 DEF TradesWait, Resetting, GotoWith
    <3>5. QED
      BY <2>1, <3>3, <3>4 DEF RecordWin
  <2>2. CASE ~TradesWait /\ RecordLoss(g)
    <3>1. PICK amount \in Amounts : dailyPnl' = AfterLoss(dailyPnl, amount)
      BY <2>2 DEF RecordLoss
    <3>2. dailyPnl' \in 0 .. PnlBound
      BY <3>1, AfterLossRange
    <3>3. TypeOK'
      BY <2>2, <3>2 DEF RecordLoss, Goto
    <3>4. ResetSeesZero'
      BY <2>2 DEF RecordLoss, Goto, TradesWait, Resetting
    <3>5. QED
      BY <2>2, <3>3, <3>4 DEF RecordLoss
  <2>3. CASE RaisePeak(g)
    BY <2>3 DEF RaisePeak, PeakAfter, Goto
  <2>4. CASE Compound(g)
    BY <2>4, CompoundedGrows DEF Compound, Return, Idle
  <2>5. CASE LoadPnl(g)
    BY <2>5 DEF LoadPnl, GotoWith, tracker
  <2>6. CASE LoadPeak(g)
    BY <2>6 DEF LoadPeak, Goto, tracker
  <2>7. CASE EnterSafety(g)
    BY <2>7 DEF EnterSafety, Goto
  <2>8. CASE ToBaseStake(g)
    BY <2>8 DEF ToBaseStake, Return, Idle
  <2>9. CASE ResetDaily(g)
    BY <2>9 DEF ResetDaily, Goto
  <2>10. CASE ResetPeak(g)
    BY <2>10 DEF ResetPeak, Goto
  <2>11. CASE ResetSafety(g)
    BY <2>11 DEF ResetSafety, Goto
  <2>12. QED
    BY <1>3, <2>1, <2>2, <2>3, <2>4, <2>5, <2>6, <2>7, <2>8, <2>9, <2>10, <2>11 DEF Step
<1>4. QED
  BY <1>1, <1>2, <1>3 DEF Next

(* The profit exceeds the peak only while a winner carries it there.       *)
LEMMA StepPeak ==
  ASSUME ResetAlone
  PROVE  IInv /\ PeakCoversPnl /\ [Next]_vars => PeakCoversPnl'
<1> SUFFICES ASSUME IInv, PeakCoversPnl, [Next]_vars PROVE PeakCoversPnl'
  OBVIOUS
<1> USE DailyTrackerAssumption DEF IInv, TypeOK, PeakCoversPnl, At
<1>1. CASE SafetyEnds
  BY <1>1 DEF SafetyEnds
<1>2. CASE UNCHANGED vars
  BY <1>2 DEF vars, tracker
<1>3. ASSUME NEW g \in Goroutines, Step(g) PROVE PeakCoversPnl'
  <2>1. CASE RecordWin(g)
    BY <2>1 DEF RecordWin, GotoWith
  <2>2. CASE RecordLoss(g)
    <3>1. PICK amount \in Amounts : dailyPnl' = AfterLoss(dailyPnl, amount)
      BY <2>2 DEF RecordLoss
    <3>2. dailyPnl' \in 0 .. dailyPnl
      BY <3>1, AfterLossRange
    <3>3. QED
      BY <2>2, <3>2 DEF RecordLoss, Goto
  <2>3. CASE RaisePeak(g)
    BY <2>3 DEF RaisePeak, PeakAfter, Goto
  <2>4. CASE Compound(g)
    BY <2>4 DEF Compound, Return
  <2>5. CASE LoadPnl(g)
    BY <2>5 DEF LoadPnl, GotoWith, tracker
  <2>6. CASE LoadPeak(g)
    BY <2>6 DEF LoadPeak, Goto, tracker
  <2>7. CASE EnterSafety(g)
    BY <2>7 DEF EnterSafety, Goto
  <2>8. CASE ToBaseStake(g)
    BY <2>8 DEF ToBaseStake, Return
  <2>9. CASE ResetDaily(g)
    BY <2>9 DEF ResetDaily
  <2>10. CASE ResetPeak(g)
    BY <2>10 DEF ResetPeak, ResetSeesZero
  <2>11. CASE ResetSafety(g)
    BY <2>11 DEF ResetSafety, Goto
  <2>12. QED
    BY <1>3, <2>1, <2>2, <2>3, <2>4, <2>5, <2>6, <2>7, <2>8, <2>9, <2>10, <2>11 DEF Step
<1>4. QED
  BY <1>1, <1>2, <1>3 DEF Next

(* The invariant holds of every behaviour.                                 *)
LEMMA Invariance == Spec => []IInv
  BY InitInv, StepIInv, PTL DEF Spec

(* The tracker's fields keep their ranges.                                 *)
THEOREM TypeCorrect == Spec => []TypeOK
  BY Invariance, PTL DEF IInv

(* The stake never falls below its base.                                   *)
THEOREM StakeAboveBaseHolds == Spec => []StakeAboveBase
  BY Invariance, PTL DEF IInv

(* If the daily reset runs alone, the peak covers the profit, whatever the *)
(* interleaving of wins and losses.                                        *)
THEOREM PeakCoversPnlHolds ==
  ASSUME ResetAlone PROVE Spec => []PeakCoversPnl
  BY InitInv, StepPeak, Invariance, PTL DEF Spec
=============================================================================
