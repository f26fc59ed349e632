---------------------------- MODULE DailyTracker ----------------------------
(***************************************************************************)
(* DailyTracker of go/internal/models/hub.go: the daily profit, its peak,  *)
(* the compounding stake and the safety mode, one action per atomic access *)
(* (a compare-and-swap loop is the swap that succeeds).  The win and loss  *)
(* counts, which decide nothing, are left out.  Nothing in the repository  *)
(* records a trade; the goroutines here are the callers the atomics are    *)
(* for.                                                                    *)
(***************************************************************************)
EXTENDS Integers

CONSTANTS
  Goroutines,
  Amounts,      (* profits and losses of a trade                           *)
  BaseStake,    (* baseStakeFP                                             *)
  ResetAlone,   (* ResetDaily is called only while no trade is recorded    *)
  PnlBound      (* bounds the daily profit for TLC                         *)

ASSUME DailyTrackerAssumption ==
  /\ Amounts \subseteq Nat \ {0}
  /\ BaseStake \in Nat \ {0}
  /\ ResetAlone \in BOOLEAN
  /\ PnlBound \in Nat

VARIABLES
  dailyPnl,
  dailyPeak,
  currentStake,
  safety,        (* safetyModeUntilNs: 0, in the future, or past           *)
  call           (* each goroutine's place and local variable              *)

tracker == <<dailyPnl, dailyPeak, currentStake, safety>>
vars    == <<tracker, call>>

Idle == [at |-> "idle", seen |-> 0]

Init ==
  /\ dailyPnl = 0
  /\ dailyPeak = 0
  /\ currentStake = BaseStake
  /\ safety = "zero"
  /\ call = [g \in Goroutines |-> Idle]

At(g, place) == call[g].at = place

Goto(g, place) == call' = [call EXCEPT ![g].at = place]

(* The next step, with the value just read or written in a local variable. *)
GotoWith(g, place, value) ==
  call' = [call EXCEPT ![g].at = place, ![g].seen = value]

Return(g) == call' = [call EXCEPT ![g] = Idle]

-----------------------------------------------------------------------------
(* RecordWin: the profit, the peak, the stake.                             *)

RecordWin(g) ==
  /\ At(g, "idle")
  /\ \E amount \in Amounts :
       /\ dailyPnl + amount <= PnlBound
       /\ dailyPnl' = dailyPnl + amount
       /\ GotoWith(g, "peak", dailyPnl')
  /\ UNCHANGED <<dailyPeak, currentStake, safety>>

(* Mutant: the peak is stored without a comparison.                        *)
PeakStored(peak, new) == new

PeakAfter(peak, new) == IF new <= peak THEN peak ELSE new

RaisePeak(g) ==
  /\ At(g, "peak")
  /\ dailyPeak' = PeakAfter(dailyPeak, call[g].seen)
  /\ Goto(g, "compound")
  /\ UNCHANGED <<dailyPnl, currentStake, safety>>

Compounded(stake) == stake + stake \div 20

Compound(g) ==
  /\ At(g, "compound")
  /\ currentStake' = Compounded(currentStake)
  /\ Return(g)
  /\ UNCHANGED <<dailyPnl, dailyPeak, safety>>

-----------------------------------------------------------------------------
(* RecordLoss: the loss, the two loads of the drawdown test, the safety    *)
(* mode, the stake.                                                        *)

(* Mutant: the profit wraps under zero.                                    *)
UnflooredLoss(pnl, amount) == pnl - amount

AfterLoss(pnl, amount) == IF amount > pnl THEN 0 ELSE pnl - amount

RecordLoss(g) ==
  /\ At(g, "idle")
  /\ \E amount \in Amounts : dailyPnl' = AfterLoss(dailyPnl, amount)
  /\ Goto(g, "loss_pnl")
  /\ UNCHANGED <<dailyPeak, currentStake, safety>>

LoadPnl(g) ==
  /\ At(g, "loss_pnl")
  /\ GotoWith(g, "loss_peak", dailyPnl)
  /\ UNCHANGED tracker

Drawdown(pnl, peak) == peak > 0 /\ pnl < (peak * 80) \div 100

LoadPeak(g) ==
  /\ At(g, "loss_peak")
  /\ Goto(g, IF Drawdown(call[g].seen, dailyPeak) THEN "enter_safety"
                                                 ELSE "base_stake")
  /\ UNCHANGED tracker

EnterSafety(g) ==
  /\ At(g, "enter_safety")
  /\ safety' = "future"
  /\ Goto(g, "base_stake")
  /\ UNCHANGED <<dailyPnl, dailyPeak, currentStake>>

ToBaseStake(g) ==
  /\ At(g, "base_stake")
  /\ currentStake' = BaseStake
  /\ Return(g)
  /\ UNCHANGED <<dailyPnl, dailyPeak, safety>>

-----------------------------------------------------------------------------
(* ResetDaily, store by store; thirty minutes pass.                        *)

AllIdle == \A g \in Goroutines : At(g, "idle")

Resetting(g) == At(g, "reset_peak") \/ At(g, "reset_safety")

TradesWait == ResetAlone /\ \E g \in Goroutines : Resetting(g)

ResetDaily(g) ==
  /\ At(g, "idle")
  /\ ResetAlone => AllIdle
  /\ dailyPnl' = 0
  /\ Goto(g, "reset_peak")
  /\ UNCHANGED <<dailyPeak, currentStake, safety>>

ResetPeak(g) ==
  /\ At(g, "reset_peak")
  /\ dailyPeak' = 0
  /\ Goto(g, "reset_safety")
  /\ UNCHANGED <<dailyPnl, currentStake, safety>>

ResetSafety(g) ==
  /\ At(g, "reset_safety")
  /\ safety' = "zero"
  /\ Goto(g, "base_stake")
  /\ UNCHANGED <<dailyPnl, dailyPeak, currentStake>>

SafetyEnds ==
  /\ safety = "future"
  /\ safety' = "past"
  /\ UNCHANGED <<dailyPnl, dailyPeak, currentStake, call>>

Step(g) ==
  \/ ~TradesWait /\ (RecordWin(g) \/ RecordLoss(g))
  \/ RaisePeak(g) \/ Compound(g)
  \/ LoadPnl(g) \/ LoadPeak(g) \/ EnterSafety(g) \/ ToBaseStake(g)
  \/ ResetDaily(g) \/ ResetPeak(g) \/ ResetSafety(g)

Next == SafetyEnds \/ \E g \in Goroutines : Step(g)

Spec == Init /\ [][Next]_vars

-----------------------------------------------------------------------------
(* Ranges of the tracker's fields and of the calls in progress.            *)
TypeOK ==
  /\ dailyPnl \in 0 .. PnlBound
  /\ dailyPeak \in 0 .. PnlBound
  /\ currentStake \in Nat
  /\ safety \in {"zero", "future", "past"}
  /\ call \in [Goroutines -> [at : {"idle", "peak", "compound", "loss_pnl",
                                    "loss_peak", "enter_safety", "base_stake",
                                    "reset_peak", "reset_safety"},
                              seen : 0 .. PnlBound]]

(* dailyPeakFP is the "highest daily PnL reached": no interleaving of wins *)
(* and losses leaves the profit above the peak, save while a winner still  *)
(* carries it to the peak.                                                 *)
PeakCoversPnl ==
  \/ dailyPnl <= dailyPeak
  \/ \E g \in Goroutines : At(g, "peak") /\ dailyPnl <= call[g].seen

(* Wins that compound and losses that reset never take the stake under its *)
(* base.                                                                   *)
StakeAboveBase == currentStake >= BaseStake
=============================================================================
