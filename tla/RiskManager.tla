---------------------------- MODULE RiskManager ----------------------------
(***************************************************************************)
(* modules/risk_manager.py: the circuit breaker of RiskManager.  No method *)
(* awaits anything, so each call is one action.  Nothing in the repository *)
(* calls it: the traders here follow its docstring, they ask               *)
(* check_circuit_breaker before a trade, report the transaction, and       *)
(* report the result of a trade whose transaction succeeded.  Statistics   *)
(* that decide nothing (wins, profit, history, alerts) are left out.       *)
(***************************************************************************)
EXTENDS Integers

CONSTANTS
  DryRun,       (* dry_run: the breaker then blocks nothing                *)
  MaxLosses,    (* limits.max_consecutive_losses                           *)
  MaxFailed,    (* limits.max_failed_transactions                          *)
  MaxLatency,   (* limits.max_feed_latency_ms                              *)
  Cooldown,     (* limits.circuit_breaker_cooldown_sec, in ticks           *)
  Latencies,    (* latencies the feed may report                           *)
  MaxTrades     (* trades the callers keep open at once                    *)

ASSUME RiskAssumption ==
  /\ DryRun \in BOOLEAN
  /\ MaxLosses \in Nat \ {0}
  /\ MaxFailed \in Nat \ {0}
  /\ MaxLatency \in Nat \ {0}
  /\ Cooldown \in Nat \ {0}
  /\ Latencies \subseteq Nat
  /\ MaxTrades \in Nat \ {0}

VARIABLES
  breaker,              (* _circuit_breaker_state                          *)
  age,                  (* ticks since _circuit_breaker_triggered_at       *)
  consecutive_losses,
  failed_transactions,
  last_latency,         (* last_feed_latency_ms                            *)
  sent,                 (* trades whose transaction is not reported yet    *)
  held                  (* trades whose result is not reported yet         *)

metrics == <<consecutive_losses, failed_transactions, last_latency>>
trades  == <<sent, held>>
vars    == <<breaker, age, metrics, trades>>

Init ==
  /\ breaker = "CLOSED"
  /\ age = Cooldown
  /\ consecutive_losses = 0
  /\ failed_transactions = 0
  /\ last_latency = 0
  /\ sent = 0
  /\ held = 0

-----------------------------------------------------------------------------
(* _trigger_circuit_breaker if the condition holds.                        *)
TripIf(condition) ==
  IF condition
    THEN breaker' = "OPEN" /\ age' = 0
    ELSE UNCHANGED <<breaker, age>>

WithinLimits ==
  /\ consecutive_losses < MaxLosses
  /\ failed_transactions < MaxFailed
  /\ last_latency < MaxLatency

(* Mutant: the failed transactions are not looked at.                      *)
MayResetDespiteFailures ==
  /\ breaker = "OPEN"
  /\ age = Cooldown
  /\ consecutive_losses < MaxLosses
  /\ last_latency < MaxLatency

(* Mutant: no cooldown is waited for.                                      *)
MayResetAtOnce == breaker = "OPEN" /\ WithinLimits

(* Mutant: the cooldown is waited for, but for one tick too many.          *)
MayResetNever == breaker = "OPEN" /\ age > Cooldown /\ WithinLimits

(* _try_reset_circuit_breaker goes to HALF_OPEN.                           *)
MayReset == breaker = "OPEN" /\ age = Cooldown /\ WithinLimits

(* check_circuit_breaker's effect, and what it answers.                    *)
Checked == IF MayReset THEN "HALF_OPEN" ELSE breaker

(* Mutant: a half-open breaker lets nothing through, an open one does.     *)
AllowsUnlessHalfOpen(b) == DryRun \/ b # "HALF_OPEN"

Allows(b) == DryRun \/ b # "OPEN"

Check ==
  /\ breaker' = Checked
  /\ UNCHANGED <<age, metrics, trades>>

(* A caller that was allowed to trade does.                                *)
BeginTrade ==
  /\ sent + held < MaxTrades
  /\ breaker' = Checked
  /\ Allows(Checked)
  /\ sent' = sent + 1
  /\ UNCHANGED <<age, metrics, held>>

(* A latency over the limit trips a closed breaker only.                   *)
RecordFeedLatency ==
  \E latency \in Latencies :
    /\ last_latency' = latency
    /\ TripIf(latency > MaxLatency /\ breaker = "CLOSED")
    /\ UNCHANGED <<consecutive_losses, failed_transactions, trades>>

TransactionSucceeds ==
  /\ sent > 0
  /\ sent' = sent - 1
  /\ held' = held + 1
  /\ UNCHANGED <<breaker, age, metrics>>

TransactionFails ==
  /\ sent > 0
  /\ sent' = sent - 1
  /\ failed_transactions' = failed_transactions + 1
  /\ TripIf(failed_transactions' >= MaxFailed)
  /\ UNCHANGED <<consecutive_losses, last_latency, held>>

(* Mutant: a win takes one loss back instead of ending the streak.         *)
RecordWinTakesOneBack ==
  /\ held > 0
  /\ held' = held - 1
  /\ consecutive_losses' = consecutive_losses - 1
  /\ TripIf(consecutive_losses' >= MaxLosses)
  /\ UNCHANGED <<failed_transactions, last_latency, sent>>

RecordWin ==
  /\ held > 0
  /\ held' = held - 1
  /\ consecutive_losses' = 0
  /\ TripIf(consecutive_losses' >= MaxLosses)
  /\ UNCHANGED <<failed_transactions, last_latency, sent>>

RecordLoss ==
  /\ held > 0
  /\ held' = held - 1
  /\ consecutive_losses' = consecutive_losses + 1
  /\ TripIf(consecutive_losses' >= MaxLosses)
  /\ UNCHANGED <<failed_transactions, last_latency, sent>>

ResetMetrics ==
  /\ breaker' = "CLOSED"
  /\ age' = Cooldown
  /\ consecutive_losses' = 0
  /\ failed_transactions' = 0
  /\ last_latency' = 0
  /\ UNCHANGED trades

Tick ==
  /\ age < Cooldown
  /\ age' = age + 1
  /\ UNCHANGED <<breaker, metrics, trades>>

Next ==
  \/ Check \/ BeginTrade
  \/ RecordFeedLatency
  \/ TransactionSucceeds \/ TransactionFails
  \/ RecordWin \/ RecordLoss
  \/ ResetMetrics
  \/ Tick

Spec == Init /\ [][Next]_vars

(* Time passes and callers keep asking; no operator has to reset.          *)
FairSpec == Spec /\ WF_vars(Tick) /\ WF_vars(Check)

-----------------------------------------------------------------------------
(* The counters are counts, and the callers keep to MaxTrades.             *)
TypeOK ==
  /\ breaker \in {"CLOSED", "OPEN", "HALF_OPEN"}
  /\ age \in 0 .. Cooldown
  /\ consecutive_losses \in Nat
  /\ failed_transactions \in Nat
  /\ last_latency \in Latencies \cup {0}
  /\ sent \in Nat
  /\ held \in Nat
  /\ sent + held <= MaxTrades

(* While the breaker lets trades through, no limit on losses or failures   *)
(* has been reached: every recovery path rechecks both.                    *)
NotOpenWithinLimits ==
  breaker # "OPEN" =>
    consecutive_losses < MaxLosses /\ failed_transactions < MaxFailed

(* Once a limit is reached only the trades already open can add to the     *)
(* count: losses and failures overshoot by what was in flight, no more.    *)
OvershootBounded ==
  ~DryRun =>
    /\ consecutive_losses + sent + held < MaxLosses + MaxTrades
    /\ failed_transactions + sent < MaxFailed + MaxTrades

(* The breaker keeps the promises of Breaker: a full cooldown in OPEN, and *)
(* HALF_OPEN only from there.                                              *)
Promise == INSTANCE Breaker WITH Resettable <- TRUE, state <- breaker

BreakerImplemented == Promise!BreakerSpec

(* A breaker that only a slow feed has opened is half-open again once the  *)
(* feed is fast, whatever else it met before.                              *)
RecoversFromLatency ==
  (breaker = "OPEN" /\ WithinLimits) ~> (breaker # "OPEN" \/ ~WithinLimits)

(* "HALF_OPEN: Probando con operación pequeña para recuperar": an open     *)
(* breaker over a fast feed gets to the trial trade.                       *)
OpenRecovers ==
  <>[](last_latency < MaxLatency) => (breaker = "OPEN" ~> breaker # "OPEN")
=============================================================================
