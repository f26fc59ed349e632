----------------------------- MODULE GoBreaker -----------------------------
(***************************************************************************)
(* go/internal/risk/circuit_breaker.go, one action per atomic load, store  *)
(* or add.  The struct has no lock: between two accesses of one goroutine  *)
(* any other may access the same fields.  lastFeedLatencyMs is only        *)
(* written, and left out.                                                  *)
(***************************************************************************)
EXTENDS Naturals

CONSTANTS
  Goroutines,   (* the callers                                             *)
  MaxLosses,    (* maxConsecLosses                                         *)
  MaxFailed,    (* maxFailedTxs                                            *)
  Cooldown,     (* cooldownNs, in ticks                                    *)
  CountBound    (* bounds the counters for TLC                             *)

ASSUME GoBreakerAssumption ==
  /\ MaxLosses \in Nat \ {0}
  /\ MaxFailed \in Nat \ {0}
  /\ Cooldown \in Nat \ {0}
  /\ CountBound \in Nat

VARIABLES
  state,              (* "CLOSED", "OPEN" or "HALF_OPEN"                   *)
  age,                (* ticks since triggeredAtNs, 0 at first meaning 1970 *)
  consecutiveLosses,
  failedTxs,
  pc                  (* what each goroutine does next                     *)

counters == <<consecutiveLosses, failedTxs>>
vars == <<state, age, counters, pc>>

Init ==
  /\ state = "CLOSED"
  /\ age = Cooldown
  /\ consecutiveLosses = 0
  /\ failedTxs = 0
  /\ pc = [g \in Goroutines |-> "idle"]

At(g, place) == pc[g] = place
Goto(g, place) == pc' = [pc EXCEPT ![g] = place]
GotoIf(g, condition, place) == Goto(g, IF condition THEN place ELSE "idle")

-----------------------------------------------------------------------------
(* Trip: the state first, the time afterwards.                             *)

TripState(g) ==
  /\ At(g, "trip_state")
  /\ state' = "OPEN"
  /\ Goto(g, "trip_time")
  /\ UNCHANGED <<age, counters>>

TripTime(g) ==
  /\ At(g, "trip_time")
  /\ age' = 0
  /\ Goto(g, "idle")
  /\ UNCHANGED <<state, counters>>

RecordLoss(g) ==
  /\ At(g, "idle")
  /\ consecutiveLosses < CountBound
  /\ consecutiveLosses' = consecutiveLosses + 1
  /\ GotoIf(g, consecutiveLosses' >= MaxLosses, "trip_state")
  /\ UNCHANGED <<state, age, failedTxs>>

RecordFailedTx(g) ==
  /\ At(g, "idle")
  /\ failedTxs < CountBound
  /\ failedTxs' = failedTxs + 1
  /\ GotoIf(g, failedTxs' >= MaxFailed, "trip_state")
  /\ UNCHANGED <<state, age, consecutiveLosses>>

(* RecordFeedLatency with a latency over the limit.                        *)
RecordSlowFeed(g) ==
  /\ At(g, "idle")
  /\ state = "CLOSED"
  /\ Goto(g, "trip_state")
  /\ UNCHANGED <<state, age, counters>>

RecordWin(g) ==
  /\ At(g, "idle")
  /\ consecutiveLosses' = 0
  /\ Goto(g, "win_load")
  /\ UNCHANGED <<state, age, failedTxs>>

(* Mutant: a win closes an open breaker too.                               *)
WinClosesOpen(g) ==
  /\ At(g, "win_load")
  /\ GotoIf(g, state # "CLOSED", "win_store")
  /\ UNCHANGED <<state, age, counters>>

WinLoad(g) ==
  /\ At(g, "win_load")
  /\ GotoIf(g, state = "HALF_OPEN", "win_store")
  /\ UNCHANGED <<state, age, counters>>

WinStore(g) ==
  /\ At(g, "win_store")
  /\ state' = "CLOSED"
  /\ Goto(g, "idle")
  /\ UNCHANGED <<age, counters>>

-----------------------------------------------------------------------------
(* TryReset: state, time, losses, failures, and the store at the end.      *)

TryReset(g) ==
  /\ At(g, "idle")
  /\ state = "OPEN"
  /\ Goto(g, "reset_age")
  /\ UNCHANGED <<state, age, counters>>

ResetAge(g) ==
  /\ At(g, "reset_age")
  /\ GotoIf(g, age = Cooldown, "reset_losses")
  /\ UNCHANGED <<state, age, counters>>

ResetLosses(g) ==
  /\ At(g, "reset_losses")
  /\ GotoIf(g, consecutiveLosses < MaxLosses, "reset_failed")
  /\ UNCHANGED <<state, age, counters>>

(* Mutant: the comparison with maxFailedTxs is off by one.                 *)
ResetFailedOffByOne(g) ==
  /\ At(g, "reset_failed")
  /\ GotoIf(g, failedTxs <= MaxFailed, "reset_store")
  /\ UNCHANGED <<state, age, counters>>

ResetFailed(g) ==
  /\ At(g, "reset_failed")
  /\ GotoIf(g, failedTxs < MaxFailed, "reset_store")
  /\ UNCHANGED <<state, age, counters>>

ResetStore(g) ==
  /\ At(g, "reset_store")
  /\ state' = "HALF_OPEN"
  /\ Goto(g, "idle")
  /\ UNCHANGED <<age, counters>>

Tick ==
  /\ age < Cooldown
  /\ age' = age + 1
  /\ UNCHANGED <<state, counters, pc>>

Step(g) ==
  \/ TripState(g) \/ TripTime(g)
  \/ RecordLoss(g) \/ RecordFailedTx(g) \/ RecordSlowFeed(g)
  \/ RecordWin(g) \/ WinLoad(g) \/ WinStore(g)
  \/ TryReset(g) \/ ResetAge(g) \/ ResetLosses(g) \/ ResetFailed(g) \/ ResetStore(g)

Next == Tick \/ \E g \in Goroutines : Step(g)

Spec == Init /\ [][Next]_vars

-----------------------------------------------------------------------------
AllIdle == \A g \in Goroutines : pc[g] = "idle"

(* The age of the last trip, which starts with the store of the state.     *)
tripAge == IF \E g \in Goroutines : pc[g] = "trip_time" THEN 0 ELSE age

(* Between calls, a breaker at a limit of losses or failures is open.      *)
NotOpenWithinLimits ==
  AllIdle /\ state # "OPEN" =>
    consecutiveLosses < MaxLosses /\ failedTxs < MaxFailed

(* Called from a single goroutine, the breaker keeps the promises of       *)
(* Breaker.                                                                *)
Promise == INSTANCE Breaker WITH Resettable <- FALSE, age <- tripAge

BreakerImplemented == Promise!BreakerSpec

(* "TryReset checks cooldown and conditions, transitioning to HALF_OPEN if *)
(* safe": it does so only after a cooldown and within the limits.          *)
RecoverySafe ==
  [][state = "OPEN" /\ state' = "HALF_OPEN" =>
       /\ tripAge = Cooldown
       /\ consecutiveLosses < MaxLosses
       /\ failedTxs < MaxFailed]_vars
=============================================================================
