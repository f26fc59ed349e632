------------------------------ MODULE Breaker ------------------------------
(***************************************************************************)
(* What a circuit breaker promises its callers: once tripped it stays OPEN *)
(* for a full cooldown, leaves OPEN only for HALF_OPEN, and HALF_OPEN is   *)
(* reached in no other way.  RiskManager.tla (modules/risk_manager.py) and *)
(* GoBreaker.tla (go/internal/risk/circuit_breaker.go) are compared to it. *)
(***************************************************************************)
EXTENDS Naturals

CONSTANTS
  Cooldown,    (* ticks a tripped breaker stays OPEN at least               *)
  Resettable   (* an operator may put the breaker back to CLOSED            *)

VARIABLES
  state,       (* "CLOSED", "OPEN" or "HALF_OPEN"                           *)
  age          (* ticks since the last trip, counted up to Cooldown         *)

breakerVars == <<state, age>>

BreakerInit == state = "CLOSED" /\ age = Cooldown

TripOpen == state' = "OPEN" /\ age' = 0

Recover ==
  /\ state = "OPEN"
  /\ age = Cooldown
  /\ state' = "HALF_OPEN"
  /\ UNCHANGED age

CloseAgain ==
  /\ state = "HALF_OPEN"
  /\ state' = "CLOSED"
  /\ UNCHANGED age

GrowOld ==
  /\ age < Cooldown
  /\ age' = age + 1
  /\ UNCHANGED state

Reset ==
  /\ Resettable
  /\ state' = "CLOSED"
  /\ age' = Cooldown

BreakerNext == TripOpen \/ Recover \/ CloseAgain \/ GrowOld \/ Reset

BreakerSpec == BreakerInit /\ [][BreakerNext]_breakerVars
=============================================================================
