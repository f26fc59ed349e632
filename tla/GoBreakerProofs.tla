-------------------------- MODULE GoBreakerProofs --------------------------
(***************************************************************************)
(* What GoBreaker keeps when one goroutine calls it, for every limit and   *)
(* every cooldown.  With two goroutines both theorems are false.           *)
(***************************************************************************)
EXTENDS GoBreaker, TLAPS

Accesses == {"idle", "trip_state", "trip_time", "win_load", "win_store",
             "reset_age", "reset_losses", "reset_failed", "reset_store"}

Ranges ==
  /\ state \in {"CLOSED", "OPEN", "HALF_OPEN"}
  /\ age \in 0 .. Cooldown
  /\ consecutiveLosses \in Nat /\ failedTxs \in Nat
  /\ pc \in [Goroutines -> Accesses]

(* What a call has found out still holds: nobody else writes.              *)
PastChecks ==
  \A g \in Goroutines :
    /\ pc[g] \in {"trip_time", "reset_age", "reset_losses", "reset_failed",
                  "reset_store"} => state = "OPEN"
    /\ pc[g] = "win_store" => state = "HALF_OPEN"
    /\ pc[g] \in {"reset_losses", "reset_failed", "reset_store"} => age = Cooldown
    /\ pc[g] \in {"reset_failed", "reset_store"} => consecutiveLosses < MaxLosses
    /\ pc[g] = "reset_store" => failedTxs < MaxFailed

(* A breaker at a limit that is not open yet is about to be tripped.       *)
TripIsNext ==
  state = "OPEN" \/ (\E g \in Goroutines : pc[g] = "trip_state")
    \/ (consecutiveLosses < MaxLosses /\ failedTxs < MaxFailed)

IInv == Ranges /\ PastChecks /\ TripIsNext

(* A new breaker is closed, below its limits, and nobody calls it.         *)
LEMMA InitIInv == Init => IInv
<1> SUFFICES ASSUME Init PROVE IInv
  OBVIOUS
<1> QED
  BY GoBreakerAssumption DEF Init, IInv, Ranges, Accesses, PastChecks, TripIsNext

(* A single caller keeps the invariant with every access.                  *)
LEMMA StepIInv ==
  ASSUME NEW g, Goroutines = {g}, IInv, [Next]_vars
  PROVE  IInv'
<1> USE GoBreakerAssumption
    DEF IInv, Ranges, Accesses, PastChecks, TripIsNext, At, Goto, GotoIf, counters
<1>1. CASE UNCHANGED vars
  BY <1>1 DEF vars
<1>2. CASE Tick
  BY <1>2 DEF Tick
<1>3. CASE TripState(g)
  BY <1>3 DEF TripState
<1>4. CASE TripTime(g)
  BY <1>4 DEF TripTime
<1>5. CASE RecordLoss(g)
  BY <1>5 DEF RecordLoss
<1>6. CASE RecordFailedTx(g)
  BY <1>6 DEF RecordFailedTx
<1>7. CASE RecordSlowFeed(g)
  BY <1>7 DEF RecordSlowFeed
<1>8. CASE RecordWin(g)
  BY <1>8 DEF RecordWin
<1>9. CASE WinLoad(g) \/ WinStore(g)
  BY <1>9 DEF WinLoad, WinStore
<1>10. CASE TryReset(g) \/ ResetAge(g)
  BY <1>10 DEF TryReset, ResetAge
<1>11. CASE ResetLosses(g) \/ ResetFailed(g)
  BY <1>11 DEF ResetLosses, ResetFailed
<1>12. CASE ResetStore(g)
  BY <1>12 DEF ResetStore
<1> QED
  BY <1>1, <1>2, <1>3, <1>4, <1>5, <1>6, <1>7, <1>8, <1>9, <1>10, <1>11, <1>12
  DEF Next, Step

(* The invariant holds throughout, for a single caller.                    *)
THEOREM Invariance == ASSUME NEW g, Goroutines = {g} PROVE Spec => []IInv
<1>1. IInv /\ [Next]_vars => IInv'
  BY StepIInv
<1> QED
  BY InitIInv, <1>1, PTL DEF Spec

(* Between the calls of a single goroutine a breaker that lets trades      *)
(* through is below both limits.                                           *)
THEOREM NotOpenWithinLimitsHolds ==
  ASSUME NEW g, Goroutines = {g} PROVE Spec => []NotOpenWithinLimits
<1>1. IInv => NotOpenWithinLimits
  BY DEF IInv, TripIsNext, NotOpenWithinLimits, AllIdle
<1>2. Spec => []IInv
  BY Invariance
<1> QED
  BY <1>1, <1>2, PTL

-----------------------------------------------------------------------------
(* A step of the breaker is a step of the promise or none: the store of    *)
(* OPEN is the trip, the store of the time is invisible.                   *)
LEMMA StepPromised ==
  ASSUME NEW g, Goroutines = {g}, IInv, [Next]_vars
  PROVE  [Promise!BreakerNext]_(Promise!breakerVars)
<1> USE GoBreakerAssumption
    DEF IInv, Ranges, Accesses, PastChecks, tripAge, At, Goto, GotoIf, counters,
        Promise!BreakerNext, Promise!breakerVars
<1>1. CASE UNCHANGED vars
  BY <1>1 DEF vars
<1>2. CASE Tick
  BY <1>2 DEF Tick, Promise!GrowOld
<1>3. CASE TripState(g)
  BY <1>3 DEF TripState, Promise!TripOpen
<1>4. CASE TripTime(g)
  BY <1>4 DEF TripTime
<1>5. CASE RecordLoss(g) \/ RecordFailedTx(g) \/ RecordSlowFeed(g)
  BY <1>5 DEF RecordLoss, RecordFailedTx, RecordSlowFeed
<1>6. CASE RecordWin(g) \/ WinLoad(g)
  BY <1>6 DEF RecordWin, WinLoad
<1>7. CASE WinStore(g)
  BY <1>7 DEF WinStore, Promise!CloseAgain
<1>8. CASE TryReset(g) \/ ResetAge(g) \/ ResetLosses(g) \/ ResetFailed(g)
  BY <1>8 DEF TryReset, ResetAge, ResetLosses, ResetFailed
<1>9. CASE ResetStore(g)
  BY <1>9 DEF ResetStore, Promise!Recover
<1> QED
  BY <1>1, <1>2, <1>3, <1>4, <1>5, <1>6, <1>7, <1>8, <1>9 DEF Next, Step

(* Called from a single goroutine, the Go breaker implements the promised  *)
(* one, although its trip is two stores and its reset five accesses.       *)
THEOREM BreakerImplementedHolds ==
  ASSUME NEW g, Goroutines = {g} PROVE Spec => BreakerImplemented
<1>1. Init => Promise!BreakerInit
  BY DEF Init, Promise!BreakerInit, tripAge
<1>2. IInv /\ [Next]_vars => [Promise!BreakerNext]_(Promise!breakerVars)
  BY StepPromised
<1>3. Spec => []IInv
  BY Invariance
<1> QED
  BY <1>1, <1>2, <1>3, PTL DEF Spec, BreakerImplemented, Promise!BreakerSpec
=============================================================================
