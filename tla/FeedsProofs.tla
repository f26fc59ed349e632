---------------------------- MODULE FeedsProofs ----------------------------
(***************************************************************************)
(* Type correctness of Feeds and of the two feeds it composes, and what    *)
(* its shutdown promises: cancelled tasks publish nothing, save the late   *)
(* header and the seed that FrozenAfterCancel names.                       *)
(***************************************************************************)
EXTENDS Feeds, TLAPS

(* What the crypto feed awaits tells what its seed after a crash does.     *)
FallbackAwaited == seed["fallback"] = "idle" <=> feed # "seed"

(* The contract is bound when the monitor needs it, and the call in the    *)
(* thread belongs to the monitor or was left behind by its cancellation.   *)
ContractBound ==
  monitor \in {"connect", "recv", "read", "late", "pause"} => contract \in DOMAIN HttpPool

ThreadAwaited ==
  /\ reading # 0 => thread /\ monitor \in {"read", "late", "dead"}
  /\ thread => monitor \in {"calibrate", "setup", "read", "late", "dead"}

(* A cancelled monitor starts no further round of its loop.                *)
LoopEnds == phase = "cancelled" => ~monitor_running

(* Nothing runs once the process has ended.                                *)
NothingLeft ==
  phase = "exited" =>
    /\ feed = "dead" /\ monitor \in {"dead", "fatal"} /\ ~thread
    /\ \A s \in Crypto!Seeds : seed[s] = "idle"

IInv ==
  TypeOK /\ FallbackAwaited /\ ContractBound /\ ThreadAwaited /\ LoopEnds
  /\ NothingLeft

-----------------------------------------------------------------------------
(* The steps of the crypto feed.                                           *)
CryptoSteps ==
  \/ Crypto!MarketMoves \/ Crypto!FeedTask
  \/ \E s \in Crypto!Seeds : Crypto!Seeding(s)
  \/ Crypto!StopFeed \/ Crypto!DropBackgroundSeed

(* Every step of the crypto feed keeps its ranges.                         *)
LEMMA CryptoTyped == ASSUME TypeOK, CryptoSteps PROVE Crypto!CryptoTypeOK'
<1> USE FeedsAssumption DEF TypeOK, Crypto!CryptoTypeOK, Crypto!Seeds, Crypto!GoOn
<1>1. CASE Crypto!MarketMoves
  BY <1>1 DEF Crypto!MarketMoves
<1>2. CASE Crypto!StartFeed
  BY <1>2 DEF Crypto!StartFeed
<1>3. CASE Crypto!Connected \/ Crypto!Tick \/ Crypto!TickWithoutPrice \/ Crypto!PauseOver
  BY <1>3 DEF Crypto!Connected, Crypto!Tick, Crypto!TickWithoutPrice,
       Crypto!PauseOver
<1>4. CASE Crypto!Crash
  BY <1>4 DEF Crypto!Crash
<1>5. CASE Crypto!FeedCancelled
  BY <1>5 DEF Crypto!FeedCancelled
<1>6. ASSUME NEW s \in Crypto!Seeds, Crypto!Seeding(s) PROVE Crypto!CryptoTypeOK'
  <2>1. CASE Crypto!SeedServed(s)
    BY <2>1 DEF Crypto!SeedServed
  <2>2. CASE Crypto!SeedPublished(s) \/ Crypto!SeedFailed(s)
    <3>1. price' \in 0..MaxMoves
      BY <2>2 DEF Crypto!SeedPublished, Crypto!SeedFailed
    <3>2. Crypto!SeedOver(s)
      BY <2>2 DEF Crypto!SeedPublished, Crypto!SeedFailed
    <3> QED
      BY <3>1, <3>2 DEF Crypto!SeedOver
  <2> QED
    BY <1>6, <2>1, <2>2 DEF Crypto!Seeding
<1>7. CASE Crypto!StopFeed
  BY <1>7 DEF Crypto!StopFeed
<1>8. CASE Crypto!DropBackgroundSeed
  BY <1>8 DEF Crypto!DropBackgroundSeed
<1> QED
  BY <1>1, <1>2, <1>3, <1>4, <1>5, <1>6, <1>7, <1>8 DEF CryptoSteps, Crypto!FeedTask

(* The rotation stays inside the pool.                                     *)
LEMMA Rotates ==
  ASSUME NEW L \in Nat \ {0}, NEW i \in 1..L PROVE (i % L) + 1 \in 1..L
<1>1. CASE i = L
  BY <1>1
<1>2. CASE i < L
  BY <1>2
<1> QED
  BY <1>1, <1>2

(* Every step of the monitor keeps its ranges.                             *)
LEMMA MonitorTyped ==
  ASSUME TypeOK, Monitor!EpochMoves \/ Monitor!MonitorTask \/ Monitor!StopMonitor
  PROVE  Monitor!MonitorTypeOK'
<1> USE DEF Monitor!MonitorTypeOK
<1>1. Monitor!MonitorTypeOK /\ 0 \in 0..MaxEpoch /\ MaxEpoch \in Nat
      /\ Len(HttpPool) \in Nat /\ Len(WssPool) \in Nat
  BY FeedsAssumption DEF TypeOK
<1>0. DOMAIN HttpPool \subseteq 0..Len(HttpPool)
  BY FeedsAssumption
<1>2. CASE Monitor!EpochMoves
  BY <1>1, <1>2 DEF Monitor!EpochMoves
<1>3. CASE Monitor!StopMonitor
  BY <1>1, <1>3 DEF Monitor!StopMonitor
<1>4. CASE Monitor!StartMonitor
  BY <1>1, <1>4 DEF Monitor!StartMonitor
<1>5. CASE Monitor!Calibrated
  BY <1>1, <1>5 DEF Monitor!Calibrated
<1>6. CASE Monitor!SetupDone
  BY <1>0, <1>1, <1>6 DEF Monitor!SetupDone
<1>7. CASE Monitor!SetupFailed
  BY <1>1, <1>7 DEF Monitor!SetupFailed
<1>8. CASE Monitor!Subscribed
  BY <1>1, <1>8 DEF Monitor!Subscribed
<1>9. CASE Monitor!BlockArrives
  BY <1>1, <1>9 DEF Monitor!BlockArrives
<1>10. CASE Monitor!EpochRead
  BY <1>1, <1>10 DEF Monitor!EpochRead
<1>11. CASE Monitor!RoundRead
  BY <1>1, <1>11 DEF Monitor!RoundRead, Monitor!Reads
<1>12. CASE Monitor!RotationOver
  BY <1>1, <1>12 DEF Monitor!RotationOver
<1>13. CASE Monitor!MonitorCancelled
  BY <1>1, <1>13 DEF Monitor!MonitorCancelled
<1>14. CASE Monitor!ThreadReturns
  BY <1>1, <1>14 DEF Monitor!ThreadReturns
<1>15. CASE Monitor!Rotate
  <2>1. node' = (node % Len(WssPool)) + 1
    BY <1>15 DEF Monitor!Rotate
  <2>2. Len(WssPool) \in Nat \ {0} /\ node \in 1..Len(WssPool)
    BY <1>1, FeedsAssumption
  <2>3. node' \in 1..Len(WssPool)
    BY <2>1, <2>2, Rotates
  <2> QED
    BY <1>1, <1>15, <2>3 DEF Monitor!Rotate
<1>16. CASE Monitor!HeaderBeforeCancel
  BY <1>1, <1>16 DEF Monitor!HeaderBeforeCancel
<1> QED
  BY <1>2, <1>3, <1>4, <1>5, <1>6, <1>7, <1>8, <1>9, <1>10, <1>11, <1>12, <1>13,
     <1>14, <1>15, <1>16 DEF Monitor!MonitorTask

(* What a step of Feeds is for its two parts.                              *)
LEMMA Steps ==
  ASSUME [Next]_vars
  PROVE  /\ CryptoSteps \/ UNCHANGED cryptoVars
         /\ \/ Monitor!EpochMoves \/ Monitor!MonitorTask \/ Monitor!StopMonitor
            \/ UNCHANGED monitorVars
         /\ UNCHANGED phase \/ StopCrypto \/ CancelTasks \/ Exit
  BY DEF vars, Next, NetworkCalms, MarketMoves, EpochMoves, FeedTask, Seeding,
         MonitorTask, StopCrypto, Shutdown, CancelTasks, Exit, CryptoSteps

(* The seed after a crash is asked for when the feed begins to await it,   *)
(* and dropped with the feed.                                              *)
LEMMA FallbackStep ==
  ASSUME TypeOK, FallbackAwaited, CryptoSteps PROVE FallbackAwaited'
<1> USE DEF FallbackAwaited, Crypto!Seeds, Crypto!GoOn, Crypto!FeedAt
<1>1. /\ seed \in [Crypto!Seeds -> {"idle", "asked", "served"}]
      /\ crypto_running \in BOOLEAN
  BY DEF TypeOK, Crypto!CryptoTypeOK
<1>2. CASE Crypto!MarketMoves \/ Crypto!StopFeed
  BY <1>2 DEF Crypto!MarketMoves, Crypto!StopFeed
<1>3. CASE Crypto!StartFeed
  BY <1>1, <1>3 DEF Crypto!StartFeed
<1>4. CASE Crypto!Connected \/ Crypto!Tick \/ Crypto!TickWithoutPrice \/ Crypto!PauseOver
  BY <1>4 DEF Crypto!Connected, Crypto!Tick, Crypto!TickWithoutPrice,
       Crypto!PauseOver
<1>5. CASE Crypto!Crash
  BY <1>1, <1>5 DEF Crypto!Crash
<1>6. CASE Crypto!FeedCancelled
  BY <1>1, <1>6 DEF Crypto!FeedCancelled
<1>7. CASE Crypto!DropBackgroundSeed
  BY <1>1, <1>7 DEF Crypto!DropBackgroundSeed
<1>8. ASSUME NEW s \in Crypto!Seeds, Crypto!Seeding(s) PROVE FallbackAwaited'
  <2>1. CASE Crypto!SeedServed(s)
    BY <1>1, <2>1 DEF Crypto!SeedServed
  <2>2. CASE Crypto!SeedPublished(s) \/ Crypto!SeedFailed(s)
    BY <1>1, <2>2 DEF Crypto!SeedPublished, Crypto!SeedFailed, Crypto!SeedOver
  <2> QED
    BY <1>8, <2>1, <2>2 DEF Crypto!Seeding
<1> QED
  BY <1>2, <1>3, <1>4, <1>5, <1>6, <1>7, <1>8 DEF CryptoSteps, Crypto!FeedTask

(* The monitor's contract and thread, step by step.                        *)
MonitorInv == ContractBound /\ ThreadAwaited

LEMMA MonitorStep ==
  ASSUME TypeOK, MonitorInv,
         Monitor!EpochMoves \/ Monitor!MonitorTask \/ Monitor!StopMonitor
  PROVE  MonitorInv'
<1> USE DEF MonitorInv, ContractBound, ThreadAwaited,
            Monitor!MonitorAt
<1>1. /\ reading \in Nat /\ pancake \in Nat /\ chain \in Nat \ {0}
      /\ thread \in BOOLEAN
  BY FeedsAssumption DEF TypeOK, Monitor!MonitorTypeOK
<1>2. CASE Monitor!EpochMoves
  BY <1>1, <1>2 DEF Monitor!EpochMoves
<1>3. CASE Monitor!StopMonitor
  BY <1>1, <1>3 DEF Monitor!StopMonitor
<1>4. CASE Monitor!StartMonitor
  BY <1>1, <1>4 DEF Monitor!StartMonitor
<1>5. CASE Monitor!Calibrated
  BY <1>1, <1>5 DEF Monitor!Calibrated
<1>6. CASE Monitor!SetupDone
  BY <1>1, <1>6 DEF Monitor!SetupDone
<1>7. CASE Monitor!SetupFailed
  BY <1>1, <1>7 DEF Monitor!SetupFailed
<1>8. CASE Monitor!Subscribed
  BY <1>1, <1>8 DEF Monitor!Subscribed
<1>9. CASE Monitor!BlockArrives
  BY <1>1, <1>9 DEF Monitor!BlockArrives
<1>10. CASE Monitor!EpochRead
  BY <1>1, <1>10 DEF Monitor!EpochRead
<1>11. CASE Monitor!RoundRead
  BY <1>1, <1>11 DEF Monitor!RoundRead, Monitor!Reads
<1>12. CASE Monitor!RotationOver
  BY <1>1, <1>12 DEF Monitor!RotationOver
<1>13. CASE Monitor!MonitorCancelled
  BY <1>1, <1>13 DEF Monitor!MonitorCancelled
<1>14. CASE Monitor!ThreadReturns
  BY <1>1, <1>14 DEF Monitor!ThreadReturns
<1>15. CASE Monitor!Rotate
  BY <1>1, <1>15 DEF Monitor!Rotate, Monitor!Failure, Monitor!Reads
<1>16. CASE Monitor!HeaderBeforeCancel
  BY <1>1, <1>16 DEF Monitor!HeaderBeforeCancel
<1> QED
  BY <1>2, <1>3, <1>4, <1>5, <1>6, <1>7, <1>8, <1>9, <1>10, <1>11, <1>12, <1>13,
     <1>14, <1>15, <1>16 DEF Monitor!MonitorTask

(* Only start(), which a cancellation precedes, says that the loop runs.   *)
LEMMA MonitorRunning ==
  ASSUME Monitor!MonitorTask
  PROVE  monitor_running' = monitor_running \/ phase # "cancelled"
  BY DEF Monitor!MonitorTask, Monitor!StartMonitor, Monitor!Calibrated,
    Monitor!SetupDone, Monitor!SetupFailed, Monitor!Subscribed,
    Monitor!BlockArrives, Monitor!EpochRead, Monitor!RoundRead, Monitor!Rotate,
    Monitor!RotationOver, Monitor!MonitorCancelled, Monitor!HeaderBeforeCancel,
    Monitor!ThreadReturns, Monitor!MonitorAt

(* Nothing runs before start(), with the market's first move already made. *)
LEMMA InitIInv == Init => IInv
<1> SUFFICES ASSUME Init PROVE IInv
  OBVIOUS
<1> USE DEF Init, Crypto!CryptoInit, Monitor!MonitorInit
<1>1. Crypto!CryptoTypeOK
  <2>1. 0 \in 0..MaxMoves /\ 1 \in 1..MaxMoves
    BY FeedsAssumption
  <2> QED
    BY <2>1 DEF Crypto!CryptoTypeOK
<1>2. Monitor!MonitorTypeOK
  <2>1. /\ 0 \in 0..MaxEpoch /\ 1 \in 1..MaxEpoch
        /\ 0 \in 0..Len(HttpPool) /\ 1 \in 1..Len(WssPool)
    BY FeedsAssumption
  <2> QED
    BY <2>1 DEF Monitor!MonitorTypeOK
<1>3. FallbackAwaited
  BY DEF FallbackAwaited, Crypto!Seeds
<1>4. ContractBound /\ ThreadAwaited /\ LoopEnds /\ NothingLeft
  BY DEF ContractBound, ThreadAwaited, LoopEnds, NothingLeft
<1> QED
  BY <1>1, <1>2, <1>3, <1>4 DEF IInv, TypeOK

(* Once the process has ended the only steps left are the services' own.   *)
LEMMA NothingRuns ==
  ASSUME TypeOK, NothingLeft, phase = "exited", [Next]_vars
  PROVE  UNCHANGED <<phase, feed, seed, monitor, thread, pancake, price>>
<1>1. /\ feed = "dead" /\ monitor \in {"dead", "fatal"} /\ thread = FALSE
      /\ \A s \in Crypto!Seeds : seed[s] = "idle"
  BY DEF NothingLeft, TypeOK, Monitor!MonitorTypeOK
<1>2. ~FeedTask
  BY <1>1 DEF FeedTask, Crypto!FeedTask, Crypto!StartFeed, Crypto!Connected,
       Crypto!Tick, Crypto!TickWithoutPrice, Crypto!Crash, Crypto!PauseOver,
       Crypto!FeedCancelled, Crypto!FeedAt
<1>3. ~\E s \in Crypto!Seeds : Seeding(s)
  BY <1>1 DEF Seeding, Crypto!Seeding, Crypto!SeedServed, Crypto!SeedPublished,
       Crypto!SeedFailed
<1>4. ~MonitorTask
  <2> USE DEF Monitor!MonitorAt
  <2>1. ~(Monitor!StartMonitor \/ Monitor!Calibrated \/ Monitor!SetupDone
          \/ Monitor!SetupFailed \/ Monitor!Subscribed \/ Monitor!BlockArrives)
    BY <1>1 DEF Monitor!StartMonitor, Monitor!Calibrated, Monitor!SetupDone,
         Monitor!SetupFailed, Monitor!Subscribed, Monitor!BlockArrives
  <2>2. ~(Monitor!EpochRead \/ Monitor!RoundRead \/ Monitor!Rotate
          \/ Monitor!RotationOver \/ Monitor!MonitorCancelled
          \/ Monitor!HeaderBeforeCancel \/ Monitor!ThreadReturns)
    BY <1>1 DEF Monitor!EpochRead, Monitor!RoundRead, Monitor!Reads, Monitor!Rotate,
         Monitor!Failure, Monitor!RotationOver, Monitor!MonitorCancelled,
         Monitor!HeaderBeforeCancel, Monitor!ThreadReturns
  <2> QED
    BY <2>1, <2>2 DEF MonitorTask, Monitor!MonitorTask
<1>5. ~(StopCrypto \/ Shutdown)
  BY DEF StopCrypto, Shutdown, CancelTasks, Exit
<1>6. NetworkCalms \/ MarketMoves \/ EpochMoves \/ UNCHANGED vars
  BY <1>2, <1>3, <1>4, <1>5 DEF Next
<1> QED
  BY <1>6 DEF NetworkCalms, MarketMoves, EpochMoves, Crypto!MarketMoves,
       Monitor!EpochMoves, vars, cryptoVars, monitorVars

(* No step of the feeds, the chain or the supervisor breaks the invariant. *)
LEMMA StepIInv == IInv /\ [Next]_vars => IInv'
<1> SUFFICES ASSUME IInv, [Next]_vars PROVE IInv'
  OBVIOUS
<1> USE DEF IInv
<1>1. TypeOK'
  <2>1. Crypto!CryptoTypeOK'
    BY Steps, CryptoTyped DEF TypeOK, cryptoVars, Crypto!CryptoTypeOK
  <2>2. Monitor!MonitorTypeOK'
    BY Steps, MonitorTyped DEF TypeOK, monitorVars, Monitor!MonitorTypeOK
  <2>3. calm' \in BOOLEAN
    BY DEF TypeOK, vars, Next, NetworkCalms, MarketMoves, EpochMoves, FeedTask,
           Seeding, MonitorTask, StopCrypto, Shutdown, CancelTasks, Exit
  <2>4. phase' \in {"running", "closing", "cancelled", "exited"}
    BY Steps DEF TypeOK, StopCrypto, CancelTasks, Exit
  <2> QED
    BY <2>1, <2>2, <2>3, <2>4 DEF TypeOK
<1>2. FallbackAwaited'
  <2>1. CASE CryptoSteps
    BY <2>1, FallbackStep
  <2>2. CASE UNCHANGED cryptoVars
    BY <2>2 DEF cryptoVars, FallbackAwaited
  <2> QED
    BY <2>1, <2>2, Steps
<1>3. MonitorInv'
  <2>1. CASE UNCHANGED monitorVars
    BY <2>1 DEF monitorVars, MonitorInv, ContractBound, ThreadAwaited
  <2> QED
    BY <2>1, Steps, MonitorStep DEF MonitorInv
<1>4. NothingLeft'
  <2>1. CASE phase = "exited"
    BY <2>1, NothingRuns DEF NothingLeft
  <2>2. CASE phase # "exited" /\ UNCHANGED phase
    BY <2>2 DEF NothingLeft
  <2>3. CASE StopCrypto \/ CancelTasks
    BY <2>3 DEF StopCrypto, CancelTasks, NothingLeft
  <2>4. CASE Exit
    <3>1. /\ feed' = "dead" /\ monitor' \in {"dead", "fatal"} /\ ~thread'
          /\ seed' = [seed EXCEPT !["background"] = "idle"]
      BY <2>4 DEF Exit, Crypto!DropBackgroundSeed, monitorVars
    <3>2. seed["fallback"] = "idle"
      BY <2>4 DEF Exit, FallbackAwaited
    <3>3. seed \in [Crypto!Seeds -> {"idle", "asked", "served"}]
      BY DEF TypeOK, Crypto!CryptoTypeOK
    <3> QED
      BY <3>1, <3>2, <3>3 DEF NothingLeft, Crypto!Seeds
  <2> QED
    BY <2>1, <2>2, <2>3, <2>4, Steps
<1>5. LoopEnds'
  <2>1. CASE MonitorTask
    BY <2>1, MonitorRunning DEF LoopEnds, MonitorTask
  <2>2. CASE CancelTasks
    BY <2>2 DEF CancelTasks, Monitor!StopMonitor, LoopEnds
  <2>3. CASE ~MonitorTask /\ ~CancelTasks
    <3>1. monitor_running' = monitor_running /\ (phase' = phase \/ phase' # "cancelled")
      BY <2>3 DEF Next, vars, monitorVars, NetworkCalms, MarketMoves, EpochMoves,
        Monitor!EpochMoves, FeedTask, Seeding, StopCrypto, Shutdown, Exit
    <3> QED
      BY <3>1 DEF LoopEnds
  <2> QED
    BY <2>1, <2>2, <2>3
<1> QED
  BY <1>1, <1>2, <1>3, <1>4, <1>5 DEF MonitorInv

-----------------------------------------------------------------------------
(* The invariant holds for pools of any size and any number of moves.      *)
LEMMA Invariance == Spec => []IInv
  BY InitIInv, StepIInv, PTL DEF Spec

(* The variables of both feeds keep their ranges: the rotation never       *)
(* leaves the pool of nodes.                                               *)
THEOREM TypeCorrect == Spec => []TypeOK
  BY Invariance, PTL DEF IInv

(* A cancelled task publishes nothing, whatever it awaited, but for the    *)
(* header that its recv already had.                                       *)
LEMMA CancelledFrozen ==
  ASSUME TypeOK, LoopEnds, phase = "cancelled", [Next]_vars
  PROVE  /\ pancake' = pancake \/ (monitor = "late" /\ monitor' = "dead")
         /\ price' = price \/ seed["background"] = "served"
<1>1. pancake' = pancake \/ (monitor = "late" /\ monitor' = "dead")
  <2>1. CASE Monitor!RoundRead
    BY <2>1 DEF Monitor!RoundRead, Monitor!Reads, Monitor!MonitorAt, LoopEnds
  <2>2. CASE MonitorTask /\ ~Monitor!RoundRead
    BY <2>2 DEF MonitorTask, Monitor!MonitorTask, Monitor!StartMonitor,
      Monitor!Calibrated, Monitor!SetupDone, Monitor!SetupFailed, Monitor!Subscribed,
      Monitor!BlockArrives, Monitor!EpochRead, Monitor!Rotate, Monitor!RotationOver,
      Monitor!MonitorCancelled, Monitor!HeaderBeforeCancel, Monitor!ThreadReturns
  <2>3. CASE ~MonitorTask
    BY <2>3 DEF Next, vars, monitorVars, NetworkCalms, MarketMoves, EpochMoves,
      Monitor!EpochMoves, FeedTask, Seeding, StopCrypto, Shutdown, CancelTasks,
      Monitor!StopMonitor, Exit
  <2> QED
    BY <2>1, <2>2, <2>3
<1>2. price' = price \/ seed["background"] = "served"
  <2>1. CASE FeedTask
    <3>1. ~Crypto!Tick /\ ~Crypto!TickWithoutPrice
      BY DEF Crypto!Tick, Crypto!TickWithoutPrice, Crypto!FeedAt
    <3> QED
      BY <2>1, <3>1 DEF FeedTask, Crypto!FeedTask, Crypto!StartFeed, Crypto!Connected,
        Crypto!Crash, Crypto!PauseOver, Crypto!FeedCancelled
  <2>2. ASSUME NEW s \in Crypto!Seeds, Seeding(s)
        PROVE  price' = price \/ seed["background"] = "served"
    <3>1. Crypto!SeedPublished(s) => s = "background"
      BY DEF Crypto!SeedPublished, Crypto!CanSeed, Crypto!FeedAt, Crypto!Seeds
    <3> QED
      BY <2>2, <3>1 DEF Seeding, Crypto!Seeding, Crypto!SeedServed,
        Crypto!SeedPublished, Crypto!SeedFailed
  <2>3. CASE ~FeedTask /\ ~\E s \in Crypto!Seeds : Seeding(s)
    BY <2>3 DEF Next, vars, cryptoVars, NetworkCalms, MarketMoves,
      Crypto!MarketMoves, EpochMoves, MonitorTask, StopCrypto, Crypto!StopFeed,
      Shutdown, CancelTasks, Exit, Crypto!DropBackgroundSeed
  <2> QED
    BY <2>1, <2>2, <2>3
<1> QED
  BY <1>1, <1>2

(* After the cancellation the shared state is frozen, but for the REST     *)
(* seed that nobody cancels and the header that had arrived; after the     *)
(* exit it is frozen altogether.                                           *)
THEOREM FrozenAfterCancelHolds == Spec => FrozenAfterCancel
<1>1. IInv /\ [Next]_vars =>
        [/\ phase = "cancelled" =>
              /\ pancake' = pancake \/ (monitor = "late" /\ monitor' = "dead")
              /\ price' = price \/ seed["background"] = "served"
         /\ phase = "exited" => UNCHANGED <<pancake, price>>]_vars
  BY CancelledFrozen, NothingRuns DEF IInv
<1> QED
  BY <1>1, Invariance, PTL DEF Spec, FrozenAfterCancel
=============================================================================
