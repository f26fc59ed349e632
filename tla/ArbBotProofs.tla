---------------------------- MODULE ArbBotProofs ----------------------------
(***************************************************************************)
(* Safety of the arbitrage pipeline for every capital, limit, cooldown and *)
(* set of prices, from one inductive invariant.                            *)
(***************************************************************************)
EXTENDS ArbBot, TLAPS

-----------------------------------------------------------------------------
(* Arithmetic of stakes and bets.                                          *)

(* A larger dividend does not give a smaller quotient.                     *)
LEMMA DivMonotone ==
  ASSUME NEW a \in Int, NEW b \in Int, NEW p \in Nat \ {0}, a <= b
  PROVE  a \div p \in Int /\ b \div p \in Int /\ a \div p <= b \div p
  OBVIOUS

(* A smaller capital never gets a larger stake, nor one under the floor.   *)
LEMMA StakeMonotone ==
  ASSUME NEW c \in Int, NEW d \in Int, c <= d
  PROVE  /\ StakeOf(c) \in Int
         /\ StakeOf(d) \in Int
         /\ StakeOf(c) <= StakeOf(d)
  BY DEF StakeOf, Larger, MinStake

(* A smaller stake never gets a larger bet, nor one under the floor.       *)
LEMMA BetMonotone ==
  ASSUME NEW s \in Int, NEW t \in Int, s <= t, NEW p \in Nat
  PROVE  /\ BetOf(s, p) \in Int
         /\ BetOf(t, p) \in Int
         /\ BetOf(s, p) >= 1
         /\ BetOf(s, p) <= BetOf(t, p)
<1> DEFINE price == IF p <= 0 THEN FallbackPrice ELSE p
<1>1. price \in Nat \ {0}
  BY DEF FallbackPrice
<1>2. s \div price \in Int /\ t \div price \in Int /\ s \div price <= t \div price
  BY <1>1, DivMonotone
<1>3. BetOf(s, p) = Larger(s \div price, MinBet) /\ BetOf(t, p) = Larger(t \div price, MinBet)
  BY DEF BetOf
<1> HIDE DEF price
<1>4. QED
  BY <1>2, <1>3 DEF Larger, MinBet

(* A bot that has not gained anything bets between 1 and MaxBet.           *)
LEMMA BetBounded ==
  ASSUME NEW capital \in Int, capital <= InitialCapital,
         NEW p \in BinancePrices \cup {0}
  PROVE  BetOf(StakeOf(capital), p) \in 1 .. MaxBet
<1>1. /\ StakeOf(capital) \in Int
      /\ StakeOf(InitialCapital) \in Int
      /\ StakeOf(capital) <= StakeOf(InitialCapital)
  BY StakeMonotone, ArbAssumption
<1>2. p \in Nat
  BY ArbAssumption
<1>3. /\ BetOf(StakeOf(capital), p) \in Int
      /\ BetOf(StakeOf(InitialCapital), p) \in Int
      /\ BetOf(StakeOf(capital), p) >= 1
      /\ BetOf(StakeOf(capital), p) <= BetOf(StakeOf(InitialCapital), p)
  BY <1>1, <1>2, BetMonotone
<1>4. BetOf(StakeOf(InitialCapital), p) <= MaxBet /\ MaxBet \in Nat
  BY ArbAssumption
<1>5. QED
  BY <1>3, <1>4

-----------------------------------------------------------------------------
(* The inductive invariant.                                                *)

(* The pipeline holds nothing, a request with the stake of the present     *)
(* capital, or a result with the loss of one bet.                          *)
OneOrder ==
  \/ execution_queue = <<>> /\ result_queue = <<>>
  \/ execution_queue = <<StakeOf(Capital)>> /\ result_queue = <<>>
  \/ execution_queue = <<>> /\ \E d \in 1 .. MaxBet : result_queue = <<0 - d>>

(* An open order, or a stuck one, was placed above the limit, and the      *)
(* profit has not moved since.                                             *)
OpenAboveLimit ==
  Pending \/ sniper_state = "FIRING" => cumulative_pnl > KillLimit /\ ~kill_switch

(* FIRING covers the life of an order; without a wallet it may outlive it. *)
FiringCovers ==
  /\ Pending /\ main_pc # "done" => sniper_state = "FIRING"
  /\ wallet_ok /\ main_pc # "done" => (sniper_state = "FIRING" => Pending)

IInv ==
  /\ TypeOK
  /\ OneOrder
  /\ OpenAboveLimit
  /\ FiringCovers
  /\ inflight <=> execution_queue # <<>>
  /\ cumulative_pnl <= 0
  /\ cumulative_pnl > KillLimit - MaxBet
  /\ kill_switch => cumulative_pnl <= KillLimit
  /\ sniper_state = "STOPPED" <=> main_pc = "done"

LEMMA InitIInv == Init => IInv
<1> SUFFICES ASSUME Init PROVE IInv
  OBVIOUS
<1>1. TypeOK
  <2>1. 0 \in 0 .. Cooldown /\ 0 \in 0 .. PollerPatience /\ <<>> \in Seq(Int)
    BY ArbAssumption
  <2>2. /\ cooldown \in 0 .. Cooldown
        /\ waits \in 0 .. PollerPatience
        /\ execution_queue \in Seq(Int)
        /\ result_queue \in Seq(Int)
        /\ cumulative_pnl \in Int
    BY <2>1 DEF Init
  <2>3. /\ binance_price \in BinancePrices \cup {0}
        /\ dex_price \in DexPrices \cup {0}
        /\ {kill_switch, inflight, dex_router, wallet_ok, rpc_up} \subseteq BOOLEAN
    BY DEF Init
  <2>4. QED
    BY <2>2, <2>3 DEF Init, TypeOK
<1>2. OneOrder /\ OpenAboveLimit /\ FiringCovers
  BY DEF Init, OneOrder, OpenAboveLimit, FiringCovers, Pending
<1>3. 0 > KillLimit - MaxBet
  BY ArbAssumption
<1>4. cumulative_pnl <= 0 /\ cumulative_pnl > KillLimit - MaxBet
  BY <1>3 DEF Init
<1>5. ~inflight /\ ~kill_switch /\ execution_queue = <<>>
  BY DEF Init
<1>6. sniper_state # "STOPPED" /\ main_pc # "done"
  BY DEF Init
<1>7. QED
  BY <1>1, <1>2, <1>4, <1>5, <1>6 DEF IInv

LEMMA StepIInv == IInv /\ [Next]_vars => IInv'
<1> SUFFICES ASSUME IInv, [Next]_vars PROVE IInv'
  OBVIOUS
<1> USE ArbAssumption
<1> DEFINE rest == <<sniper_state, cumulative_pnl, inflight, execution_queue,
                     result_queue, kill_switch, wallet_ok>>
<1>0. ASSUME UNCHANGED rest, TypeOK',
             main_pc' = main_pc \/ (main_pc # "done" /\ main_pc' # "done")
      PROVE  IInv'
  <2>1. OneOrder'
    BY <1>0 DEF IInv, OneOrder, Capital
  <2>2. OpenAboveLimit' /\ FiringCovers'
    BY <1>0 DEF IInv, OpenAboveLimit, FiringCovers, Pending
  <2>3. QED
    BY <1>0, <2>1, <2>2 DEF IInv
<1>1. CASE UNCHANGED vars
  BY <1>1, <1>0 DEF vars, pipeline, prices, startup, environment, IInv, TypeOK
<1>2. CASE BinanceTick
  BY <1>2, <1>0 DEF BinanceTick, pipeline, prices, startup, environment, IInv, TypeOK
<1>3. CASE RpcChange
  BY <1>3, <1>0 DEF RpcChange, pipeline, prices, startup, environment, IInv, TypeOK
<1>4. CASE Tick
  BY <1>4, <1>0 DEF Tick, pipeline, prices, startup, environment, IInv, TypeOK
<1>5. CASE ExecutorSetup
  BY <1>5, <1>0 DEF ExecutorSetup, pipeline, prices, startup, environment, IInv, TypeOK
<1>6. CASE BuildDexReader
  BY <1>6, <1>0 DEF BuildDexReader, pipeline, prices, startup, environment, IInv, TypeOK
<1>7. CASE PollerWait
  BY <1>7, <1>0 DEF PollerWait, MayLook, pipeline, prices, startup, environment, IInv, TypeOK
<1>8. CASE PollerGiveUp
  BY <1>8, <1>0 DEF PollerGiveUp, pipeline, prices, startup, environment, IInv, TypeOK
<1>9. CASE PollStart
  BY <1>9, <1>0 DEF PollStart, pipeline, prices, startup, environment, IInv, TypeOK
<1>10. CASE PollReply
  BY <1>10, <1>0 DEF PollReply, pipeline, prices, startup, environment, IInv, TypeOK
<1>11. CASE ThrowKillSwitch
  <2>1. TypeOK'
    BY <1>11 DEF ThrowKillSwitch, pipeline, prices, startup, environment, IInv, TypeOK
  <2>2. ~Pending /\ sniper_state # "FIRING"
    BY <1>11 DEF ThrowKillSwitch, LimitReached, IInv, OpenAboveLimit, TypeOK
  <2>3. QED
    BY <1>11, <2>1, <2>2 DEF ThrowKillSwitch, LimitReached, pipeline, IInv, OneOrder,
       OpenAboveLimit, FiringCovers, Pending, Capital
<1>12. CASE Fire
  <2>1. execution_queue = <<>> /\ result_queue = <<>>
    BY <1>12 DEF Fire, TasksRun, MayFire, IInv, OneOrder, FiringCovers, Pending
  <2>2. execution_queue' = <<StakeOf(Capital)>> /\ result_queue' = <<>>
    BY <1>12, <2>1 DEF Fire
  <2>3. Capital' = Capital /\ StakeOf(Capital) \in Int
    BY <1>12, StakeMonotone DEF Fire, Capital, IInv, TypeOK
  <2>4. TypeOK'
    BY <1>12, <2>2, <2>3 DEF Fire, prices, startup, environment, IInv, TypeOK
  <2>5. QED
    BY <1>12, <2>2, <2>3, <2>4 DEF Fire, LimitReached, TasksRun, IInv, OneOrder,
       OpenAboveLimit, FiringCovers, Pending, TypeOK, environment
<1>13. CASE WorkerFills
  <2> DEFINE bet == BetOf(StakeOf(Capital), binance_price)
  <2>1. bet \in 1 .. MaxBet
    BY BetBounded DEF IInv, TypeOK, Capital
  <2>2. /\ execution_queue = <<StakeOf(Capital)>>
        /\ result_queue = <<>>
    BY <1>13 DEF WorkerFills, IInv, OneOrder
  <2>3. execution_queue' = <<>> /\ result_queue' = <<0 - bet>>
    BY <1>13, <2>2 DEF WorkerFills
  <2> HIDE DEF bet
  <2>4. TypeOK'
    <3>1. 0 - bet \in Int /\ result_queue' \in Seq(Int) /\ execution_queue' \in Seq(Int)
      BY <2>1, <2>3
    <3>2. QED
      BY <1>13, <3>1 DEF WorkerFills, prices, startup, environment, IInv, TypeOK
  <2>5. OneOrder'
    BY <2>1, <2>3 DEF OneOrder
  <2>6. OpenAboveLimit' /\ FiringCovers'
    BY <1>13, <2>2, <2>3 DEF WorkerFills, WorkersRun, TasksRun, IInv,
       OpenAboveLimit, FiringCovers, Pending, environment
  <2>7. QED
    BY <1>13, <2>3, <2>4, <2>5, <2>6 DEF WorkerFills, IInv
<1>14. CASE WorkerFails
  <2>1. /\ execution_queue = <<StakeOf(Capital)>>
        /\ result_queue = <<>>
    BY <1>14 DEF WorkerFails, IInv, OneOrder
  <2>2. execution_queue' = <<>> /\ result_queue' = <<>>
    BY <1>14, <2>1 DEF WorkerFails
  <2>3. TypeOK'
    BY <1>14, <2>2 DEF WorkerFails, prices, startup, environment, IInv, TypeOK
  <2>4. QED
    BY <1>14, <2>1, <2>2, <2>3 DEF WorkerFails, WorkersRun, TasksRun, IInv, OneOrder,
       OpenAboveLimit, FiringCovers, Pending, environment
<1>15. CASE BookResult
  <2>1. PICK d \in 1 .. MaxBet : execution_queue = <<>> /\ result_queue = <<0 - d>>
    BY <1>15 DEF BookResult, IInv, OneOrder
  <2>2. /\ execution_queue' = <<>>
        /\ result_queue' = <<>>
        /\ cumulative_pnl' = cumulative_pnl - d
        /\ sniper_state' = "ARMED"
    BY <1>15, <2>1 DEF BookResult, IInv, TypeOK
  <2>3. TypeOK'
    <3>1. /\ cumulative_pnl' \in Int
          /\ execution_queue' \in Seq(Int)
          /\ result_queue' \in Seq(Int)
      BY <2>2 DEF IInv, TypeOK
    <3>2. QED
      BY <1>15, <2>2, <3>1 DEF BookResult, prices, startup, environment, IInv, TypeOK
  <2>4. cumulative_pnl > KillLimit /\ ~kill_switch
    BY <2>1 DEF IInv, OpenAboveLimit, Pending
  <2>5. OneOrder' /\ OpenAboveLimit' /\ FiringCovers'
    BY <1>15, <2>2, <2>4 DEF BookResult, OneOrder, OpenAboveLimit, FiringCovers,
       Pending
  <2>6. cumulative_pnl' <= 0 /\ cumulative_pnl' > KillLimit - MaxBet
    BY <2>1, <2>2, <2>4 DEF IInv, TypeOK
  <2>7. QED
    BY <1>15, <2>2, <2>3, <2>4, <2>5, <2>6 DEF BookResult, TasksRun, IInv
<1>16. CASE LeaveLoop
  BY <1>16, <1>0 DEF LeaveLoop, pipeline, prices, startup, environment, IInv, TypeOK
<1>17. CASE Interrupt
  BY <1>17, <1>0 DEF Interrupt, pipeline, prices, startup, environment, IInv, TypeOK
<1>18. CASE StopTasks
  BY <1>18, <1>0 DEF StopTasks, pipeline, prices, startup, environment, IInv, TypeOK
<1>19. CASE MarkStopped
  <2>1. TypeOK'
    BY <1>19 DEF MarkStopped, prices, startup, environment, IInv, TypeOK
  <2>2. QED
    BY <1>19, <2>1 DEF MarkStopped, IInv, OneOrder, OpenAboveLimit, FiringCovers,
       Pending, Capital
<1>20. QED
  BY <1>1, <1>2, <1>3, <1>4, <1>5, <1>6, <1>7, <1>8, <1>9, <1>10, <1>11, <1>12,
     <1>13, <1>14, <1>15, <1>16, <1>17, <1>18, <1>19 DEF Next

(* IInv holds in every reachable state.                                    *)
THEOREM Invariance == Spec => []IInv
  BY InitIInv, StepIInv, PTL DEF Spec

(* Every variable stays in its range.                                      *)
THEOREM TypeCorrect == Spec => []TypeOK
<1>1. IInv => TypeOK
  BY DEF IInv
<1>2. QED
  BY <1>1, Invariance, PTL

(* At most one order is in the pipeline, whatever the number of workers    *)
(* and the length of the queues.                                           *)
THEOREM SingleFlightHolds == Spec => []SingleFlight
<1>1. ASSUME IInv PROVE SingleFlight
  <2>1. Len(<<>>) = 0 /\ \A x : Len(<<x>>) = 1
    OBVIOUS
  <2>2. CASE execution_queue = <<>> /\ result_queue = <<>>
    BY <2>1, <2>2 DEF SingleFlight
  <2>3. CASE execution_queue = <<StakeOf(Capital)>> /\ result_queue = <<>>
    <3>1. Len(execution_queue) = 1 /\ Len(result_queue) = 0
      BY <2>1, <2>3, Zenon
    <3>2. QED
      BY <3>1 DEF SingleFlight
  <2>4. ASSUME NEW d \in 1 .. MaxBet, execution_queue = <<>>, result_queue = <<0 - d>>
        PROVE  SingleFlight
    <3>1. Len(execution_queue) = 0 /\ Len(result_queue) = 1
      BY <2>1, <2>4, Zenon
    <3>2. QED
      BY <3>1 DEF SingleFlight
  <2>5. QED
    BY <1>1, <2>2, <2>3, <2>4 DEF IInv, OneOrder
<1>2. QED
  BY <1>1, Invariance, PTL

(* The in-flight mark and the FIRING state tell where the order is.        *)
THEOREM OrderStateAgreesHolds == Spec => []OrderStateAgrees
<1>1. IInv => OrderStateAgrees
  BY DEF IInv, FiringCovers, OrderStateAgrees
<1>2. QED
  BY <1>1, Invariance, PTL

(* The kill switch is thrown, and stays, over an empty pipeline.           *)
THEOREM KillOverEmptyPipelineHolds == Spec => []KillOverEmptyPipeline
<1>1. IInv => KillOverEmptyPipeline
  BY DEF IInv, OpenAboveLimit, KillOverEmptyPipeline
<1>2. QED
  BY <1>1, Invariance, PTL

(* The stake a request was placed with is the one the executor computes.   *)
THEOREM StakeAgreesHolds == Spec => []StakeAgrees
<1>1. IInv => StakeAgrees
  BY DEF IInv, OneOrder, StakeAgrees
<1>2. QED
  BY <1>1, Invariance, PTL

(* The loss never passes the limit by more than one bet.                   *)
THEOREM LossBoundedHolds == Spec => []LossBounded
<1>1. IInv => LossBounded
  BY DEF IInv, LossBounded
<1>2. QED
  BY <1>1, Invariance, PTL

(* Nothing moves the state or the profit after STOPPED.                    *)
THEOREM StoppedIsFinalHolds == Spec => StoppedIsFinal
<1>1. ASSUME IInv, Next, sniper_state = "STOPPED"
      PROVE  UNCHANGED <<sniper_state, cumulative_pnl>>
  <2>1. main_pc = "done" /\ ~TasksRun
    BY <1>1 DEF IInv, TasksRun
  <2>2. QED
    BY <1>1, <2>1 DEF Next, WorkersRun, pipeline, BinanceTick, RpcChange, Tick,
       ExecutorSetup, BuildDexReader, PollerWait, PollerGiveUp, PollStart,
       PollReply, ThrowKillSwitch, Fire, WorkerFills, WorkerFails, BookResult,
       LeaveLoop, Interrupt, StopTasks, MarkStopped
<1>2. IInv /\ [Next]_vars =>
        [sniper_state = "STOPPED" => UNCHANGED <<sniper_state, cumulative_pnl>>]_vars
  BY <1>1
<1>3. QED
  BY <1>2, Invariance, PTL DEF Spec, StoppedIsFinal

-----------------------------------------------------------------------------
(* The pipeline implements the single-slot desk.                           *)

(* Where the order is, in the states the invariant allows.                 *)
SlotMap ==
  /\ execution_queue # <<>> => slotBar = "placed" /\ dueBar = 0
  /\ result_queue # <<>> => slotBar = "filled"
  /\ ~Pending /\ sniper_state = "FIRING" => slotBar = "stuck" /\ dueBar = 0
  /\ ~Pending /\ sniper_state # "FIRING" => slotBar = "idle" /\ dueBar = 0

LEMMA SlotCases == IInv => SlotMap
<1>1. IInv => execution_queue = <<>> \/ result_queue = <<>>
  BY DEF IInv, OneOrder
<1>2. QED
  BY <1>1 DEF SlotMap, slotBar, dueBar, Pending

(* Initial states map to initial states.                                   *)
LEMMA DeskInitMaps == Init => Desk!DeskInit
<1> SUFFICES ASSUME Init PROVE Desk!DeskInit
  OBVIOUS
<1>1. slotBar = "idle" /\ dueBar = 0
  BY InitIInv, SlotCases DEF Init, SlotMap, Pending
<1>2. QED
  BY <1>1 DEF Init, Desk!DeskInit

(* A step maps to a step of the desk or leaves it unchanged.               *)
LEMMA DeskStepMaps == IInv /\ IInv' /\ [Next]_vars => [Desk!DeskNext]_(Desk!deskVars)
<1> SUFFICES ASSUME IInv, IInv', [Next]_vars
             PROVE  [Desk!DeskNext]_(Desk!deskVars)
  OBVIOUS
<1> USE DEF Desk!deskVars
<1>1. ASSUME UNCHANGED <<sniper_state, cumulative_pnl, execution_queue, result_queue,
                         kill_switch>>,
             (main_pc' = "done") = (main_pc = "done")
      PROVE  UNCHANGED Desk!deskVars
  BY <1>1 DEF slotBar, dueBar, Pending
<1>2. CASE UNCHANGED vars
  BY <1>2, <1>1 DEF vars, pipeline
<1>3. CASE \/ BinanceTick \/ RpcChange \/ Tick \/ ExecutorSetup \/ BuildDexReader
           \/ PollerWait \/ PollerGiveUp \/ PollStart \/ PollReply
  BY <1>3, <1>1 DEF pipeline, BinanceTick, RpcChange, Tick, ExecutorSetup,
     BuildDexReader, PollerWait, PollerGiveUp, PollStart, PollReply
<1>4. CASE LeaveLoop \/ Interrupt \/ StopTasks
  BY <1>4, <1>1 DEF pipeline, LeaveLoop, Interrupt, StopTasks
<1>5. SlotMap /\ SlotMap'
  BY SlotCases, PTL
<1>6. CASE ThrowKillSwitch
  <2>1. ~Pending /\ sniper_state # "FIRING" /\ ~Pending' /\ sniper_state' # "FIRING"
    BY <1>6 DEF ThrowKillSwitch, LimitReached, IInv, OpenAboveLimit, TypeOK, pipeline,
       Pending
  <2>2. slotBar = "idle" /\ dueBar = 0 /\ slotBar' = "idle" /\ dueBar' = 0
    BY <1>5, <2>1 DEF SlotMap
  <2>3. Desk!Halt
    BY <1>6, <2>2 DEF ThrowKillSwitch, TasksRun, LimitReached, pipeline, Desk!Halt
  <2>4. QED
    BY <2>3 DEF Desk!DeskNext
<1>7. CASE Fire
  <2>1. ~Pending /\ sniper_state # "FIRING"
    BY <1>7 DEF Fire, MayFire, TasksRun, IInv, FiringCovers
  <2>2. execution_queue' # <<>>
    BY <1>7, <2>1 DEF Fire, Pending
  <2>3. slotBar = "idle" /\ dueBar = 0 /\ slotBar' = "placed" /\ dueBar' = 0
    BY <1>5, <2>1, <2>2 DEF SlotMap
  <2>4. ~LimitReached => cumulative_pnl > KillLimit
    BY ArbAssumption DEF LimitReached, IInv, TypeOK
  <2>5. Desk!Place
    BY <1>7, <2>3, <2>4 DEF Fire, TasksRun, Desk!Place
  <2>6. QED
    BY <2>5 DEF Desk!DeskNext
<1>8. CASE WorkerFills
  <2> DEFINE bet == BetOf(StakeOf(Capital), binance_price)
  <2>1. execution_queue = <<StakeOf(Capital)>> /\ result_queue = <<>>
    BY <1>8 DEF WorkerFills, IInv, OneOrder
  <2>2. bet \in 1 .. MaxBet
    <3>1. Capital \in Int /\ Capital <= InitialCapital
      BY ArbAssumption DEF IInv, TypeOK, Capital
    <3>2. QED
      BY <3>1, BetBounded DEF IInv, TypeOK
  <2>3. result_queue' = <<0 - bet>>
    BY <1>8, <2>1 DEF WorkerFills
  <2> HIDE DEF bet
  <2>4. slotBar = "placed" /\ slotBar' = "filled"
    BY <1>5, <2>1, <2>3 DEF SlotMap
  <2>5. dueBar' \in 1 .. MaxBet
    BY <2>2, <2>3 DEF dueBar
  <2>6. Desk!Fill
    BY <1>8, <2>4, <2>5 DEF WorkerFills, WorkersRun, TasksRun, Desk!Fill
  <2>7. QED
    BY <2>6 DEF Desk!DeskNext
<1>9. CASE WorkerFails
  <2>1. execution_queue = <<StakeOf(Capital)>> /\ result_queue = <<>>
    BY <1>9 DEF WorkerFails, IInv, OneOrder
  <2>2. execution_queue' = <<>> /\ result_queue' = <<>> /\ sniper_state' = "FIRING"
    BY <1>9, <2>1 DEF WorkerFails, WorkersRun, TasksRun, IInv, FiringCovers, Pending
  <2>3. slotBar = "placed" /\ dueBar = 0 /\ slotBar' = "stuck" /\ dueBar' = 0
    BY <1>5, <2>1, <2>2 DEF SlotMap, Pending
  <2>4. Desk!Reject
    BY <1>9, <2>3 DEF WorkerFails, WorkersRun, TasksRun, Desk!Reject
  <2>5. QED
    BY <2>4 DEF Desk!DeskNext
<1>10. CASE BookResult
  <2>1. PICK d \in 1 .. MaxBet : execution_queue = <<>> /\ result_queue = <<0 - d>>
    BY <1>10 DEF BookResult, IInv, OneOrder
  <2>2. /\ execution_queue' = <<>>
        /\ result_queue' = <<>>
        /\ cumulative_pnl' = cumulative_pnl - d
        /\ sniper_state' = "ARMED"
    BY <1>10, <2>1 DEF BookResult, IInv, TypeOK
  <2>3. slotBar = "filled" /\ dueBar = d
    BY <1>5, <2>1 DEF SlotMap, dueBar
  <2>4. slotBar' = "idle" /\ dueBar' = 0
    BY <1>5, <2>2 DEF SlotMap, Pending
  <2>5. Desk!Book
    BY <1>10, <2>2, <2>3, <2>4 DEF BookResult, TasksRun, Desk!Book
  <2>6. QED
    BY <2>5 DEF Desk!DeskNext
<1>11. CASE MarkStopped
  <2>1. slotBar' = IF slotBar = "stuck" THEN "idle" ELSE slotBar
    BY <1>11 DEF MarkStopped, slotBar, Pending
  <2>2. dueBar' = dueBar
    BY <1>11 DEF MarkStopped, dueBar
  <2>3. Desk!Close
    BY <1>11, <2>1, <2>2 DEF MarkStopped, Desk!Close
  <2>4. QED
    BY <2>3 DEF Desk!DeskNext
<1>12. QED
  BY <1>2, <1>3, <1>4, <1>6, <1>7, <1>8, <1>9, <1>10, <1>11 DEF Next

(* The two queues, eight workers and the loops around them implement a     *)
(* desk with one slot.                                                     *)
THEOREM DeskImplementedHolds == Spec => DeskImplemented
  BY DeskInitMaps, DeskStepMaps, Invariance, PTL
  DEF Spec, DeskImplemented, Desk!DeskSpec
=============================================================================
