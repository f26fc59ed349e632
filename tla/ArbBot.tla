------------------------------- MODULE ArbBot -------------------------------
(***************************************************************************)
(* The arbitrage pipeline that main.py runs on one asyncio loop: the       *)
(* arbitrage loop and the DEX price poller of ArbitrageEngine, the workers *)
(* of Web3Executor, the result loop, the kill switch and the shutdown.     *)
(* An action is the code between two awaits that can suspend; a put on a   *)
(* queue that is not full and a get on one that is not empty do not.       *)
(* dry_run is forced to True in Web3Executor.__init__, so an order is      *)
(* simulated without suspending.                                           *)
(***************************************************************************)
EXTENDS ArbMath, Sequences

CONSTANTS
  InitialCapital,  (* what ask_initial_capital returned                    *)
  KillLimit,       (* KILL_SWITCH_PNL_USD                                  *)
  Cooldown,        (* COOLDOWN_AFTER_FIRE_S, in ticks                      *)
  PollerPatience,  (* how often the poller looks for the router: 30        *)
  BinancePrices,   (* prices the feed may publish, 0 for a missing one     *)
  DexPrices,       (* prices getAmountsOut may return                      *)
  MaxBet           (* bounds what the initial capital bets at any price    *)

ASSUME ArbAssumption ==
  /\ InitialCapital \in Nat \ {0}
  /\ KillLimit \in Int /\ KillLimit < 0
  /\ Cooldown \in Nat \ {0}
  /\ PollerPatience \in Nat \ {0}
  /\ BinancePrices \subseteq Nat
  /\ DexPrices \subseteq Nat \ {0}
  /\ MaxBet \in Nat
  /\ \A p \in BinancePrices \cup {0} :
       BetOf(StakeOf(InitialCapital), p) <= MaxBet

VARIABLES
  main_pc,            (* run(): "loop", then the steps of its finally      *)
  kill_switch,
  sniper_state,
  cumulative_pnl,
  inflight,           (* BNB is in inflight_assets                         *)
  binance_price,      (* asset_prices[BNB]                                 *)
  dex_price,          (* _dex_price                                        *)
  cooldown,           (* ticks until COOLDOWN_AFTER_FIRE_S has passed      *)
  execution_queue,    (* requests, each with the stake the engine chose    *)
  result_queue,       (* results, as the pnl_delta each carries            *)
  executor,           (* progress of Web3Executor.start                    *)
  dex_router,         (* _dex_router is set                                *)
  poller,             (* progress of _dex_price_loop                       *)
  waits,              (* iterations of its wait for the router             *)
  wallet_ok,          (* WALLET_ADDRESS is set to a valid address          *)
  rpc_up              (* some node of the RPC pool answers                 *)

pipeline == <<sniper_state, cumulative_pnl, inflight, cooldown,
              execution_queue, result_queue>>
startup  == <<executor, dex_router, poller, waits>>
prices   == <<binance_price, dex_price>>
environment == <<wallet_ok, rpc_up>>
vars == <<main_pc, kill_switch, pipeline, prices, startup, environment>>

Capital == InitialCapital + cumulative_pnl

-----------------------------------------------------------------------------
(* Mutant: the finally block cancels nothing.                              *)
TasksNotCancelled == main_pc \in {"loop", "stopping", "cancelling", "done"}

(* engine.stop() and the cancellation of every task come in one step of    *)
(* run(), so these tell for all tasks whether they still run.              *)
TasksRun == main_pc \in {"loop", "stopping"}

Init ==
  /\ main_pc = "loop"
  /\ kill_switch = FALSE
  /\ sniper_state = "ARMED"
  /\ cumulative_pnl = 0
  /\ inflight = FALSE
  /\ binance_price = 0
  /\ dex_price = 0
  /\ cooldown = 0
  /\ execution_queue = <<>>
  /\ result_queue = <<>>
  /\ executor = "setup"
  /\ dex_router = FALSE
  /\ poller = "waiting"
  /\ waits = 0
  /\ wallet_ok \in BOOLEAN
  /\ rpc_up \in BOOLEAN

-----------------------------------------------------------------------------
(* Prices, nodes and time.                                                 *)

(* A REST seed that run() does not cancel may still publish.               *)
BinanceTick ==
  /\ main_pc # "done"
  /\ binance_price' \in BinancePrices
  /\ UNCHANGED <<main_pc, kill_switch, pipeline, dex_price, startup,
                 environment>>

RpcChange ==
  /\ main_pc # "done"
  /\ rpc_up' = ~rpc_up
  /\ UNCHANGED <<main_pc, kill_switch, pipeline, prices, startup, wallet_ok>>

Tick ==
  /\ main_pc # "done"
  /\ cooldown > 0
  /\ cooldown' = cooldown - 1
  /\ UNCHANGED <<main_pc, kill_switch, sniper_state, cumulative_pnl, inflight,
                 execution_queue, result_queue, prices, startup, environment>>

-----------------------------------------------------------------------------
(* Web3Executor.start: the RPC pool, then the router, once each.  The      *)
(* harvester returns at once in dry-run mode, and the workers start.       *)

ExecutorSetup ==
  /\ TasksRun
  /\ executor = "setup"
  /\ executor' = IF rpc_up THEN "reader" ELSE "crashed"
  /\ UNCHANGED <<main_pc, kill_switch, pipeline, prices, dex_router, poller,
                 waits, environment>>

BuildDexReader ==
  /\ TasksRun
  /\ executor = "reader"
  /\ dex_router' = rpc_up
  /\ executor' = "ready"
  /\ UNCHANGED <<main_pc, kill_switch, pipeline, prices, poller, waits,
                 environment>>

(* _dex_price_loop looks for the router up to PollerPatience times, a      *)
(* second apart, whatever _running says, and not after the last sleep.     *)

(* Mutant: one look more than the range allows.                            *)
MayLookAgain == waits <= PollerPatience

MayLook == waits < PollerPatience

PollerWait ==
  /\ main_pc # "done"
  /\ poller = "waiting"
  /\ MayLook
  /\ \/ /\ dex_router
        /\ poller' = "idle"
        /\ UNCHANGED waits
     \/ /\ ~dex_router
        /\ waits' = waits + 1
        /\ UNCHANGED poller
  /\ UNCHANGED <<main_pc, kill_switch, pipeline, prices, executor, dex_router,
                 environment>>

PollerGiveUp ==
  /\ main_pc # "done"
  /\ poller = "waiting"
  /\ waits = PollerPatience
  /\ poller' = "stopped"
  /\ UNCHANGED <<main_pc, kill_switch, pipeline, prices, executor, dex_router,
                 waits, environment>>

(* The poller is not among the tasks run() cancels: it checks _running     *)
(* before a read, and a read in progress still delivers its price.         *)
PollStart ==
  /\ TasksRun
  /\ poller = "idle"
  /\ poller' = "reading"
  /\ UNCHANGED <<main_pc, kill_switch, pipeline, prices, executor, dex_router,
                 waits, environment>>

PollReply ==
  /\ main_pc # "done"
  /\ poller = "reading"
  /\ poller' = "idle"
  /\ \/ /\ rpc_up
        /\ dex_price' \in DexPrices
     \/ /\ ~rpc_up                        \* the exception is swallowed
        /\ UNCHANGED dex_price
  /\ UNCHANGED <<main_pc, kill_switch, pipeline, binance_price, executor,
                 dex_router, waits, environment>>

-----------------------------------------------------------------------------
(* One iteration of _arb_loop, up to its sleep.                            *)

(* Mutant: the limit is RuntimeConfig.kill_switch_pnl_usd, thirty dollars. *)
ConfigLimitReached == cumulative_pnl <= 30 * KillLimit

LimitReached == cumulative_pnl <= KillLimit

ThrowKillSwitch ==
  /\ TasksRun
  /\ ~kill_switch
  /\ LimitReached
  /\ kill_switch' = TRUE
  /\ UNCHANGED <<main_pc, pipeline, prices, startup, environment>>

(* Mutant: the cooldown alone separates two orders.                        *)
MayFireAfterCooldown == cooldown = 0

(* The cooldown and FIRING checks of _try_fire.                            *)
MayFire == cooldown = 0 /\ sniper_state # "FIRING"

Fire ==
  /\ TasksRun
  /\ ~kill_switch
  /\ ~LimitReached
  /\ Viable(binance_price, dex_price)
  /\ MayFire
  /\ LET stake == StakeOf(Capital) IN
       /\ CoversGas(stake, binance_price, dex_price)
       /\ execution_queue' = Append(execution_queue, stake)
  /\ sniper_state' = "FIRING"
  /\ inflight' = TRUE
  /\ cooldown' = Cooldown
  /\ UNCHANGED <<main_pc, kill_switch, cumulative_pnl, result_queue, prices,
                 startup, environment>>

-----------------------------------------------------------------------------
(* A worker takes a request and simulates it.  The stake is computed again *)
(* from the capital; the request's own is not read.  Without a valid       *)
(* wallet address to_checksum_address raises before anything else.         *)

(* Mutant: the workers wait for _running to be set by start's last step.   *)
WorkersNeverStart == TasksRun /\ executor = "reader"

WorkersRun == TasksRun /\ executor = "ready"

WorkerFills ==
  /\ WorkersRun
  /\ execution_queue # <<>>
  /\ wallet_ok
  /\ execution_queue' = Tail(execution_queue)
  /\ inflight' = FALSE
  /\ result_queue' =
       Append(result_queue, 0 - BetOf(StakeOf(Capital), binance_price))
  /\ UNCHANGED <<main_pc, kill_switch, sniper_state, cumulative_pnl, cooldown,
                 prices, startup, environment>>

WorkerFails ==
  /\ WorkersRun
  /\ execution_queue # <<>>
  /\ ~wallet_ok
  /\ execution_queue' = Tail(execution_queue)
  /\ inflight' = FALSE
  /\ UNCHANGED <<main_pc, kill_switch, sniper_state, cumulative_pnl, cooldown,
                 result_queue, prices, startup, environment>>

(* Mutant: on_execution_result forgets to return to ARMED.                 *)
BookResultStaysFiring ==
  /\ TasksRun
  /\ result_queue # <<>>
  /\ result_queue' = Tail(result_queue)
  /\ cumulative_pnl' = cumulative_pnl + Head(result_queue)
  /\ inflight' = FALSE
  /\ UNCHANGED <<main_pc, kill_switch, sniper_state, cooldown,
                 execution_queue, prices, startup, environment>>

(* result_loop hands a result to on_execution_result.                      *)
BookResult ==
  /\ TasksRun
  /\ result_queue # <<>>
  /\ result_queue' = Tail(result_queue)
  /\ cumulative_pnl' = cumulative_pnl + Head(result_queue)
  /\ inflight' = FALSE
  /\ sniper_state' = "ARMED"
  /\ UNCHANGED <<main_pc, kill_switch, cooldown, execution_queue, prices,
                 startup, environment>>

-----------------------------------------------------------------------------
(* run(): the wait for the kill switch, or Ctrl-C, and the finally block.  *)

(* Mutant: run() waits for the STOPPED state instead of the kill switch.   *)
LeaveLoopWhenStopped ==
  /\ main_pc = "loop"
  /\ sniper_state = "STOPPED"
  /\ main_pc' = "stopping"
  /\ UNCHANGED <<kill_switch, pipeline, prices, startup, environment>>

LeaveLoop ==
  /\ main_pc = "loop"
  /\ kill_switch
  /\ main_pc' = "stopping"
  /\ UNCHANGED <<kill_switch, pipeline, prices, startup, environment>>

Interrupt ==
  /\ main_pc = "loop"
  /\ main_pc' = "stopping"
  /\ UNCHANGED <<kill_switch, pipeline, prices, startup, environment>>

(* The feeds' stop() may suspend; engine.stop, executor.stop and the       *)
(* cancellations after them do not.                                        *)
StopTasks ==
  /\ main_pc = "stopping"
  /\ main_pc' = "cancelling"
  /\ executor' = "stopped"
  /\ UNCHANGED <<kill_switch, pipeline, prices, dex_router, poller, waits,
                 environment>>

MarkStopped ==
  /\ main_pc = "cancelling"
  /\ main_pc' = "done"
  /\ sniper_state' = "STOPPED"
  /\ UNCHANGED <<kill_switch, cumulative_pnl, inflight, cooldown,
                 execution_queue, result_queue, prices, startup, environment>>

Next ==
  \/ BinanceTick \/ RpcChange \/ Tick
  \/ ExecutorSetup \/ BuildDexReader
  \/ PollerWait \/ PollerGiveUp \/ PollStart \/ PollReply
  \/ ThrowKillSwitch \/ Fire
  \/ WorkerFills \/ WorkerFails \/ BookResult
  \/ LeaveLoop \/ Interrupt \/ StopTasks \/ MarkStopped

Spec == Init /\ [][Next]_vars

(* The loop runs every ready task and every sleep ends; the market, the    *)
(* nodes and the user owe nothing.                                         *)
Fairness ==
  /\ WF_vars(Tick)
  /\ WF_vars(ExecutorSetup) /\ WF_vars(BuildDexReader)
  /\ WF_vars(PollerWait) /\ WF_vars(PollerGiveUp)
  /\ WF_vars(PollStart) /\ WF_vars(PollReply)
  /\ WF_vars(ThrowKillSwitch) /\ WF_vars(Fire)
  /\ WF_vars(WorkerFills) /\ WF_vars(WorkerFails) /\ WF_vars(BookResult)
  /\ WF_vars(LeaveLoop) /\ WF_vars(StopTasks) /\ WF_vars(MarkStopped)

FairSpec == Spec /\ Fairness
-----------------------------------------------------------------------------
(* The ranges of the state variables of the pipeline and of its startup.   *)
TypeOK ==
  /\ main_pc \in {"loop", "stopping", "cancelling", "done"}
  /\ kill_switch \in BOOLEAN
  /\ sniper_state \in {"ARMED", "FIRING", "STOPPED"}
  /\ cumulative_pnl \in Int
  /\ inflight \in BOOLEAN
  /\ binance_price \in BinancePrices \cup {0}
  /\ dex_price \in DexPrices \cup {0}
  /\ cooldown \in 0 .. Cooldown
  /\ execution_queue \in Seq(Int)
  /\ result_queue \in Seq(Int)
  /\ executor \in {"setup", "reader", "ready", "crashed", "stopped"}
  /\ dex_router \in BOOLEAN
  /\ poller \in {"waiting", "idle", "reading", "stopped"}
  /\ waits \in 0 .. PollerPatience
  /\ wallet_ok \in BOOLEAN
  /\ rpc_up \in BOOLEAN

Pending == execution_queue # <<>> \/ result_queue # <<>>

(* With eight workers and two queues of 2000 places, at most one order is  *)
(* anywhere between _try_fire and on_execution_result.                     *)
SingleFlight == Len(execution_queue) + Len(result_queue) <= 1

(* What the panel shows is the pipeline's state: BNB is in flight exactly  *)
(* while a request waits for a worker, and, unless a worker has failed,    *)
(* the bot is FIRING exactly while an order is pending.                    *)
OrderStateAgrees ==
  /\ inflight <=> execution_queue # <<>>
  /\ wallet_ok /\ main_pc # "done" => (sniper_state = "FIRING" <=> Pending)

(* "Bot congelado": the kill switch finds no order in either queue, and    *)
(* none enters afterwards.                                                 *)
KillOverEmptyPipeline == kill_switch => ~Pending

(* The executor ignores the stake of a request and computes its own: the   *)
(* two agree, because no profit is booked while a request waits.           *)
StakeAgrees ==
  \A i \in DOMAIN execution_queue :
    execution_queue[i] = StakeOf(Capital)

(* The kill switch stops the loss within one bet of its limit.             *)
LossBounded == cumulative_pnl > KillLimit - MaxBet

(* After run() sets STOPPED no late result moves the state or the profit.  *)
StoppedIsFinal ==
  [][sniper_state = "STOPPED" => UNCHANGED <<sniper_state, cumulative_pnl>>]_vars

(* The whole pipeline behaves as a desk with one order slot.               *)
slotBar ==
  CASE execution_queue # <<>> -> "placed"
    [] execution_queue = <<>> /\ result_queue # <<>> -> "filled"
    [] ~Pending /\ sniper_state = "FIRING" -> "stuck"
    [] ~Pending /\ sniper_state # "FIRING" -> "idle"

dueBar == IF result_queue # <<>> THEN 0 - Head(result_queue) ELSE 0

Desk == INSTANCE OrderDesk WITH
  Limit   <- KillLimit,
  MaxLoss <- MaxBet,
  slot    <- slotBar,
  due     <- dueBar,
  ledger  <- cumulative_pnl,
  halted  <- kill_switch,
  closed  <- main_pc = "done"

DeskImplemented == Desk!DeskSpec

(* An order is settled, or the bot is shutting down.                       *)
OrderSettled == Pending ~> (~Pending \/ main_pc # "loop")

(* The kill switch, thrown by the arbitrage loop, brings run() to STOPPED. *)
KillStops == kill_switch ~> (sniper_state = "STOPPED")

(* What would make _try_fire fire but for the cooldown and an open order.  *)
Opportunity ==
  /\ main_pc = "loop"
  /\ ~kill_switch
  /\ Viable(binance_price, dex_price)
  /\ CoversGas(StakeOf(Capital), binance_price, dex_price)

JustFired == cooldown = Cooldown

(* "Dispara cuando el spread bruto - costos de tx > PROFIT_THRESHOLD_PCT": *)
(* an opportunity that lasts is fired at, again and again.                 *)
FiresWhenViable ==
  (Opportunity /\ executor = "ready") ~> (JustFired \/ ~Opportunity)

(* The same while the wallet is configured, which main.py does not check.  *)
FiresWithWallet ==
  (Opportunity /\ executor = "ready" /\ wallet_ok) ~> (JustFired \/ ~Opportunity)
=============================================================================
