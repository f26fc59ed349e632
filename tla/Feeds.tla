------------------------------- MODULE Feeds -------------------------------
(***************************************************************************)
(* The two market feeds as main.run() starts and stops them: CryptoFeed    *)
(* and PancakeMonitor are tasks of one event loop, their services fail and *)
(* come back at any time, and the finally block of run() stops the feeds,  *)
(* cancels the tasks and waits for them before the process ends.           *)
(***************************************************************************)
EXTENDS Naturals, Sequences

CONSTANTS MaxMoves, HttpPool, WssPool, MaxEpoch, Reliable

ASSUME FeedsAssumption ==
  /\ MaxMoves \in Nat \ {0} /\ MaxEpoch \in Nat \ {0}
  /\ HttpPool \in Seq(STRING)
  /\ WssPool \in Seq(STRING) /\ WssPool # <<>>

VARIABLES
  calm,    (* from now on the services in Reliable answer                   *)
  phase,   (* run(): "running", "closing" (awaits crypto.stop), "cancelled" *)
           (* (awaits gather), "exited"                                     *)
  crypto_running, feed, ws, seed, quote, price, market,
  monitor_running, monitor, thread, contract, node, reading, pancake, chain

Crypto  == INSTANCE CryptoFeed
Monitor == INSTANCE PancakeMonitor

cryptoVars  == <<crypto_running, feed, ws, seed, quote, price, market>>
monitorVars == <<monitor_running, monitor, thread, contract, node, reading,
                 pancake, chain>>
vars == <<calm, phase, cryptoVars, monitorVars>>

Init ==
  /\ calm = FALSE
  /\ phase = "running"
  /\ Crypto!CryptoInit /\ Monitor!MonitorInit

NetworkCalms ==
  /\ ~calm /\ calm' = TRUE
  /\ UNCHANGED <<phase, cryptoVars, monitorVars>>

MarketMoves == Crypto!MarketMoves /\ UNCHANGED <<calm, phase, monitorVars>>
EpochMoves  == Monitor!EpochMoves /\ UNCHANGED <<calm, phase, cryptoVars>>

FeedTask    == Crypto!FeedTask /\ UNCHANGED <<calm, phase, monitorVars>>
Seeding(s)  == Crypto!Seeding(s) /\ UNCHANGED <<calm, phase, monitorVars>>
MonitorTask == Monitor!MonitorTask /\ UNCHANGED <<calm, phase, cryptoVars>>

(* The kill switch, seen by run(), or Ctrl-C, once the tasks have begun.   *)
StopCrypto ==
  /\ phase = "running" /\ feed # "new" /\ monitor # "new"
  /\ phase' = "closing"
  /\ Crypto!StopFeed
  /\ UNCHANGED <<calm, monitorVars>>

(* monitor.stop and the cancellations do not suspend.                      *)
CancelTasks ==
  /\ phase = "closing"
  /\ phase' = "cancelled"
  /\ Monitor!StopMonitor
  /\ UNCHANGED <<calm, cryptoVars>>

(* gather, then the end of asyncio.run, which also joins the threads.      *)
Exit ==
  /\ phase = "cancelled"
  /\ feed = "dead" /\ monitor \in {"dead", "fatal"} /\ ~thread
  /\ phase' = "exited"
  /\ Crypto!DropBackgroundSeed
  /\ UNCHANGED <<calm, monitorVars>>

Shutdown == CancelTasks \/ Exit

Next ==
  \/ NetworkCalms \/ MarketMoves \/ EpochMoves
  \/ FeedTask \/ MonitorTask \/ \E s \in Crypto!Seeds : Seeding(s)
  \/ StopCrypto \/ Shutdown

Spec == Init /\ [][Next]_vars

(* The event loop runs what is ready, every request has a time-out, and a  *)
(* service that is up sends ticks and blocks.                              *)
FairSpec ==
  /\ Spec
  /\ WF_vars(FeedTask) /\ WF_vars(MonitorTask) /\ WF_vars(Shutdown)
  /\ \A s \in {"background", "fallback"} : WF_vars(Seeding(s))

(***************************************************************************)
(* Properties.                                                             *)
(***************************************************************************)
TypeOK ==
  /\ calm \in BOOLEAN
  /\ phase \in {"running", "closing", "cancelled", "exited"}
  /\ Crypto!CryptoTypeOK /\ Monitor!MonitorTypeOK

(* Once run() has cancelled its tasks the shared state is frozen: a read   *)
(* that is still going on in its thread publishes nothing.  Two exceptions *)
(* end before the process does: the seed task, which nobody cancels, may   *)
(* still store its prices, and a header that had arrived before the        *)
(* cancellation may still be read, as the last step of the monitor.        *)
FrozenAfterCancel ==
  [][/\ phase = "cancelled" =>
          /\ pancake' = pancake \/ (monitor = "late" /\ monitor' = "dead")
          /\ price' = price \/ seed["background"] = "served"
     /\ phase = "exited" => UNCHANGED <<pancake, price>>]_vars

(* Binance reliable at last, which includes that its ticks say a price:    *)
(* whatever crashes came before, the price settles on the market; a 0.0    *)
(* that was published, or a stale REST answer that overwrote a newer tick, *)
(* is only a passing error.                                                *)
SettlesOnMarket ==
  "binance" \in Reliable /\ <>[](calm /\ phase = "running")
    => <>[](price = market)

(* One WebSocket node and the contract's node reliable at last, and the    *)
(* latter up to date: the monitor rotates to the former and publishes the  *)
(* current epoch, also after a lagging answer has moved the published one  *)
(* back.  If the start found no HTTP node at all, or bound the contract to *)
(* one that fails for good, nothing is promised: neither is tried again.   *)
FollowsChain ==
  /\ \E i \in DOMAIN WssPool : WssPool[i] \in Reliable
  /\ <>[](/\ calm /\ phase = "running"
          /\ contract # 0 /\ HttpPool[contract] \in Reliable)
    => <>[](pancake = chain)

(* The finally block of run() comes to an end in every state of the feeds. *)
ShutdownCompletes == phase = "closing" ~> phase = "exited"
=============================================================================
