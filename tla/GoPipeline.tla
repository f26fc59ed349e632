----------------------------- MODULE GoPipeline -----------------------------
(***************************************************************************)
(* The Go pipeline: the scan loop and the result drain of                  *)
(* go/internal/engine/arbitrage.go, the workers of                         *)
(* go/internal/executor/executor.go, the two buffered channels between     *)
(* them, and the atomics of SharedState they share.  Each goroutine takes  *)
(* one step per access that another goroutine can notice.  Amounts are     *)
(* cents.                                                                  *)
(***************************************************************************)
EXTENDS Integers, Sequences, FiniteSets

CONSTANTS
  NumAssets,        (* AssetCount                                          *)
  Workers,          (* the executor's goroutines                           *)
  ExecCap,          (* capacity of execCh                                  *)
  ResCap,           (* capacity of resCh                                   *)
  InitialCapital,
  KillThresholds,   (* values KillSwitchPnlUSD may be configured to        *)
  SweepEnabled,
  SweepThreshold,
  MaxMarkets        (* bounds the markets the feed ever lists              *)

ASSUME GoPipelineAssumption ==
  /\ NumAssets \in Nat \ {0}
  /\ IsFiniteSet(Workers)
  /\ ExecCap \in Nat \ {0}
  /\ ResCap \in Nat \ {0}
  /\ InitialCapital \in Nat
  /\ KillThresholds \subseteq Int
  /\ SweepEnabled \in BOOLEAN
  /\ SweepThreshold \in Nat
  /\ MaxMarkets \in Nat

Asset == 0 .. NumAssets - 1

VARIABLES
  book,           (* each asset's market: "none", "open" or "over"         *)
  listed,         (* how many markets the feed has listed                  *)
  killPnlCents,   (* fixed by New                                          *)
  killSwitch, sniperState,
  inflight,       (* inflightBits                                          *)
  firedWindow,    (* the assets whose flag is set                          *)
  wallet,         (* walletBalanceCents                                    *)
  cumulativePnl,  (* cumulativePnlCents                                    *)
  execCh, resCh,
  engine,         (* the scan loop: its place, asset and stake             *)
  drainer,        (* onResult: its place and asset                         *)
  worker,         (* each worker: its place, asset and sweep amount        *)
  done,           (* the done channel is closed                            *)
  lost,           (* assets of the results logged as "result channel full" *)
  swept           (* total of the logged sweeps                            *)

books    == <<book, listed>>
shared   == <<killSwitch, sniperState, inflight, wallet, cumulativePnl>>
channels == <<execCh, resCh>>
places   == <<engine, drainer, worker>>
vars == <<books, killPnlCents, shared, firedWindow, channels, places, done,
          lost, swept>>

Init ==
  /\ book = [a \in Asset |-> "none"]
  /\ listed = 0
  /\ killPnlCents \in KillThresholds
  /\ killSwitch = FALSE
  /\ sniperState = "ARMED"
  /\ inflight = {}
  /\ firedWindow = {}
  /\ wallet = InitialCapital
  /\ cumulativePnl = 0
  /\ execCh = <<>>
  /\ resCh = <<>>
  /\ engine = [at |-> "top", asset |-> 0, stake |-> 0]
  /\ drainer = [at |-> "idle", asset |-> 0]
  /\ worker = [w \in Workers |-> [at |-> "idle", asset |-> 0, amount |-> 0]]
  /\ done = FALSE
  /\ lost = {}
  /\ swept = 0

-----------------------------------------------------------------------------
(* The feed lists markets, time closes them, main closes the channel.      *)

NewBook(a) ==
  /\ listed < MaxMarkets
  /\ listed' = listed + 1
  /\ book' = [book EXCEPT ![a] = "open"]
  /\ UNCHANGED <<killPnlCents, shared, firedWindow, channels, places, done,
                 lost, swept>>

MarketCloses(a) ==
  /\ book[a] = "open"
  /\ book' = [book EXCEPT ![a] = "over"]
  /\ UNCHANGED <<listed, killPnlCents, shared, firedWindow, channels, places,
                 done, lost, swept>>

CloseDone ==
  /\ ~done
  /\ done' = TRUE
  /\ UNCHANGED <<books, killPnlCents, shared, firedWindow, channels, places,
                 lost, swept>>

(* Mutant: a channel takes one value more than its capacity.               *)
RoomForOneMore(ch, capacity) == Len(ch) <= capacity

(* A non-blocking send succeeds.                                           *)
Room(ch, capacity) == Len(ch) < capacity

-----------------------------------------------------------------------------
(* The scan loop.                                                          *)

MinStake == 100

(* Mutant: the whole balance is staked.                                    *)
StakeOfWholeBalance(balance) == balance

(* The stake for a balance in cents: $1.50, an eighth, or four fifths.     *)
StakeOf(balance) ==
  LET stake == CASE balance < 2000                      -> 150
                 [] balance >= 2000 /\ balance < 10000  -> balance \div 8
                 [] balance >= 10000                    -> (balance * 8) \div 10
  IN  IF stake > balance THEN balance ELSE stake

(* Mutant: a killed engine keeps scanning.                                 *)
StopsWhenDone == done

MustStop == done \/ killSwitch

ScanStop ==
  /\ engine.at = "top"
  /\ MustStop
  /\ engine' = [engine EXCEPT !.at = "returned"]
  /\ sniperState' = "STOPPED"
  /\ UNCHANGED <<books, killPnlCents, killSwitch, inflight, wallet,
                 cumulativePnl, firedWindow, channels, drainer, worker, done,
                 lost, swept>>

(* A scan starts, unless the tracker is in safety mode or no book is known.*)
ScanStart ==
  /\ engine.at = "top"
  /\ ~MustStop
  /\ \E a \in Asset : book[a] # "none"
  /\ engine' = [engine EXCEPT !.at = "asset", !.asset = 0]
  /\ UNCHANGED <<books, killPnlCents, shared, firedWindow, channels, drainer,
                 worker, done, lost, swept>>

(* The next asset of the scan, or the top of the loop after the last one.  *)
NextAsset ==
  engine' = IF engine.asset + 1 \in Asset
              THEN [engine EXCEPT !.at = "asset", !.asset = @ + 1]
              ELSE [engine EXCEPT !.at = "top", !.asset = 0]

(* Mutant: the bit in inflightBits is not looked at.                       *)
MayFireTwice(a) ==
  /\ book[a] = "open"
  /\ a \notin firedWindow
  /\ StakeOf(wallet) >= MinStake

(* What evaluateAsset asks of the shared state.                            *)
MayFire(a) ==
  /\ book[a] = "open"
  /\ a \notin firedWindow
  /\ a \notin inflight
  /\ StakeOf(wallet) >= MinStake

(* evaluateAsset returns false; a closed market clears the flag.  It may   *)
(* return false at any time: the close may be too far away, or the prices  *)
(* wrong.                                                                  *)
Skip ==
  /\ engine.at = "asset"
  /\ NextAsset
  /\ firedWindow' = IF book[engine.asset] = "over"
                      THEN firedWindow \ {engine.asset}
                      ELSE firedWindow
  /\ UNCHANGED <<books, killPnlCents, shared, channels, drainer, worker, done,
                 lost, swept>>

(* evaluateAsset up to SetInflight, near the close and at good prices.     *)
Fire ==
  /\ engine.at = "asset"
  /\ MayFire(engine.asset)
  /\ engine' = [engine EXCEPT !.at = "send", !.stake = StakeOf(wallet)]
  /\ sniperState' = "FIRING"
  /\ inflight' = inflight \cup {engine.asset}
  /\ UNCHANGED <<books, killPnlCents, killSwitch, wallet, cumulativePnl,
                 firedWindow, channels, drainer, worker, done, lost, swept>>

Send ==
  /\ engine.at = "send"
  /\ Room(execCh, ExecCap)
  /\ execCh' = Append(execCh, [asset |-> engine.asset, stake |-> engine.stake])
  /\ firedWindow' = firedWindow \cup {engine.asset}
  /\ NextAsset
  /\ UNCHANGED <<books, killPnlCents, shared, resCh, drainer, worker, done,
                 lost, swept>>

(* Mutant: a signal that finds the channel full leaves its bit set.        *)
DropSignalKeepsBit ==
  /\ engine.at = "send"
  /\ ~Room(execCh, ExecCap)
  /\ NextAsset
  /\ UNCHANGED <<books, killPnlCents, shared, firedWindow, channels, drainer,
                 worker, done, lost, swept>>

DropSignal ==
  /\ engine.at = "send"
  /\ ~Room(execCh, ExecCap)
  /\ inflight' = inflight \ {engine.asset}
  /\ NextAsset
  /\ UNCHANGED <<books, killPnlCents, killSwitch, sniperState, wallet,
                 cumulativePnl, firedWindow, channels, drainer, worker, done,
                 lost, swept>>

-----------------------------------------------------------------------------
(* drainResults and onResult.                                              *)

(* Mutant: onResult clears the bits of all assets.                         *)
ClearsAll == inflight

Clears == {drainer.asset}

Receive ==
  /\ drainer.at = "idle"
  /\ resCh # <<>>
  /\ resCh' = Tail(resCh)
  /\ drainer' = [at |-> "clear", asset |-> Head(resCh).asset]
  /\ cumulativePnl' = cumulativePnl + Head(resCh).pnl
  /\ wallet' = wallet + Head(resCh).pnl
  /\ UNCHANGED <<books, killPnlCents, killSwitch, sniperState, inflight,
                 firedWindow, execCh, engine, worker, done, lost, swept>>

ClearInflight ==
  /\ drainer.at = "clear"
  /\ inflight' = inflight \ Clears
  /\ drainer' = [drainer EXCEPT !.at = "check"]
  /\ UNCHANGED <<books, killPnlCents, killSwitch, sniperState, wallet,
                 cumulativePnl, firedWindow, channels, engine, worker, done,
                 lost, swept>>

CheckPnl ==
  /\ drainer.at = "check"
  /\ killSwitch' = (killSwitch \/ cumulativePnl <= killPnlCents)
  /\ drainer' = [drainer EXCEPT !.at = "idle"]
  /\ UNCHANGED <<books, killPnlCents, sniperState, inflight, wallet,
                 cumulativePnl, firedWindow, channels, engine, worker, done,
                 lost, swept>>

DrainerReturns ==
  /\ done
  /\ drainer.at = "idle"
  /\ drainer' = [drainer EXCEPT !.at = "returned"]
  /\ UNCHANGED <<books, killPnlCents, shared, firedWindow, channels, engine,
                 worker, done, lost, swept>>

-----------------------------------------------------------------------------
(* A worker of the executor.  It asks neither the kill switch nor the      *)
(* circuit breaker.                                                        *)

PayoutBonus == 250

Move(w, place) == worker' = [worker EXCEPT ![w].at = place]

Take(w) ==
  /\ worker[w].at = "idle"
  /\ execCh # <<>>
  /\ execCh' = Tail(execCh)
  /\ worker' = [worker EXCEPT ![w] = [at     |-> "credit",
                                      asset  |-> Head(execCh).asset,
                                      amount |-> 0]]
  /\ UNCHANGED <<books, killPnlCents, shared, firedWindow, resCh, engine,
                 drainer, done, lost, swept>>

Credit(w) ==
  /\ worker[w].at = "credit"
  /\ wallet' = wallet + PayoutBonus
  /\ Move(w, IF SweepEnabled THEN "balance" ELSE "reply")
  /\ UNCHANGED <<books, killPnlCents, killSwitch, sniperState, inflight,
                 cumulativePnl, firedWindow, channels, engine, drainer, done,
                 lost, swept>>

(* profitSweep reads the balance here and subtracts in the next step.      *)
SweepRead(w) ==
  /\ worker[w].at = "balance"
  /\ LET excess == wallet - SweepThreshold
         amount == IF PayoutBonus < excess THEN PayoutBonus ELSE excess
     IN  worker' = IF excess > 0
                     THEN [worker EXCEPT ![w].at = "sweep", ![w].amount = amount]
                     ELSE [worker EXCEPT ![w].at = "reply"]
  /\ UNCHANGED <<books, killPnlCents, shared, firedWindow, channels, engine,
                 drainer, done, lost, swept>>

(* Mutant: the threshold is stored, nothing is subtracted.                 *)
SweptBalanceStale(w) == SweepThreshold

SweptBalance(w) == wallet - worker[w].amount

SweepWrite(w) ==
  /\ worker[w].at = "sweep"
  /\ wallet' = SweptBalance(w)
  /\ swept' = swept + worker[w].amount
  /\ Move(w, "reply")
  /\ UNCHANGED <<books, killPnlCents, killSwitch, sniperState, inflight,
                 cumulativePnl, firedWindow, channels, engine, drainer, done,
                 lost>>

Reply(w) ==
  /\ worker[w].at = "reply"
  /\ Room(resCh, ResCap)
  /\ resCh' = Append(resCh, [asset |-> worker[w].asset, pnl |-> PayoutBonus])
  /\ Move(w, "idle")
  /\ UNCHANGED <<books, killPnlCents, shared, firedWindow, execCh, engine,
                 drainer, done, lost, swept>>

DropResult(w) ==
  /\ worker[w].at = "reply"
  /\ ~Room(resCh, ResCap)
  /\ lost' = lost \cup {worker[w].asset}
  /\ Move(w, "idle")
  /\ UNCHANGED <<books, killPnlCents, shared, firedWindow, channels, engine,
                 drainer, done, swept>>

WorkerReturns(w) ==
  /\ done
  /\ worker[w].at = "idle"
  /\ Move(w, "returned")
  /\ UNCHANGED <<books, killPnlCents, shared, firedWindow, channels, engine,
                 drainer, done, lost, swept>>

-----------------------------------------------------------------------------
EngineStep  == ScanStop \/ ScanStart \/ Skip \/ Fire \/ Send \/ DropSignal
DrainerStep == Receive \/ ClearInflight \/ CheckPnl \/ DrainerReturns
WorkerStep(w) ==
  \/ Take(w) \/ Credit(w) \/ SweepRead(w) \/ SweepWrite(w)
  \/ Reply(w) \/ DropResult(w) \/ WorkerReturns(w)

Next ==
  \/ \E a \in Asset : NewBook(a) \/ MarketCloses(a)
  \/ CloseDone
  \/ EngineStep
  \/ DrainerStep
  \/ \E w \in Workers : WorkerStep(w)

Spec == Init /\ [][Next]_vars

(* Go schedules every goroutine that can run; markets owe nothing.         *)
FairSpec ==
  /\ Spec
  /\ WF_vars(EngineStep)
  /\ WF_vars(DrainerStep)
  /\ \A w \in Workers : WF_vars(WorkerStep(w))

-----------------------------------------------------------------------------
(* Where an order for an asset is: being sent, in execCh, with a worker,   *)
(* in resCh, or received and not cleared yet.                              *)
AtPlace(a) == [
  request |-> {i \in DOMAIN execCh : execCh[i].asset = a},
  result  |-> {i \in DOMAIN resCh : resCh[i].asset = a},
  worker  |-> {w \in Workers : worker[w].asset = a
                               /\ worker[w].at \notin {"idle", "returned"}},
  engine  |-> {e \in {1} : engine.at = "send" /\ engine.asset = a},
  drainer |-> {d \in {1} : drainer.at = "clear" /\ drainer.asset = a}]

Orders(a) ==
  UNION { {place} \X AtPlace(a)[place] : place \in DOMAIN AtPlace(a) }

(* The shapes of the channels and of the goroutines' places.               *)
TypeOK ==
  /\ book \in [Asset -> {"none", "open", "over"}]
  /\ listed \in 0 .. MaxMarkets
  /\ killPnlCents \in KillThresholds
  /\ killSwitch \in BOOLEAN
  /\ sniperState \in {"ARMED", "FIRING", "STOPPED"}
  /\ inflight \subseteq Asset
  /\ firedWindow \subseteq Asset
  /\ wallet \in Int
  /\ cumulativePnl \in Int
  /\ execCh \in Seq([asset : Asset, stake : Int]) /\ Len(execCh) <= ExecCap
  /\ resCh \in Seq([asset : Asset, pnl : {PayoutBonus}]) /\ Len(resCh) <= ResCap
  /\ engine \in [at : {"top", "asset", "send", "returned"}, asset : Asset,
                 stake : Int]
  /\ drainer \in [at : {"idle", "clear", "check", "returned"}, asset : Asset]
  /\ worker \in [Workers -> [at : {"idle", "credit", "balance", "sweep",
                                   "reply", "returned"},
                             asset : Asset, amount : Int]]
  /\ done \in BOOLEAN
  /\ lost \subseteq Asset
  /\ swept \in Int

(* evaluateAsset's checks and onResult's clearing keep the orders of an    *)
(* asset apart: never two at once, through any window, drop or late reply. *)
OneOrderPerAsset == \A a \in Asset : \A p, q \in Orders(a) : p = q

(* inflightBits tells exactly which assets have an order somewhere, and    *)
(* those whose result met a full channel keep their bit for good.          *)
InflightAgrees == inflight = {a \in Asset : Orders(a) # {}} \cup lost

(* Workers that credit, sweep and reply, and the drain, lose no amount:    *)
(* each order has paid its bonus once when the worker is past the credit,  *)
(* and once more when its result is received.                              *)
Credited == { w \in Workers : worker[w].at \in {"balance", "sweep", "reply"} }

WalletBalances ==
  wallet + swept =
    InitialCapital + 2 * cumulativePnl
      + PayoutBonus * (Cardinality(Credited) + Len(resCh) + Cardinality(lost))

(* The engine checks a stake against the balance it read; the balance may  *)
(* be swept meanwhile and still covers the stake of every queued request.  *)
StakeCovered == \A i \in DOMAIN execCh : execCh[i].stake <= wallet

(* The assets of the orders with the workers at these places.             *)
AtWorker(stations) ==
  { a \in Asset : \E w \in Workers : worker[w].at \in stations /\ worker[w].asset = a }

(* The assets of the orders in a channel.                                  *)
Carried(ch) == { a \in Asset : \E i \in DOMAIN ch : ch[i].asset = a }

(* The stations of AssetDesk in the places of the pipeline: a worker's     *)
(* order is filled once it has credited its bonus.                         *)
placedBar == { a \in Asset : engine.at = "send" /\ engine.asset = a }
queuedBar == Carried(execCh) \cup AtWorker({"credit"})
filledBar == AtWorker({"balance", "sweep", "reply"}) \cup Carried(resCh)
bookedBar == { a \in Asset : drainer.at = "clear" /\ drainer.asset = a }

Desk == INSTANCE AssetDesk WITH
  Assets  <- Asset,
  Capital <- InitialCapital,
  Bonus   <- PayoutBonus,
  placed  <- placedBar,
  queued  <- queuedBar,
  filled  <- filledBar,
  booked  <- bookedBar,
  open    <- engine.at # "returned",
  earned  <- wallet + swept,
  ledger  <- cumulativePnl

(* The pipeline behaves as a desk with one slot per asset, whatever is     *)
(* dropped, swept or late: no order is placed while another of its asset   *)
(* is anywhere, none is paid twice at one place or booked unpaid, and none *)
(* is placed after the scan loop has returned.                             *)
DeskImplemented == Desk!DeskSpec

(* An order in flight is cleared, unless its result meets a full channel   *)
(* or main closes done.                                                    *)
OrderResolved ==
  \A a \in Asset : a \in inflight ~> (a \notin inflight \/ a \in lost \/ done)

(* The kill switch stops the scan loop, and what was sent before drains.   *)
KillDrains ==
  killSwitch ~> (done \/ (sniperState = "STOPPED" /\ \A a \in Asset : Orders(a) = {}))

(* "Kill switch: corta todo si PnL acumulado cruza umbral negativo": it is *)
(* not thrown while the accumulated profit is positive.                    *)
KillOnlyOnLoss == killSwitch => cumulativePnl < 0
=============================================================================
