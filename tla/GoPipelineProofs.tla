------------------------- MODULE GoPipelineProofs --------------------------
(***************************************************************************)
(* Type correctness of GoPipeline, that an asset never has two orders,     *)
(* that the bits of inflightBits are exact, that the wallet balances and   *)
(* the sweeps leave the capital and the queued stakes, and the refinement  *)
(* of AssetDesk, for any number of assets and workers and channels of any  *)
(* capacity.                                                               *)
(***************************************************************************)
EXTENDS GoPipeline, SequenceTheorems, FiniteSetTheorems, TLAPS

Requests == [asset : Asset, stake : Int]
Results  == [asset : Asset, pnl : {PayoutBonus}]

Busy(w)  == worker[w].at \notin {"idle", "returned"}
Sending  == engine.at = "send"
Clearing == drainer.at = "clear"

(* An order for a is somewhere.                                            *)
Present(a) ==
  \/ \E i \in 1 .. Len(execCh) : execCh[i].asset = a
  \/ \E i \in 1 .. Len(resCh) : resCh[i].asset = a
  \/ \E w \in Workers : Busy(w) /\ worker[w].asset = a
  \/ Sending /\ engine.asset = a
  \/ Clearing /\ drainer.asset = a

(* The orders of an asset are not in two places, nor twice in one.         *)
Apart ==
  /\ \A i, j \in 1 .. Len(execCh) : execCh[i].asset = execCh[j].asset => i = j
  /\ \A i, j \in 1 .. Len(resCh) : resCh[i].asset = resCh[j].asset => i = j
  /\ \A i \in 1 .. Len(execCh) : \A j \in 1 .. Len(resCh) :
       execCh[i].asset # resCh[j].asset
  /\ \A w, v \in Workers :
       Busy(w) /\ Busy(v) /\ worker[w].asset = worker[v].asset => w = v
  /\ \A w \in Workers : Busy(w) =>
       /\ \A i \in 1 .. Len(execCh) : execCh[i].asset # worker[w].asset
       /\ \A i \in 1 .. Len(resCh) : resCh[i].asset # worker[w].asset
  /\ Sending =>
       /\ \A i \in 1 .. Len(execCh) : execCh[i].asset # engine.asset
       /\ \A i \in 1 .. Len(resCh) : resCh[i].asset # engine.asset
       /\ \A w \in Workers : Busy(w) => worker[w].asset # engine.asset
       /\ Clearing => drainer.asset # engine.asset
  /\ Clearing =>
       /\ \A i \in 1 .. Len(execCh) : execCh[i].asset # drainer.asset
       /\ \A i \in 1 .. Len(resCh) : resCh[i].asset # drainer.asset
       /\ \A w \in Workers : Busy(w) => worker[w].asset # drainer.asset

(* A bit is set for an order or for a lost result, never for both.         *)
Bits ==
  /\ \A a \in Asset : a \in inflight <=> Present(a) \/ a \in lost
  /\ \A a \in lost : ~Present(a)

IInv == TypeOK /\ Apart /\ Bits

-----------------------------------------------------------------------------
(* What a send leaves in a channel.                                        *)
LEMMA Sent ==
  ASSUME NEW S, NEW ch \in Seq(S), NEW x \in S
  PROVE  /\ Append(ch, x) \in Seq(S) /\ Len(Append(ch, x)) = Len(ch) + 1
         /\ \A i \in 1 .. Len(ch) : Append(ch, x)[i] = ch[i]
         /\ Append(ch, x)[Len(ch) + 1] = x
  OBVIOUS

(* What a receive leaves in a channel.                                     *)
LEMMA Received ==
  ASSUME NEW S, NEW ch \in Seq(S), ch # <<>>
  PROVE  /\ Tail(ch) \in Seq(S) /\ Len(Tail(ch)) = Len(ch) - 1
         /\ \A i \in 1 .. Len(ch) - 1 : Tail(ch)[i] = ch[i + 1]
         /\ Head(ch) = ch[1] /\ Head(ch) \in S /\ 1 \in 1 .. Len(ch)
  OBVIOUS

(* Every request of a channel has a stake.                                 *)
LEMMA RequestTyped ==
  ASSUME NEW ch \in Seq(Requests), NEW i \in 1 .. Len(ch)
  PROVE  ch[i].stake \in Int
<1>1. ch[i] \in Requests
  OBVIOUS
<1> QED
  BY <1>1 DEF Requests

(* A stake is a whole number of cents.                                     *)
LEMMA StakeTyped == ASSUME NEW balance \in Int PROVE StakeOf(balance) \in Int
  BY DEF StakeOf

(* The next asset of the scan is an asset, and nothing is being sent.      *)
LEMMA NextAssetTyped ==
  ASSUME TypeOK, NextAsset
  PROVE  /\ engine' \in [at : {"top", "asset", "send", "returned"},
                         asset : Asset, stake : Int]
         /\ engine'.at # "send"
<1> DEFINE Engines == [at : {"top", "asset", "send", "returned"}, asset : Asset,
                       stake : Int]
<1>1. 0 \in Asset
  BY GoPipelineAssumption DEF Asset
<1>2. engine \in Engines
  BY DEF TypeOK
<1>3. CASE engine.asset + 1 \in Asset
  <2>1. engine' = [[engine EXCEPT !.at = "asset"] EXCEPT !.asset = engine.asset + 1]
    BY <1>3 DEF NextAsset
  <2> QED
    BY <1>2, <1>3, <2>1
<1>4. CASE engine.asset + 1 \notin Asset
  <2>1. engine' = [[engine EXCEPT !.at = "top"] EXCEPT !.asset = 0]
    BY <1>4 DEF NextAsset
  <2> QED
    BY <1>1, <1>2, <2>1
<1> QED
  BY <1>3, <1>4

Engines == [at : {"top", "asset", "send", "returned"}, asset : Asset, stake : Int]
Stations == {"idle", "credit", "balance", "sweep", "reply", "returned"}
WorkerStates == [at : Stations, asset : Asset, amount : Int]

(* A worker that moves keeps its order, and the others keep theirs.        *)
LEMMA Moved ==
  ASSUME TypeOK, NEW w \in Workers, NEW place \in Stations, Move(w, place)
  PROVE  /\ worker' \in [Workers -> WorkerStates]
         /\ worker'[w].at = place /\ worker'[w].asset = worker[w].asset
         /\ \A v \in Workers \ {w} : worker'[v] = worker[v]
<1>1. worker \in [Workers -> WorkerStates]
  BY DEF TypeOK, WorkerStates, Stations
<1>2. worker' = [worker EXCEPT ![w] = [worker[w] EXCEPT !.at = place]]
  BY DEF Move
<1>3. [worker[w] EXCEPT !.at = place] \in WorkerStates
  BY <1>1 DEF WorkerStates
<1>4. worker'[w] = [worker[w] EXCEPT !.at = place]
  BY <1>1, <1>2
<1> QED
  BY <1>1, <1>2, <1>3, <1>4 DEF WorkerStates

(* profitSweep moves the worker and may note an amount.                    *)
LEMMA SweepReadMoves ==
  ASSUME TypeOK, NEW w \in Workers, SweepRead(w)
  PROVE  /\ worker' \in [Workers -> WorkerStates]
         /\ worker'[w].at \in {"sweep", "reply"} /\ worker'[w].asset = worker[w].asset
         /\ \A v \in Workers \ {w} : worker'[v] = worker[v]
<1> DEFINE excess == wallet - SweepThreshold
           amount == IF PayoutBonus < excess THEN PayoutBonus ELSE excess
           next == IF excess > 0
                     THEN [at |-> "sweep", asset |-> worker[w].asset, amount |-> amount]
                     ELSE [worker[w] EXCEPT !.at = "reply"]
<1>1. worker \in [Workers -> WorkerStates] /\ wallet \in Int
  BY DEF TypeOK, WorkerStates, Stations
<1>2. amount \in Int
  BY <1>1, GoPipelineAssumption DEF PayoutBonus
<1>3. next \in WorkerStates /\ next.at \in {"sweep", "reply"}
      /\ next.asset = worker[w].asset
  <2> HIDE DEF amount, excess
  <2> QED
    BY <1>1, <1>2 DEF WorkerStates, Stations
<1>4. worker' = [worker EXCEPT ![w] = next]
  <2>1. CASE excess > 0
    <3>1. worker' = [[worker EXCEPT ![w].at = "sweep"] EXCEPT ![w].amount = amount]
      BY <2>1 DEF SweepRead
    <3> HIDE DEF amount, excess
    <3>2. [[worker[w] EXCEPT !.at = "sweep"] EXCEPT !.amount = amount] = next
      <4> DEFINE moved == [worker[w] EXCEPT !.at = "sweep"]
      <4>1. /\ moved \in WorkerStates /\ moved.at = "sweep"
            /\ moved.asset = worker[w].asset
        BY <1>1 DEF WorkerStates, Stations
      <4> HIDE DEF moved
      <4>2. [moved EXCEPT !.amount = amount]
              = [at |-> moved.at, asset |-> moved.asset, amount |-> amount]
        BY <4>1 DEF WorkerStates
      <4> QED
        BY <2>1, <4>1, <4>2 DEF moved
    <3>3. worker' = [worker EXCEPT ![w] =
                       [[worker[w] EXCEPT !.at = "sweep"] EXCEPT !.amount = amount]]
      BY <1>1, <3>1
    <3> QED
      BY <3>2, <3>3
  <2>2. CASE ~(excess > 0)
    BY <2>2 DEF SweepRead
  <2> QED
    BY <2>1, <2>2
<1> HIDE DEF next
<1>5. worker'[w] = next
  BY <1>1, <1>4
<1> QED
  BY <1>1, <1>3, <1>4, <1>5

(* It never notes more than the bonus it has credited.                     *)
LEMMA SweepReadAmount ==
  ASSUME TypeOK, NEW w \in Workers, SweepRead(w), worker'[w].at = "sweep"
  PROVE  worker'[w].amount <= PayoutBonus
<1> DEFINE excess == wallet - SweepThreshold
           amount == IF PayoutBonus < excess THEN PayoutBonus ELSE excess
<1>1. worker \in [Workers -> WorkerStates] /\ wallet \in Int
  BY DEF TypeOK, WorkerStates, Stations
<1>2. amount <= PayoutBonus
  BY <1>1, GoPipelineAssumption DEF PayoutBonus
<1>3. CASE excess > 0
  <2>1. worker' = [[worker EXCEPT ![w].at = "sweep"] EXCEPT ![w].amount = amount]
    BY <1>3 DEF SweepRead
  <2> HIDE DEF amount
  <2> DEFINE moved == [worker EXCEPT ![w].at = "sweep"]
  <2>2. moved[w] = [worker[w] EXCEPT !.at = "sweep"] /\ DOMAIN moved = Workers
    BY <1>1
  <2>3. worker'[w] = [moved[w] EXCEPT !.amount = amount]
    BY <2>1, <2>2
  <2>4. worker'[w].amount = amount
    BY <1>1, <2>2, <2>3 DEF WorkerStates
  <2> QED
    BY <1>2, <2>4
<1>4. CASE ~(excess > 0)
  <2>1. worker' = [worker EXCEPT ![w].at = "reply"]
    BY <1>4 DEF SweepRead
  <2> QED
    BY <1>1, <2>1 DEF WorkerStates
<1> QED
  BY <1>3, <1>4

(* The pipeline starts empty.                                              *)
LEMMA InitIInv == Init => IInv
<1> SUFFICES ASSUME Init PROVE IInv
  OBVIOUS
<1> USE GoPipelineAssumption DEF Init
<1>1. TypeOK
  BY DEF TypeOK, Asset
<1>2. Apart
  BY DEF Apart, Busy, Sending, Clearing
<1>3. Bits
  BY DEF Bits, Present, Busy, Sending, Clearing
<1> QED
  BY <1>1, <1>2, <1>3 DEF IInv

-----------------------------------------------------------------------------
(* Every step keeps the ranges.                                            *)
LEMMA StepTypeOK == TypeOK /\ [Next]_vars => TypeOK'
<1> SUFFICES ASSUME TypeOK, [Next]_vars PROVE TypeOK'
  OBVIOUS
<1> USE GoPipelineAssumption
    DEF TypeOK, books, shared, channels, places, Move, PayoutBonus
<1>1. CASE UNCHANGED vars
  BY <1>1 DEF vars
<1>2. ASSUME NEW a \in Asset, NewBook(a) \/ MarketCloses(a) PROVE TypeOK'
  BY <1>2 DEF NewBook, MarketCloses
<1>3. CASE CloseDone
  BY <1>3 DEF CloseDone
<1>4. CASE ScanStop \/ ScanStart
  <2>1. 0 \in Asset
    BY DEF Asset
  <2> QED
    BY <1>4, <2>1 DEF ScanStop, ScanStart
<1>5. CASE Skip
  BY <1>5, NextAssetTyped DEF Skip
<1>6. CASE Fire
  <2>1. StakeOf(wallet) \in Int
    BY StakeTyped
  <2>2. engine' = [[engine EXCEPT !.at = "send"] EXCEPT !.stake = StakeOf(wallet)]
    BY <1>6 DEF Fire
  <2>3. engine' \in Engines
    BY <2>1, <2>2 DEF Engines
  <2>4. inflight' \subseteq Asset
    BY <1>6 DEF Fire
  <2> QED
    BY <1>6, <2>3, <2>4 DEF Fire, Engines
<1>7. CASE Send
  <2>1. [asset |-> engine.asset, stake |-> engine.stake] \in Requests
    BY DEF Requests
  <2>2. /\ execCh' \in Seq(Requests) /\ Len(execCh') <= ExecCap
    BY <1>7, <2>1, Sent DEF Send, Room, Requests
  <2>3. engine' \in [at : {"top", "asset", "send", "returned"}, asset : Asset,
                     stake : Int]
    BY <1>7, NextAssetTyped DEF Send
  <2> QED
    BY <1>7, <2>2, <2>3 DEF Send, Requests
<1>8. CASE DropSignal
  BY <1>8, NextAssetTyped DEF DropSignal
<1>9. CASE Receive
  <2>1. resCh \in Seq(Results) /\ resCh # <<>> /\ Len(resCh) <= ResCap
    BY <1>9 DEF Receive, Results
  <2>2. /\ resCh' \in Seq(Results) /\ Len(resCh') = Len(resCh) - 1
        /\ Head(resCh) \in Results
    BY <1>9, <2>1, Received DEF Receive
  <2>3. Len(resCh') <= ResCap
    BY <2>1, <2>2
  <2>4. drainer' \in [at : {"idle", "clear", "check", "returned"}, asset : Asset]
        /\ cumulativePnl' \in Int /\ wallet' \in Int
    BY <1>9, <2>2 DEF Receive, Results
  <2> QED
    BY <1>9, <2>2, <2>3, <2>4 DEF Receive, Results
<1>10. CASE ClearInflight \/ CheckPnl \/ DrainerReturns
  <2>1. CASE ClearInflight
    BY <2>1 DEF ClearInflight
  <2>2. CASE CheckPnl
    BY <2>2 DEF CheckPnl
  <2>3. CASE DrainerReturns
    BY <2>3 DEF DrainerReturns
  <2> QED
    BY <1>10, <2>1, <2>2, <2>3
<1>11. ASSUME NEW w \in Workers, Take(w) PROVE TypeOK'
  <2>1. execCh \in Seq(Requests) /\ execCh # <<>> /\ Len(execCh) <= ExecCap
    BY <1>11 DEF Take, Requests
  <2>2. /\ execCh' \in Seq(Requests) /\ Len(execCh') = Len(execCh) - 1
        /\ Head(execCh) \in Requests
    BY <1>11, <2>1, Received DEF Take
  <2>3. Len(execCh') <= ExecCap
    BY <2>1, <2>2
  <2>4. worker' \in [Workers -> WorkerStates]
    BY <1>11, <2>2 DEF Take, Requests, WorkerStates, Stations
  <2> QED
    BY <1>11, <2>2, <2>3, <2>4 DEF Take, Requests, WorkerStates, Stations
<1>12. ASSUME NEW w \in Workers, Credit(w) \/ SweepRead(w) \/ SweepWrite(w) PROVE TypeOK'
  <2>1. worker' \in [Workers -> WorkerStates]
    <3> HIDE DEF Move, TypeOK
    <3> QED
      BY <1>12, Moved, SweepReadMoves DEF Credit, SweepWrite, Stations
  <2>2. wallet' \in Int /\ swept' \in Int
    BY <1>12 DEF Credit, SweepRead, SweepWrite, SweptBalance
  <2> QED
    BY <1>12, <2>1, <2>2 DEF Credit, SweepRead, SweepWrite, WorkerStates, Stations
<1>13. ASSUME NEW w \in Workers, Reply(w) PROVE TypeOK'
  <2>1. [asset |-> worker[w].asset, pnl |-> PayoutBonus] \in Results
    BY DEF Results
  <2>2. /\ resCh' \in Seq(Results) /\ Len(resCh') <= ResCap
    BY <1>13, <2>1, Sent DEF Reply, Room, Results
  <2>3. worker' \in [Workers -> WorkerStates]
    <3> HIDE DEF Move, TypeOK
    <3> QED
      BY <1>13, Moved DEF Reply, Stations
  <2> QED
    BY <1>13, <2>2, <2>3 DEF Reply, Results, WorkerStates, Stations
<1>14. ASSUME NEW w \in Workers, DropResult(w) \/ WorkerReturns(w) PROVE TypeOK'
  <2>1. worker' \in [Workers -> WorkerStates]
    <3> HIDE DEF Move, TypeOK
    <3> QED
      BY <1>14, Moved DEF DropResult, WorkerReturns, Stations
  <2>2. lost' \subseteq Asset
    BY <1>14 DEF DropResult, WorkerReturns
  <2> QED
    BY <1>14, <2>1, <2>2 DEF DropResult, WorkerReturns, WorkerStates, Stations
<1> QED
  BY <1>1, <1>2, <1>3, <1>4, <1>5, <1>6, <1>7, <1>8, <1>9, <1>10, <1>11, <1>12,
     <1>13, <1>14
  DEF Next, EngineStep, DrainerStep, WorkerStep

-----------------------------------------------------------------------------
(* Steps after which every order is where it was, with the same bits.      *)
LEMMA OrdersUnmoved ==
  ASSUME IInv, TypeOK', UNCHANGED <<channels, inflight, lost>>,
         Sending' = Sending, Sending => engine'.asset = engine.asset,
         Clearing' = Clearing, Clearing => drainer'.asset = drainer.asset,
         \A w \in Workers : Busy(w)' = Busy(w) /\ worker'[w].asset = worker[w].asset
  PROVE  IInv'
<1>1. Apart'
  BY DEF IInv, Apart, channels
<1>2. \A a : Present(a)' <=> Present(a)
  BY DEF Present, channels
<1>3. Bits'
  BY <1>2 DEF IInv, Bits
<1> QED
  BY <1>1, <1>3 DEF IInv

(* The feed, time, main, and the steps that handle no order.               *)
LEMMA QuietStep ==
  ASSUME IInv, TypeOK',
         \/ UNCHANGED vars \/ CloseDone
         \/ \E a \in Asset : NewBook(a) \/ MarketCloses(a)
         \/ ScanStop \/ ScanStart \/ Skip \/ CheckPnl \/ DrainerReturns
         \/ \E w \in Workers :
              Credit(w) \/ SweepRead(w) \/ SweepWrite(w) \/ WorkerReturns(w)
  PROVE  IInv'
<1> USE DEF Busy, Sending, Clearing, books, shared, channels, places
<1>1. CASE UNCHANGED vars \/ CloseDone \/ \E a \in Asset : NewBook(a) \/ MarketCloses(a)
  <2>1. UNCHANGED <<channels, inflight, lost, places>>
    BY <1>1 DEF vars, CloseDone, NewBook, MarketCloses
  <2> QED
    BY <2>1, OrdersUnmoved
<1>2. CASE ScanStop \/ ScanStart
  <2>1. UNCHANGED <<channels, inflight, lost, drainer, worker>>
    BY <1>2 DEF ScanStop, ScanStart
  <2>2. engine.at = "top" /\ engine'.at \in {"returned", "asset"}
    BY <1>2 DEF ScanStop, ScanStart, IInv, TypeOK
  <2> QED
    BY <2>1, <2>2, OrdersUnmoved
<1>3. CASE Skip
  <2>1. UNCHANGED <<channels, inflight, lost, drainer, worker>>
    BY <1>3 DEF Skip
  <2>2. engine.at = "asset" /\ engine'.at # "send"
    BY <1>3, NextAssetTyped DEF Skip, IInv
  <2> QED
    BY <2>1, <2>2, OrdersUnmoved
<1>4. CASE CheckPnl \/ DrainerReturns
  <2>1. UNCHANGED <<channels, inflight, lost, engine, worker>>
    BY <1>4 DEF CheckPnl, DrainerReturns
  <2>2. drainer.at \in {"check", "idle"} /\ drainer'.at \in {"idle", "returned"}
    BY <1>4 DEF CheckPnl, DrainerReturns, IInv, TypeOK
  <2> QED
    BY <2>1, <2>2, OrdersUnmoved
<1>5. ASSUME NEW w \in Workers,
             Credit(w) \/ SweepRead(w) \/ SweepWrite(w) \/ WorkerReturns(w)
      PROVE  IInv'
  <2>1. UNCHANGED <<channels, inflight, lost, engine, drainer>>
    BY <1>5 DEF Credit, SweepRead, SweepWrite, WorkerReturns
  <2>2. \A v \in Workers : Busy(v)' = Busy(v) /\ worker'[v].asset = worker[v].asset
    <3>1. TypeOK
      BY DEF IInv
    <3>2. /\ worker'[w].asset = worker[w].asset
          /\ \A v \in Workers \ {w} : worker'[v] = worker[v]
      BY <1>5, <3>1, Moved, SweepReadMoves DEF Credit, SweepWrite, WorkerReturns, Stations
    <3>3. Busy(w)' = Busy(w)
      <4>1. CASE Credit(w) \/ SweepWrite(w)
        BY <4>1, <3>1, Moved DEF Credit, SweepWrite, Stations
      <4>2. CASE SweepRead(w)
        BY <4>2, <3>1, SweepReadMoves DEF SweepRead
      <4>3. CASE WorkerReturns(w)
        BY <4>3, <3>1, Moved DEF WorkerReturns, Stations
      <4> QED
        BY <1>5, <4>1, <4>2, <4>3
    <3> QED
      BY <3>2, <3>3
  <2> QED
    BY <2>1, <2>2, OrdersUnmoved
<1> QED
  BY <1>1, <1>2, <1>3, <1>4, <1>5

-----------------------------------------------------------------------------
(* evaluateAsset finds no bit: no order of the asset is anywhere.          *)
LEMMA FireIInv == ASSUME IInv, TypeOK', Fire PROVE IInv'
<1> USE DEF Busy, Sending, Clearing, channels
<1>1. /\ UNCHANGED <<channels, drainer, worker, lost>>
      /\ engine.at = "asset" /\ engine.asset \notin inflight
      /\ inflight' = inflight \cup {engine.asset}
  BY DEF Fire, MayFire
<1>2. engine'.at = "send" /\ engine'.asset = engine.asset /\ engine.asset \in Asset
  <2>1. engine' = [[engine EXCEPT !.at = "send"] EXCEPT !.stake = StakeOf(wallet)]
    BY DEF Fire
  <2> QED
    BY <2>1 DEF IInv, TypeOK
<1>3. ~Present(engine.asset) /\ engine.asset \notin lost
  BY <1>1, <1>2 DEF IInv, Bits
<1>4. Apart'
  BY <1>1, <1>2, <1>3 DEF IInv, Apart, Present
<1>5. \A a : Present(a)' <=> Present(a) \/ a = engine.asset
  BY <1>1, <1>2 DEF Present
<1>6. Bits'
  BY <1>1, <1>2, <1>3, <1>5 DEF IInv, Bits
<1> QED
  BY <1>4, <1>6 DEF IInv

(* An order that moves to another place, and takes its bit with it.        *)
LEMMA MovedOrder ==
  ASSUME IInv, TypeOK', Apart', UNCHANGED <<inflight, lost>>,
         \A a \in Asset : Present(a)' <=> Present(a)
  PROVE  IInv'
<1>1. lost \subseteq Asset
  BY DEF IInv, TypeOK
<1> QED
  BY <1>1 DEF IInv, Bits

(* The signal goes from the engine to the last place of execCh.            *)
LEMMA SendIInv == ASSUME IInv, TypeOK', Send PROVE IInv'
<1> DEFINE n == Len(execCh)
           order == [asset |-> engine.asset, stake |-> engine.stake]
<1>1. /\ UNCHANGED <<resCh, drainer, worker, inflight, lost>>
      /\ engine.at = "send" /\ execCh' = Append(execCh, order)
  BY DEF Send, shared
<1>2. TypeOK /\ engine'.at # "send"
  BY NextAssetTyped DEF Send, IInv
<1>3. execCh \in Seq(Requests) /\ order \in Requests
  BY <1>2 DEF TypeOK, Requests
<1>4. /\ Len(execCh') = n + 1 /\ n \in Nat
      /\ \A i \in 1 .. n : execCh'[i].asset = execCh[i].asset
      /\ execCh'[n + 1].asset = engine.asset
  <2> HIDE DEF order
  <2>1. /\ Len(execCh') = n + 1 /\ n \in Nat
        /\ \A i \in 1 .. n : execCh'[i] = execCh[i]
        /\ execCh'[n + 1] = order
    BY <1>1, <1>3, Sent
  <2> QED
    BY <2>1 DEF order
<1> HIDE DEF order, n
<1>5. \A i \in 1 .. n + 1 : i \in 1 .. n \/ i = n + 1
  BY <1>4
<1> USE DEF Busy, Sending, Clearing
<1>6. Apart'
  BY <1>1, <1>2, <1>4, <1>5 DEF IInv, Apart, n
<1>7. \A a \in Asset : Present(a)' <=> Present(a)
  BY <1>1, <1>2, <1>4, <1>5 DEF Present, n
<1> QED
  BY <1>1, <1>6, <1>7, MovedOrder

(* A signal that finds the channel full gives its bit back.                *)
LEMMA DropSignalIInv == ASSUME IInv, TypeOK', DropSignal PROVE IInv'
<1> USE DEF Busy, Sending, Clearing, channels
<1>1. /\ UNCHANGED <<channels, drainer, worker, lost>>
      /\ engine.at = "send" /\ inflight' = inflight \ {engine.asset}
  BY DEF DropSignal
<1>2. TypeOK /\ engine'.at # "send" /\ engine.asset \in Asset /\ lost \subseteq Asset
  BY NextAssetTyped DEF DropSignal, IInv, TypeOK
<1>3. Apart'
  BY <1>1, <1>2 DEF IInv, Apart
<1>4. \A a \in Asset : Present(a)' <=> Present(a) /\ a # engine.asset
  BY <1>1, <1>2 DEF IInv, Apart, Present
<1>5. engine.asset \notin lost
  BY <1>1 DEF IInv, Bits, Present
<1>6. Bits'
  BY <1>1, <1>2, <1>4, <1>5 DEF IInv, Bits
<1> QED
  BY <1>3, <1>6 DEF IInv

(* A result goes from the front of resCh to the drain.                     *)
LEMMA ReceiveIInv == ASSUME IInv, TypeOK', Receive PROVE IInv'
<1> DEFINE n == Len(resCh)
<1>1. /\ UNCHANGED <<execCh, engine, worker, inflight, lost>>
      /\ drainer.at = "idle" /\ resCh # <<>> /\ resCh' = Tail(resCh)
      /\ drainer' = [at |-> "clear", asset |-> Head(resCh).asset]
  BY DEF Receive
<1>2. resCh \in Seq(Results)
  BY DEF IInv, TypeOK, Results
<1>3. /\ n \in Nat \ {0} /\ Len(resCh') = n - 1
      /\ \A i \in 1 .. n - 1 : resCh'[i].asset = resCh[i + 1].asset
      /\ drainer'.at = "clear" /\ drainer'.asset = resCh[1].asset
  BY <1>1, <1>2, Received
<1> HIDE DEF n
<1>4. /\ 1 \in 1 .. n
      /\ \A i \in 1 .. n - 1 : i + 1 \in 1 .. n /\ i + 1 # 1
      /\ \A i \in 1 .. n : i = 1 \/ (i - 1 \in 1 .. n - 1 /\ i = (i - 1) + 1)
      /\ \A i, j \in 1 .. n - 1 : i + 1 = j + 1 => i = j
  BY <1>3
<1> USE DEF Busy, Sending, Clearing
<1>5. Apart'
  BY <1>1, <1>3, <1>4 DEF IInv, Apart, n
<1>6. ASSUME NEW a \in Asset PROVE Present(a)' <=> Present(a)
  <2>1. (\E i \in 1 .. n : resCh[i].asset = a)
          <=> resCh[1].asset = a \/ \E j \in 1 .. n - 1 : resCh'[j].asset = a
    <3>1. ASSUME NEW i \in 1 .. n, resCh[i].asset = a, i # 1
          PROVE  i - 1 \in 1 .. n - 1 /\ resCh'[i - 1].asset = a
      BY <1>3, <3>1
    <3>2. ASSUME NEW j \in 1 .. n - 1, resCh'[j].asset = a
          PROVE  j + 1 \in 1 .. n /\ resCh[j + 1].asset = a
      BY <1>3, <3>2
    <3> QED
      BY <1>3, <1>4, <3>1, <3>2
  <2> QED
    BY <1>1, <1>3, <2>1 DEF Present, n
<1> QED
  BY <1>1, <1>5, <1>6, MovedOrder

(* onResult clears the bit of the result it has booked.                    *)
LEMMA ClearInflightIInv == ASSUME IInv, TypeOK', ClearInflight PROVE IInv'
<1> USE DEF Busy, Sending, Clearing, channels
<1>1. /\ UNCHANGED <<channels, engine, worker, lost>>
      /\ drainer.at = "clear" /\ inflight' = inflight \ {drainer.asset}
      /\ drainer' = [drainer EXCEPT !.at = "check"]
  BY DEF ClearInflight, Clears
<1>2. drainer'.at = "check" /\ drainer.asset \in Asset /\ lost \subseteq Asset
  BY <1>1 DEF IInv, TypeOK
<1>3. Apart'
  BY <1>1, <1>2 DEF IInv, Apart
<1>4. \A a \in Asset : Present(a)' <=> Present(a) /\ a # drainer.asset
  BY <1>1, <1>2 DEF IInv, Apart, Present
<1>5. drainer.asset \notin lost
  BY <1>1 DEF IInv, Bits, Present
<1>6. Bits'
  BY <1>1, <1>2, <1>4, <1>5 DEF IInv, Bits
<1> QED
  BY <1>3, <1>6 DEF IInv

-----------------------------------------------------------------------------
(* A request goes from the front of execCh to a worker.                    *)
LEMMA TakeIInv == ASSUME IInv, TypeOK', NEW w \in Workers, Take(w) PROVE IInv'
<1> DEFINE n == Len(execCh)
<1>1. /\ UNCHANGED <<resCh, engine, drainer, inflight, lost>>
      /\ worker[w].at = "idle" /\ execCh # <<>> /\ execCh' = Tail(execCh)
  BY DEF Take, shared
<1>2. execCh \in Seq(Requests) /\ worker \in [Workers -> WorkerStates]
  BY DEF IInv, TypeOK, Requests, WorkerStates, Stations
<1>3. /\ n \in Nat \ {0} /\ Len(execCh') = n - 1
      /\ \A i \in 1 .. n - 1 : execCh'[i].asset = execCh[i + 1].asset
      /\ Head(execCh) = execCh[1]
  BY <1>1, <1>2, Received
<1>4. /\ worker'[w].at = "credit" /\ worker'[w].asset = execCh[1].asset
      /\ \A v \in Workers \ {w} : worker'[v] = worker[v]
  BY <1>2, <1>3 DEF Take
<1> HIDE DEF n
<1>5. /\ 1 \in 1 .. n
      /\ \A i \in 1 .. n - 1 : i + 1 \in 1 .. n /\ i + 1 # 1
      /\ \A i \in 1 .. n : i = 1 \/ (i - 1 \in 1 .. n - 1 /\ i = (i - 1) + 1)
      /\ \A i, j \in 1 .. n - 1 : i + 1 = j + 1 => i = j
  BY <1>3
<1> USE DEF Sending, Clearing
<1>6. /\ ~Busy(w) /\ Busy(w)'
      /\ \A v \in Workers \ {w} : Busy(v)' = Busy(v) /\ worker'[v].asset = worker[v].asset
  BY <1>1, <1>4 DEF Busy
<1>7. Apart'
  <2>1. /\ \A i, j \in 1 .. n - 1 : execCh'[i].asset = execCh'[j].asset => i = j
        /\ \A i \in 1 .. n - 1 : execCh'[i].asset # execCh[1].asset
    BY <1>3, <1>5 DEF IInv, Apart, n
  <2>2. \A i \in 1 .. n - 1 : \A j \in 1 .. Len(resCh) :
          /\ execCh'[i].asset # resCh[j].asset
          /\ execCh[1].asset # resCh[j].asset
    BY <1>3, <1>5 DEF IInv, Apart, n
  <2>3. \A v, x \in Workers :
          Busy(v)' /\ Busy(x)' /\ worker'[v].asset = worker'[x].asset => v = x
    BY <1>4, <1>5, <1>6 DEF IInv, Apart, n
  <2>4. \A v \in Workers : Busy(v)' =>
          /\ \A i \in 1 .. n - 1 : execCh'[i].asset # worker'[v].asset
          /\ \A i \in 1 .. Len(resCh) : resCh[i].asset # worker'[v].asset
    BY <1>3, <1>4, <1>5, <1>6, <2>1, <2>2 DEF IInv, Apart, n
  <2>5. Sending =>
          /\ \A i \in 1 .. n - 1 : execCh'[i].asset # engine.asset
          /\ \A i \in 1 .. Len(resCh) : resCh[i].asset # engine.asset
          /\ \A v \in Workers : Busy(v)' => worker'[v].asset # engine.asset
          /\ Clearing => drainer.asset # engine.asset
    BY <1>3, <1>4, <1>5, <1>6 DEF IInv, Apart, n
  <2>6. Clearing =>
          /\ \A i \in 1 .. n - 1 : execCh'[i].asset # drainer.asset
          /\ \A i \in 1 .. Len(resCh) : resCh[i].asset # drainer.asset
          /\ \A v \in Workers : Busy(v)' => worker'[v].asset # drainer.asset
    BY <1>3, <1>4, <1>5, <1>6 DEF IInv, Apart, n
  <2> QED
    BY <1>1, <1>3, <2>1, <2>2, <2>3, <2>4, <2>5, <2>6 DEF IInv, Apart
<1>8. ASSUME NEW a \in Asset PROVE Present(a)' <=> Present(a)
  <2>1. (\E i \in 1 .. n : execCh[i].asset = a)
          <=> execCh[1].asset = a \/ \E j \in 1 .. n - 1 : execCh'[j].asset = a
    <3>1. ASSUME NEW i \in 1 .. n, execCh[i].asset = a, i # 1
          PROVE  i - 1 \in 1 .. n - 1 /\ execCh'[i - 1].asset = a
      BY <1>3, <3>1
    <3>2. ASSUME NEW j \in 1 .. n - 1, execCh'[j].asset = a
          PROVE  j + 1 \in 1 .. n /\ execCh[j + 1].asset = a
      BY <1>3, <3>2
    <3> QED
      BY <1>3, <1>5, <3>1, <3>2
  <2>2. (\E v \in Workers : Busy(v)' /\ worker'[v].asset = a)
          <=> execCh[1].asset = a \/ \E v \in Workers : Busy(v) /\ worker[v].asset = a
    BY <1>4, <1>6
  <2> QED
    BY <1>1, <1>3, <2>1, <2>2 DEF Present, n
<1> QED
  BY <1>1, <1>7, <1>8, MovedOrder

(* A result goes from a worker to the last place of resCh.                 *)
LEMMA ReplyIInv == ASSUME IInv, TypeOK', NEW w \in Workers, Reply(w) PROVE IInv'
<1> DEFINE n == Len(resCh)
           result == [asset |-> worker[w].asset, pnl |-> PayoutBonus]
<1>1. /\ UNCHANGED <<execCh, engine, drainer, inflight, lost>>
      /\ worker[w].at = "reply" /\ resCh' = Append(resCh, result)
  BY DEF Reply, shared
<1>2. /\ worker'[w].at = "idle"
      /\ \A v \in Workers \ {w} : worker'[v] = worker[v]
  BY Moved DEF Reply, IInv, Stations
<1>3. resCh \in Seq(Results) /\ result \in Results
  BY DEF IInv, TypeOK, Results
<1>4. /\ Len(resCh') = n + 1 /\ n \in Nat
      /\ \A i \in 1 .. n : resCh'[i].asset = resCh[i].asset
      /\ resCh'[n + 1].asset = worker[w].asset
  <2> HIDE DEF result
  <2>1. /\ Len(resCh') = n + 1 /\ n \in Nat
        /\ \A i \in 1 .. n : resCh'[i] = resCh[i]
        /\ resCh'[n + 1] = result
    BY <1>1, <1>3, Sent
  <2> QED
    BY <2>1 DEF result
<1> HIDE DEF result, n
<1>5. \A i \in 1 .. n + 1 : i \in 1 .. n \/ i = n + 1
  BY <1>4
<1> USE DEF Sending, Clearing
<1>6. /\ Busy(w) /\ ~Busy(w)'
      /\ \A v \in Workers \ {w} : Busy(v)' = Busy(v) /\ worker'[v].asset = worker[v].asset
  BY <1>1, <1>2 DEF Busy
<1>7. Apart'
  <2>1. \A v \in Workers : Busy(v)' =>
          v # w /\ Busy(v) /\ worker'[v].asset = worker[v].asset
    BY <1>6
  <2>2. /\ \A i, j \in 1 .. n + 1 : resCh'[i].asset = resCh'[j].asset => i = j
        /\ \A i \in 1 .. Len(execCh) : \A j \in 1 .. n + 1 :
             execCh[i].asset # resCh'[j].asset
    BY <1>4, <1>5, <1>6 DEF IInv, Apart, n
  <2>3. \A v \in Workers : Busy(v)' =>
          /\ \A i \in 1 .. Len(execCh) : execCh[i].asset # worker'[v].asset
          /\ \A i \in 1 .. n + 1 : resCh'[i].asset # worker'[v].asset
    BY <1>4, <1>5, <1>6, <2>1 DEF IInv, Apart, n
  <2>4. Sending =>
          /\ \A i \in 1 .. n + 1 : resCh'[i].asset # engine.asset
          /\ \A v \in Workers : Busy(v)' => worker'[v].asset # engine.asset
    BY <1>4, <1>5, <1>6, <2>1 DEF IInv, Apart, n
  <2>5. Clearing =>
          /\ \A i \in 1 .. n + 1 : resCh'[i].asset # drainer.asset
          /\ \A v \in Workers : Busy(v)' => worker'[v].asset # drainer.asset
    BY <1>4, <1>5, <1>6, <2>1 DEF IInv, Apart, n
  <2> QED
    BY <1>1, <1>4, <2>1, <2>2, <2>3, <2>4, <2>5 DEF IInv, Apart
<1>8. \A a \in Asset : Present(a)' <=> Present(a)
  BY <1>1, <1>4, <1>5, <1>6 DEF Present, n
<1> QED
  BY <1>1, <1>7, <1>8, MovedOrder

(* A result that finds resCh full is lost; its bit stays.                  *)
LEMMA DropResultIInv ==
  ASSUME IInv, TypeOK', NEW w \in Workers, DropResult(w) PROVE IInv'
<1> USE DEF Busy, Sending, Clearing, channels
<1>1. /\ UNCHANGED <<channels, engine, drainer, inflight>>
      /\ worker[w].at = "reply" /\ lost' = lost \cup {worker[w].asset}
  BY DEF DropResult, shared
<1>2. /\ worker'[w].at = "idle"
      /\ \A v \in Workers \ {w} : worker'[v] = worker[v]
  BY Moved DEF DropResult, IInv, Stations
<1>3. worker[w].asset \in Asset /\ lost \subseteq Asset
  BY DEF IInv, TypeOK
<1>4. Apart'
  BY <1>1, <1>2 DEF IInv, Apart
<1>5. \A a \in Asset : Present(a)' <=> Present(a) /\ a # worker[w].asset
  BY <1>1, <1>2 DEF IInv, Apart, Present
<1>6. Bits'
  BY <1>1, <1>3, <1>5 DEF IInv, Bits, Present
<1> QED
  BY <1>4, <1>6 DEF IInv

(* Every step of the pipeline keeps the invariant.                         *)
LEMMA StepIInv == IInv /\ [Next]_vars => IInv'
<1> SUFFICES ASSUME IInv, [Next]_vars PROVE IInv'
  OBVIOUS
<1>1. TypeOK'
  BY StepTypeOK DEF IInv
<1> QED
  BY <1>1, QuietStep, FireIInv, SendIInv, DropSignalIInv, ReceiveIInv,
     ClearInflightIInv, TakeIInv, ReplyIInv, DropResultIInv
  DEF Next, EngineStep, DrainerStep, WorkerStep

-----------------------------------------------------------------------------
(* The set of an asset's orders, place by place.                           *)
LEMMA OrdersAre ==
  ASSUME TypeOK, NEW a
  PROVE  Orders(a) =
           ({"request"} \X {i \in 1 .. Len(execCh) : execCh[i].asset = a})
             \cup ({"result"} \X {i \in 1 .. Len(resCh) : resCh[i].asset = a})
             \cup ({"worker"} \X {w \in Workers : worker[w].asset = a /\ Busy(w)})
             \cup ({"engine"} \X {e \in {1} : Sending /\ engine.asset = a})
             \cup ({"drainer"} \X {d \in {1} : Clearing /\ drainer.asset = a})
<1>1. DOMAIN execCh = 1 .. Len(execCh) /\ DOMAIN resCh = 1 .. Len(resCh)
  BY DEF TypeOK
<1>2. DOMAIN AtPlace(a) = {"request", "result", "worker", "engine", "drainer"}
  BY DEF AtPlace
<1> QED
  BY <1>1, <1>2 DEF Orders, AtPlace, Busy, Sending, Clearing

(* Two orders of an asset are the same.                                    *)
LEMMA IInvOneOrder == IInv => OneOrderPerAsset
<1> SUFFICES ASSUME IInv, NEW a \in Asset, NEW p \in Orders(a), NEW q \in Orders(a)
             PROVE  p = q
  BY DEF OneOrderPerAsset
<1>1. TypeOK
  BY DEF IInv
<1> QED
  BY <1>1, OrdersAre DEF IInv, Apart

(* An asset has an order if and only if the order is somewhere.            *)
LEMMA OrdersPresent == ASSUME TypeOK, NEW a PROVE Orders(a) # {} <=> Present(a)
<1> DEFINE requests == {i \in 1 .. Len(execCh) : execCh[i].asset = a}
           results == {i \in 1 .. Len(resCh) : resCh[i].asset = a}
           holders == {w \in Workers : worker[w].asset = a /\ Busy(w)}
           sending == {e \in {1} : Sending /\ engine.asset = a}
           clearing == {d \in {1} : Clearing /\ drainer.asset = a}
<1>1. Present(a) <=> requests # {} \/ results # {} \/ holders # {} \/ sending # {}
                       \/ clearing # {}
  BY DEF Present
<1>2. Orders(a) = ({"request"} \X requests) \cup ({"result"} \X results)
                    \cup ({"worker"} \X holders) \cup ({"engine"} \X sending)
                    \cup ({"drainer"} \X clearing)
  BY OrdersAre
<1> HIDE DEF requests, results, holders, sending, clearing
<1>3. \A kind, S : {kind} \X S # {} <=> S # {}
  <2> SUFFICES ASSUME NEW kind, NEW S PROVE {kind} \X S # {} <=> S # {}
    OBVIOUS
  <2>1. \A x \in S : <<kind, x>> \in {kind} \X S
    OBVIOUS
  <2>2. \A p \in {kind} \X S : p[2] \in S
    OBVIOUS
  <2> QED
    BY <2>1, <2>2
<1>4. /\ {"request"} \X requests # {} <=> requests # {}
      /\ {"result"} \X results # {} <=> results # {}
      /\ {"worker"} \X holders # {} <=> holders # {}
      /\ {"engine"} \X sending # {} <=> sending # {}
      /\ {"drainer"} \X clearing # {} <=> clearing # {}
  BY <1>3
<1>5. Orders(a) = {} <=>
        /\ {"request"} \X requests = {} /\ {"result"} \X results = {}
        /\ {"worker"} \X holders = {} /\ {"engine"} \X sending = {}
        /\ {"drainer"} \X clearing = {}
  <2> DEFINE A == {"request"} \X requests
             B == {"result"} \X results
             C == {"worker"} \X holders
             D == {"engine"} \X sending
             E == {"drainer"} \X clearing
  <2>1. Orders(a) = A \cup B \cup C \cup D \cup E
    BY <1>2
  <2> HIDE DEF A, B, C, D, E
  <2>2. Orders(a) = {} <=> A = {} /\ B = {} /\ C = {} /\ D = {} /\ E = {}
    BY <2>1
  <2> QED
    BY <2>2 DEF A, B, C, D, E
<1> QED
  BY <1>1, <1>4, <1>5

(* The variables of the Go pipeline keep their ranges, and its channels    *)
(* their capacities.                                                       *)
THEOREM TypeCorrect == Spec => []TypeOK
  BY InitIInv, StepIInv, PTL DEF Spec, IInv

(* No asset ever has two orders between the engine's SetInflight and the   *)
(* drain's clearing, whatever is dropped or late.                          *)
THEOREM OneOrderPerAssetHolds == Spec => []OneOrderPerAsset
  BY InitIInv, StepIInv, IInvOneOrder, PTL DEF Spec

(* inflightBits is exact: a bit is set for an order that is somewhere, or  *)
(* for a result that met a full channel.                                   *)
THEOREM InflightAgreesHolds == Spec => []InflightAgrees
<1>1. IInv => InflightAgrees
  <2> SUFFICES ASSUME IInv PROVE InflightAgrees
    OBVIOUS
  <2>1. TypeOK /\ inflight \subseteq Asset /\ lost \subseteq Asset
    BY DEF IInv, TypeOK
  <2>2. \A a \in Asset : a \in inflight <=> Orders(a) # {} \/ a \in lost
    BY <2>1, OrdersPresent DEF IInv, Bits
  <2> QED
    BY <2>1, <2>2 DEF InflightAgrees
<1> QED
  BY <1>1, InitIInv, StepIInv, PTL DEF Spec

-----------------------------------------------------------------------------
(* The sets that WalletBalances counts are finite.                         *)
LEMMA Finite == ASSUME TypeOK PROVE IsFiniteSet(Credited) /\ IsFiniteSet(lost)
<1>1. IsFiniteSet(Asset)
  BY FS_Interval, GoPipelineAssumption DEF Asset
<1>2. lost \subseteq Asset /\ Credited \subseteq Workers
  BY DEF TypeOK, Credited
<1> QED
  BY <1>1, <1>2, FS_Subset, GoPipelineAssumption

(* Steps that pay nothing, sweep nothing and move no paid order.           *)
LEMMA NothingPaid ==
  ASSUME WalletBalances,
         UNCHANGED <<wallet, swept, cumulativePnl, lost>>,
         Len(resCh)' = Len(resCh), Credited' = Credited
  PROVE  WalletBalances'
  BY DEF WalletBalances

(* A step of the engine, the feed or main pays nothing.                    *)
LEMMA UnpaidStep ==
  ASSUME IInv, WalletBalances,
         \/ UNCHANGED vars \/ CloseDone
         \/ \E a \in Asset : NewBook(a) \/ MarketCloses(a)
         \/ EngineStep \/ ClearInflight \/ CheckPnl \/ DrainerReturns
  PROVE  WalletBalances'
<1>1. UNCHANGED <<wallet, swept, cumulativePnl, lost, resCh, worker>>
  <2> USE DEF shared, channels, places
  <2>1. CASE UNCHANGED vars \/ CloseDone \/ \E a \in Asset : NewBook(a) \/ MarketCloses(a)
    BY <2>1 DEF vars, CloseDone, NewBook, MarketCloses
  <2>2. CASE EngineStep
    BY <2>2 DEF EngineStep, ScanStop, ScanStart, Skip, Fire, Send, DropSignal
  <2>3. CASE ClearInflight \/ CheckPnl \/ DrainerReturns
    BY <2>3 DEF ClearInflight, CheckPnl, DrainerReturns
  <2> QED
    BY <2>1, <2>2, <2>3
<1> QED
  BY <1>1, NothingPaid DEF Credited

(* A result that is received pays its bonus a second time.                 *)
LEMMA ReceivePays == ASSUME IInv, WalletBalances, Receive PROVE WalletBalances'
<1>1. resCh \in Seq(Results) /\ resCh # <<>>
      /\ wallet \in Int /\ cumulativePnl \in Int /\ swept \in Int
  BY DEF IInv, TypeOK, Results, Receive
<1>2. Len(resCh') = Len(resCh) - 1 /\ Head(resCh) \in Results /\ Len(resCh) \in Nat
  BY <1>1, Received DEF Receive
<1>3. /\ wallet' = wallet + PayoutBonus /\ cumulativePnl' = cumulativePnl + PayoutBonus
      /\ UNCHANGED <<swept, lost, worker>>
  BY <1>2 DEF Receive, Results
<1>4. Credited' = Credited
  BY <1>3 DEF Credited
<1>5. Cardinality(Credited) \in Nat /\ Cardinality(lost) \in Nat
  BY Finite, FS_CardinalityType DEF IInv
<1>6. Cardinality(Credited)' = Cardinality(Credited)
      /\ Cardinality(lost)' = Cardinality(lost) /\ Len(resCh)' = Len(resCh) - 1
  BY <1>2, <1>3, <1>4
<1> DEFINE owed == Cardinality(Credited) + Len(resCh) + Cardinality(lost)
<1>7. owed \in Int /\ owed' = owed - 1
  BY <1>2, <1>5, <1>6
<1> HIDE DEF owed
<1>8. wallet + swept = InitialCapital + 2 * cumulativePnl + PayoutBonus * owed
  BY DEF WalletBalances, owed
<1>9. wallet' + swept' = InitialCapital + 2 * cumulativePnl' + PayoutBonus * owed'
  BY <1>1, <1>3, <1>7, <1>8, GoPipelineAssumption DEF PayoutBonus
<1> QED
  BY <1>9 DEF WalletBalances, owed

(* A worker pays, sweeps, replies or drops: each amount is accounted for.  *)
LEMMA WorkerPays ==
  ASSUME IInv, WalletBalances, NEW w \in Workers, WorkerStep(w)
  PROVE  WalletBalances'
<1> USE DEF shared, channels
<1>1. /\ TypeOK /\ wallet \in Int /\ cumulativePnl \in Int /\ swept \in Int
      /\ worker \in [Workers -> WorkerStates] /\ Len(resCh) \in Nat
  BY DEF IInv, TypeOK, WorkerStates, Stations
<1>2. Cardinality(Credited) \in Nat /\ Cardinality(lost) \in Nat
      /\ IsFiniteSet(Credited) /\ IsFiniteSet(lost)
  BY <1>1, Finite, FS_CardinalityType
<1>3. CASE Take(w) \/ WorkerReturns(w)
  <2>1. UNCHANGED <<wallet, swept, cumulativePnl, lost, resCh>>
    BY <1>3 DEF Take, WorkerReturns
  <2>2. /\ worker[w].at = "idle" /\ worker'[w].at \in {"credit", "returned"}
        /\ \A v \in Workers \ {w} : worker'[v] = worker[v]
    <3>1. CASE Take(w)
      BY <1>1, <3>1 DEF Take
    <3>2. CASE WorkerReturns(w)
      BY <1>1, <3>2, Moved DEF WorkerReturns, Stations
    <3> QED
      BY <1>3, <3>1, <3>2
  <2>3. Credited' = Credited
    BY <2>2 DEF Credited
  <2> QED
    BY <2>1, <2>3, NothingPaid
<1>4. CASE Credit(w)
  <2>1. /\ worker[w].at = "credit" /\ worker'[w].at \in {"balance", "reply"}
        /\ \A v \in Workers \ {w} : worker'[v] = worker[v]
    BY <1>1, <1>4, Moved DEF Credit, Stations
  <2>2. Credited' = Credited \cup {w} /\ w \notin Credited
    BY <2>1 DEF Credited
  <2>3. Cardinality(Credited') = Cardinality(Credited) + 1
    BY <1>2, <2>2, FS_AddElement
  <2>4. wallet' = wallet + PayoutBonus /\ UNCHANGED <<swept, cumulativePnl, lost, resCh>>
    BY <1>4 DEF Credit
  <2> QED
    BY <1>1, <1>2, <2>3, <2>4, GoPipelineAssumption DEF WalletBalances, PayoutBonus
<1>5. CASE SweepRead(w)
  <2>1. UNCHANGED <<wallet, swept, cumulativePnl, lost, resCh>>
    BY <1>5 DEF SweepRead
  <2>2. Credited' = Credited
    BY <1>1, <1>5, SweepReadMoves DEF Credited, SweepRead
  <2> QED
    BY <2>1, <2>2, NothingPaid
<1>6. CASE SweepWrite(w)
  <2>1. /\ worker[w].at = "sweep" /\ worker'[w].at = "reply"
        /\ \A v \in Workers \ {w} : worker'[v] = worker[v]
    BY <1>1, <1>6, Moved DEF SweepWrite, Stations
  <2>2. Credited' = Credited
    BY <2>1 DEF Credited
  <2>3. /\ wallet' = wallet - worker[w].amount /\ swept' = swept + worker[w].amount
        /\ worker[w].amount \in Int /\ UNCHANGED <<cumulativePnl, lost, resCh>>
    BY <1>1, <1>6 DEF SweepWrite, SweptBalance, WorkerStates
  <2> QED
    BY <1>1, <1>2, <2>2, <2>3 DEF WalletBalances
<1>7. CASE Reply(w) \/ DropResult(w)
  <2>1. /\ worker[w].at = "reply" /\ worker'[w].at = "idle"
        /\ \A v \in Workers \ {w} : worker'[v] = worker[v]
    BY <1>1, <1>7, Moved DEF Reply, DropResult, Stations
  <2>2. Credited' = Credited \ {w} /\ w \in Credited
    BY <2>1 DEF Credited
  <2>3. Cardinality(Credited') = Cardinality(Credited) - 1
    BY <1>2, <2>2, FS_RemoveElement
  <2>4. UNCHANGED <<wallet, swept, cumulativePnl>>
    BY <1>7 DEF Reply, DropResult
  <2>5. CASE Reply(w)
    <3>1. Len(resCh') = Len(resCh) + 1 /\ lost' = lost
      BY <1>1, <2>5 DEF Reply, TypeOK
    <3> QED
      BY <1>1, <1>2, <2>3, <2>4, <3>1, GoPipelineAssumption DEF WalletBalances, PayoutBonus
  <2>6. CASE DropResult(w)
    <3>1. worker[w].asset \notin lost
      BY <2>1 DEF IInv, Bits, Present, Busy
    <3>2. Cardinality(lost') = Cardinality(lost) + 1 /\ resCh' = resCh
      BY <1>2, <2>6, <3>1, FS_AddElement DEF DropResult
    <3> QED
      BY <1>1, <1>2, <2>3, <2>4, <3>2, GoPipelineAssumption DEF WalletBalances, PayoutBonus
  <2> QED
    BY <1>7, <2>5, <2>6
<1> QED
  BY <1>3, <1>4, <1>5, <1>6, <1>7 DEF WorkerStep

(* Credits, sweeps, replies, drops and receipts, in any order and by any   *)
(* number of workers, lose no amount.                                      *)
THEOREM WalletBalancesHolds == Spec => []WalletBalances
<1>1. Init => WalletBalances
  <2> SUFFICES ASSUME Init PROVE WalletBalances
    OBVIOUS
  <2>1. Credited = {} /\ lost = {} /\ Len(resCh) = 0
    BY DEF Init, Credited
  <2>2. Cardinality({}) = 0
    BY FS_EmptySet
  <2> QED
    BY <2>1, <2>2, GoPipelineAssumption DEF Init, WalletBalances, PayoutBonus
<1>2. IInv /\ WalletBalances /\ [Next]_vars => WalletBalances'
  BY UnpaidStep, ReceivePays, WorkerPays DEF Next, DrainerStep
<1> QED
  BY <1>1, <1>2, InitIInv, StepIInv, PTL DEF Spec

-----------------------------------------------------------------------------
(* The workers that may still sweep, and what the balance is worth when    *)
(* each of them has swept the bonus it credited before.                    *)
Owing   == { w \in Workers : worker[w].at \in {"balance", "sweep"} }
Reserve == wallet - PayoutBonus * Cardinality(Owing)

(* No sweep takes more than the bonus of its own order.                    *)
AmountsSmall ==
  \A w \in Workers : worker[w].at = "sweep" => worker[w].amount <= PayoutBonus

(* The profit sweep never takes the balance below what main started with.  *)
CapitalKept == wallet >= InitialCapital

StakesSpared ==
  /\ \A i \in 1 .. Len(execCh) : execCh[i].stake <= Reserve
  /\ Sending => engine.stake <= Reserve

(* The workers that may sweep are finitely many.                           *)
LEMMA OwingFinite ==
  ASSUME TypeOK
  PROVE  IsFiniteSet(Owing) /\ Cardinality(Owing) \in Nat /\ Reserve \in Int
<1>1. IsFiniteSet(Owing)
  BY FS_Subset, GoPipelineAssumption DEF Owing
<1>2. Cardinality(Owing) \in Nat
  BY <1>1, FS_CardinalityType
<1> QED
  BY <1>1, <1>2 DEF TypeOK, Reserve, PayoutBonus

(* And so they stay, which makes the reserve a number in the next state.   *)
LEMMA OwingFiniteNext == ASSUME TypeOK' PROVE Reserve' \in Int
<1>1. IsFiniteSet(Owing')
  BY FS_Subset, GoPipelineAssumption DEF Owing
<1>2. Cardinality(Owing') \in Nat
  BY <1>1, FS_CardinalityType
<1> QED
  BY <1>2 DEF TypeOK, Reserve, PayoutBonus

(* Since an asset has one order, no more workers owe a sweep than there    *)
(* are assets.                                                             *)
LEMMA OwingBounded == ASSUME IInv PROVE Cardinality(Owing) <= NumAssets
<1> DEFINE order == [w \in Owing |-> worker[w].asset]
<1>1. order \in [Owing -> Asset]
  BY DEF IInv, TypeOK, Owing
<1>2. \A w, v \in Owing : order[w] = order[v] => w = v
  BY DEF IInv, Apart, Owing, Busy
<1>3. order \in Injection(Owing, Asset)
  BY <1>1, <1>2 DEF Injection, IsInjective
<1>4. IsFiniteSet(Asset) /\ Cardinality(Asset) = NumAssets
  BY FS_Interval, GoPipelineAssumption DEF Asset
<1> HIDE DEF order
<1> QED
  BY <1>3, <1>4, FS_Injection

(* A worker's step leaves at least the reserve, and notes small amounts.   *)
LEMMA WorkerKeepsReserve ==
  ASSUME IInv, AmountsSmall, NEW w \in Workers, WorkerStep(w)
  PROVE  Reserve' >= Reserve /\ AmountsSmall'
<1> USE DEF shared, channels
<1>1. /\ TypeOK /\ wallet \in Int /\ worker \in [Workers -> WorkerStates]
      /\ IsFiniteSet(Owing) /\ Cardinality(Owing) \in Nat
  BY OwingFinite DEF IInv, TypeOK, WorkerStates, Stations
<1>2. CASE Take(w) \/ Reply(w) \/ DropResult(w) \/ WorkerReturns(w)
  <2>1. /\ worker[w].at \notin {"balance", "sweep"}
        /\ worker'[w].at \notin {"balance", "sweep"}
        /\ \A v \in Workers \ {w} : worker'[v] = worker[v]
    <3>1. CASE Take(w)
      BY <1>1, <3>1 DEF Take
    <3>2. CASE Reply(w) \/ DropResult(w) \/ WorkerReturns(w)
      BY <1>1, <3>2, Moved DEF Reply, DropResult, WorkerReturns, Stations
    <3> QED
      BY <1>2, <3>1, <3>2
  <2>2. Owing' = Owing /\ wallet' = wallet
    BY <1>2, <2>1 DEF Owing, Take, Reply, DropResult, WorkerReturns
  <2> QED
    BY <1>1, <2>1, <2>2 DEF Reserve, AmountsSmall, PayoutBonus
<1>3. CASE Credit(w)
  <2>1. /\ worker[w].at = "credit" /\ worker'[w].at \in {"balance", "reply"}
        /\ \A v \in Workers \ {w} : worker'[v] = worker[v]
    BY <1>1, <1>3, Moved DEF Credit, Stations
  <2>2. Owing' = Owing \/ (Owing' = Owing \cup {w} /\ w \notin Owing)
    BY <2>1 DEF Owing
  <2>3. Cardinality(Owing') \in {Cardinality(Owing), Cardinality(Owing) + 1}
    BY <1>1, <2>2, FS_AddElement
  <2>4. wallet' = wallet + PayoutBonus
    BY <1>3 DEF Credit
  <2>5. Reserve' >= Reserve
    BY <1>1, <2>3, <2>4 DEF Reserve, PayoutBonus
  <2> QED
    BY <2>1, <2>5 DEF AmountsSmall
<1>4. CASE SweepRead(w)
  <2>1. /\ worker[w].at = "balance" /\ worker'[w].at \in {"sweep", "reply"}
        /\ \A v \in Workers \ {w} : worker'[v] = worker[v]
    BY <1>1, <1>4, SweepReadMoves DEF SweepRead
  <2>2. Owing' = Owing \/ (Owing' = Owing \ {w} /\ w \in Owing)
    BY <2>1 DEF Owing
  <2>3. Cardinality(Owing') \in {Cardinality(Owing), Cardinality(Owing) - 1}
    BY <1>1, <2>2, FS_RemoveElement
  <2>4. Reserve' >= Reserve
    BY <1>1, <1>4, <2>3 DEF SweepRead, Reserve, PayoutBonus
  <2>5. worker'[w].at = "sweep" => worker'[w].amount <= PayoutBonus
    BY <1>1, <1>4, SweepReadAmount
  <2> QED
    BY <2>1, <2>4, <2>5 DEF AmountsSmall
<1>5. CASE SweepWrite(w)
  <2>1. /\ worker[w].at = "sweep" /\ worker'[w].at = "reply"
        /\ \A v \in Workers \ {w} : worker'[v] = worker[v]
    BY <1>1, <1>5, Moved DEF SweepWrite, Stations
  <2>2. Owing' = Owing \ {w} /\ w \in Owing
    BY <2>1 DEF Owing
  <2>3. Cardinality(Owing') = Cardinality(Owing) - 1
    BY <1>1, <2>2, FS_RemoveElement
  <2>4. /\ wallet' = wallet - worker[w].amount /\ worker[w].amount \in Int
        /\ worker[w].amount <= PayoutBonus
    BY <1>1, <1>5, <2>1 DEF SweepWrite, SweptBalance, WorkerStates, AmountsSmall
  <2>5. Reserve' >= Reserve
    BY <1>1, <2>3, <2>4 DEF Reserve, PayoutBonus
  <2> QED
    BY <2>1, <2>5 DEF AmountsSmall
<1> QED
  BY <1>2, <1>3, <1>4, <1>5 DEF WorkerStep

(* No step lowers the reserve.                                             *)
LEMMA ReserveGrows ==
  ASSUME IInv, AmountsSmall, [Next]_vars
  PROVE  Reserve' >= Reserve /\ AmountsSmall'
<1>1. TypeOK /\ Reserve \in Int /\ wallet \in Int /\ Cardinality(Owing) \in Nat
  BY OwingFinite DEF IInv, TypeOK
<1>2. CASE \E w \in Workers : WorkerStep(w)
  BY <1>2, WorkerKeepsReserve
<1>3. CASE Receive
  <2>1. resCh \in Seq(Results) /\ resCh # <<>>
    BY <1>1, <1>3 DEF TypeOK, Results, Receive
  <2>5. Head(resCh) \in Results
    BY <2>1, Received
  <2>2. Head(resCh).pnl = PayoutBonus
    BY <2>5 DEF Results
  <2>4. wallet' = wallet + PayoutBonus /\ worker' = worker
    BY <1>3, <2>2 DEF Receive
  <2>3. Owing' = Owing
    BY <2>4 DEF Owing
  <2> QED
    BY <1>1, <2>3, <2>4 DEF Reserve, AmountsSmall, PayoutBonus
<1>4. CASE UNCHANGED vars \/ CloseDone \/ EngineStep \/ ClearInflight \/ CheckPnl
           \/ DrainerReturns \/ \E a \in Asset : NewBook(a) \/ MarketCloses(a)
  <2>1. UNCHANGED <<wallet, worker>>
    <3> USE DEF shared, channels, places
    <3>1. CASE UNCHANGED vars \/ CloseDone \/ \E a \in Asset : NewBook(a) \/ MarketCloses(a)
      BY <3>1 DEF vars, CloseDone, NewBook, MarketCloses
    <3>2. CASE EngineStep
      BY <3>2 DEF EngineStep, ScanStop, ScanStart, Skip, Fire, Send, DropSignal
    <3>3. CASE ClearInflight \/ CheckPnl \/ DrainerReturns
      BY <3>3 DEF ClearInflight, CheckPnl, DrainerReturns
    <3> QED
      BY <1>4, <3>1, <3>2, <3>3
  <2> QED
    BY <1>1, <2>1 DEF Reserve, Owing, AmountsSmall
<1> QED
  BY <1>2, <1>3, <1>4 DEF Next, DrainerStep

(* What the sweeps rest on, in one inductive invariant.                    *)
SweepInv == AmountsSmall /\ Reserve >= InitialCapital

(* It holds along with the invariant on orders and bits.                   *)
LEMMA SweepInvHolds == Spec => [](IInv /\ SweepInv)
<1>1. Init => SweepInv
  <2> SUFFICES ASSUME Init PROVE SweepInv
    OBVIOUS
  <2>1. Owing = {} /\ wallet = InitialCapital /\ AmountsSmall
    BY DEF Init, Owing, AmountsSmall
  <2> QED
    BY <2>1, FS_EmptySet, GoPipelineAssumption DEF SweepInv, Reserve, PayoutBonus
<1>2. IInv /\ SweepInv /\ [Next]_vars => SweepInv'
  <2> SUFFICES ASSUME IInv, SweepInv, [Next]_vars PROVE SweepInv'
    OBVIOUS
  <2>1. Reserve \in Int /\ Reserve' \in Int
    BY OwingFinite, StepTypeOK, OwingFiniteNext DEF IInv
  <2> QED
    BY <2>1, ReserveGrows, GoPipelineAssumption DEF SweepInv
<1> QED
  BY <1>1, <1>2, InitIInv, StepIInv, PTL DEF Spec

(* However many workers sweep at once, on whatever threshold, the balance  *)
(* stays at or above the initial capital.                                  *)
THEOREM CapitalKeptHolds == Spec => []CapitalKept
<1>1. IInv /\ SweepInv => CapitalKept
  <2> SUFFICES ASSUME IInv, SweepInv PROVE CapitalKept
    OBVIOUS
  <2>1. wallet \in Int /\ Cardinality(Owing) \in Nat
    BY OwingFinite DEF IInv, TypeOK
  <2> QED
    BY <2>1, GoPipelineAssumption DEF SweepInv, Reserve, CapitalKept, PayoutBonus
<1> QED
  BY <1>1, SweepInvHolds, PTL

(* Any stake leaves room for one bonus per asset, or is the smallest bet.  *)
LEMMA StakeLeavesRoom ==
  ASSUME NEW balance \in Int, NEW owed \in Nat, owed <= 7
  PROVE  StakeOf(balance) <= 150 \/ StakeOf(balance) <= balance - PayoutBonus * owed
<1>1. CASE balance < 2000
  BY <1>1 DEF StakeOf
<1>2. CASE balance >= 2000 /\ balance < 10000
  <2>1. StakeOf(balance) <= balance \div 8
    BY <1>2 DEF StakeOf
  <2> QED
    BY <1>2, <2>1, StakeTyped DEF PayoutBonus
<1>3. CASE balance >= 10000
  <2>1. StakeOf(balance) <= (balance * 8) \div 10
    BY <1>3 DEF StakeOf
  <2> QED
    BY <1>3, <2>1, StakeTyped DEF PayoutBonus
<1> QED
  BY <1>1, <1>2, <1>3

(* No sweep leaves a queued request without its stake: with at most seven  *)
(* assets (AssetCount is 6) and a capital of the smallest bet, whatever    *)
(* the sweep threshold and the number of workers.                          *)
THEOREM StakeCoveredHolds ==
  ASSUME NumAssets <= 7, InitialCapital >= 150
  PROVE  Spec => []StakeCovered
<1>1. Init => StakesSpared
  BY DEF Init, StakesSpared, Sending
<1>2. IInv /\ SweepInv /\ StakesSpared /\ [Next]_vars => StakesSpared'
  <2> SUFFICES ASSUME IInv, SweepInv, StakesSpared, [Next]_vars PROVE StakesSpared'
    OBVIOUS
  <2>1. TypeOK /\ TypeOK' /\ Reserve \in Int /\ Reserve' \in Int
    BY OwingFinite, StepTypeOK, OwingFiniteNext DEF IInv
  <2>2. Reserve' >= Reserve
    BY ReserveGrows DEF SweepInv
  <2>3. execCh \in Seq(Requests) /\ execCh' \in Seq(Requests) /\ engine \in Engines
        /\ engine' \in Engines
    BY <2>1 DEF TypeOK, Requests, Engines
  <2>0. /\ \A i \in 1 .. Len(execCh) : execCh[i].stake \in Int
        /\ \A i \in 1 .. Len(execCh') : execCh'[i].stake \in Int
        /\ engine.stake \in Int /\ engine'.stake \in Int
    BY <2>3, RequestTyped DEF Engines
  <2>9. \A stake \in Int : stake <= Reserve => stake <= Reserve'
    BY <2>1, <2>2
  <2>4. CASE Fire
    <3>1. engine'.stake = StakeOf(wallet) /\ execCh' = execCh
      BY <2>3, <2>4 DEF Fire, Engines, channels
    <3>2. wallet \in Int /\ Cardinality(Owing) \in Nat /\ Cardinality(Owing) <= NumAssets
      BY <2>1, OwingFinite, OwingBounded DEF TypeOK
    <3>3. StakeOf(wallet) <= Reserve
      BY <2>1, <3>2, StakeLeavesRoom, StakeTyped, GoPipelineAssumption
      DEF SweepInv, Reserve
    <3> QED
      BY <2>0, <2>9, <3>1, <3>3 DEF StakesSpared
  <2>5. CASE Send
    <3>1. /\ execCh' = Append(execCh, [asset |-> engine.asset, stake |-> engine.stake])
          /\ Sending /\ ~Sending'
      BY <2>1, <2>5, NextAssetTyped DEF Send, Sending
    <3>2. [asset |-> engine.asset, stake |-> engine.stake] \in Requests
      BY <2>3 DEF Engines, Requests
    <3>3. \A i \in 1 .. Len(execCh') : execCh'[i].stake <= Reserve
      BY <2>3, <3>1, <3>2, Sent DEF StakesSpared
    <3> QED
      BY <2>0, <2>9, <3>1, <3>3 DEF StakesSpared
  <2>6. ASSUME NEW w \in Workers, Take(w) PROVE StakesSpared'
    <3>1. execCh' = Tail(execCh) /\ execCh # <<>> /\ engine' = engine
      BY <2>6 DEF Take
    <3>2. \A i \in 1 .. Len(execCh') : execCh'[i].stake <= Reserve
      BY <2>3, <3>1, Received DEF StakesSpared
    <3> QED
      BY <2>0, <2>9, <3>1, <3>2 DEF StakesSpared, Sending
  <2>7. CASE execCh' = execCh /\ (Sending' => Sending /\ engine' = engine)
    BY <2>0, <2>9, <2>7 DEF StakesSpared
  <2>8. ~Fire /\ ~Send /\ (\A w \in Workers : ~Take(w))
          => execCh' = execCh /\ (Sending' => Sending /\ engine' = engine)
    <3> USE DEF shared, channels, places, Sending
    <3>1. CASE UNCHANGED vars \/ CloseDone \/ \E a \in Asset : NewBook(a) \/ MarketCloses(a)
      BY <3>1 DEF vars, CloseDone, NewBook, MarketCloses
    <3>2. CASE EngineStep
      BY <2>1, <2>3, <3>2, NextAssetTyped
      DEF EngineStep, ScanStop, ScanStart, Skip, DropSignal, Engines
    <3>3. CASE DrainerStep
      BY <3>3 DEF DrainerStep, Receive, ClearInflight, CheckPnl, DrainerReturns
    <3>4. ASSUME NEW w \in Workers, WorkerStep(w), ~Take(w)
          PROVE  execCh' = execCh /\ engine' = engine
      BY <3>4 DEF WorkerStep, Credit, SweepRead, SweepWrite, Reply, DropResult,
        WorkerReturns
    <3> QED
      BY <3>1, <3>2, <3>3, <3>4 DEF Next
  <2> QED
    BY <2>4, <2>5, <2>6, <2>7, <2>8
<1>3. IInv /\ SweepInv /\ StakesSpared => StakeCovered
  <2> SUFFICES ASSUME IInv, SweepInv, StakesSpared PROVE StakeCovered
    OBVIOUS
  <2>1. wallet \in Int /\ Cardinality(Owing) \in Nat /\ execCh \in Seq(Requests)
    BY OwingFinite DEF IInv, TypeOK, Requests
  <2>2. DOMAIN execCh = 1 .. Len(execCh)
        /\ \A i \in 1 .. Len(execCh) : execCh[i].stake \in Int
    BY <2>1, RequestTyped
  <2>3. \A stake \in Int : stake <= Reserve => stake <= wallet
    BY <2>1 DEF Reserve, PayoutBonus
  <2> QED
    BY <2>2, <2>3 DEF StakesSpared, StakeCovered
<1> QED
  BY <1>1, <1>2, <1>3, SweepInvHolds, PTL DEF Spec

-----------------------------------------------------------------------------
(* The refinement of AssetDesk.                                            *)
Paid == {"balance", "sweep", "reply"}

(* What a send adds to the assets in a channel.                            *)
LEMMA CarriedSent ==
  ASSUME NEW S, NEW ch \in Seq(S), NEW x \in S, x.asset \in Asset
  PROVE  Carried(Append(ch, x)) = Carried(ch) \cup {x.asset}
<1>1. /\ Len(Append(ch, x)) = Len(ch) + 1 /\ Len(ch) \in Nat
      /\ \A i \in 1 .. Len(ch) : Append(ch, x)[i] = ch[i]
      /\ Append(ch, x)[Len(ch) + 1] = x
      /\ DOMAIN ch = 1 .. Len(ch)
      /\ DOMAIN Append(ch, x) = 1 .. Len(ch) + 1
  OBVIOUS
<1>2. \A i \in 1 .. Len(ch) + 1 : i \in 1 .. Len(ch) \/ i = Len(ch) + 1
  BY <1>1
<1>3. 1 .. Len(ch) \subseteq 1 .. Len(ch) + 1 /\ Len(ch) + 1 \in 1 .. Len(ch) + 1
  BY <1>1
<1>4. ASSUME NEW a \in Asset
      PROVE  (\E i \in 1 .. Len(ch) + 1 : Append(ch, x)[i].asset = a)
               <=> (\E i \in 1 .. Len(ch) : ch[i].asset = a) \/ a = x.asset
  BY <1>1, <1>2, <1>3
<1> QED
  BY <1>1, <1>4 DEF Carried

(* What a receive takes from them, if no two orders are of one asset.      *)
LEMMA CarriedReceived ==
  ASSUME NEW S, NEW ch \in Seq(S), ch # <<>>, Head(ch).asset \in Asset,
         \A i, j \in 1 .. Len(ch) : ch[i].asset = ch[j].asset => i = j
  PROVE  /\ Carried(Tail(ch)) = Carried(ch) \ {Head(ch).asset}
         /\ Head(ch).asset \in Carried(ch)
<1> DEFINE n == Len(ch)
           rest == Tail(ch)
<1>1. /\ n \in Nat \ {0} /\ DOMAIN rest = 1 .. n - 1 /\ DOMAIN ch = 1 .. n
      /\ \A i \in 1 .. n - 1 : rest[i] = ch[i + 1]
      /\ Head(ch) = ch[1]
  BY Received
<1> HIDE DEF n, rest
<1>2. /\ 1 \in 1 .. n
      /\ \A i \in 1 .. n - 1 : i + 1 \in 1 .. n /\ i + 1 # 1
      /\ \A i \in 1 .. n : i = 1 \/ (i - 1 \in 1 .. n - 1 /\ i = (i - 1) + 1)
  BY <1>1
<1>3. ASSUME NEW a \in Asset
      PROVE  (\E i \in 1 .. n - 1 : rest[i].asset = a)
               <=> (\E i \in 1 .. n : ch[i].asset = a) /\ a # ch[1].asset
  <2>1. ASSUME NEW i \in 1 .. n - 1, rest[i].asset = a
        PROVE  i + 1 \in 1 .. n /\ ch[i + 1].asset = a /\ a # ch[1].asset
    BY <1>1, <1>2, <2>1 DEF n
  <2>2. ASSUME NEW i \in 1 .. n, ch[i].asset = a, a # ch[1].asset
        PROVE  i - 1 \in 1 .. n - 1 /\ rest[i - 1].asset = a
    <3>1. i - 1 \in 1 .. n - 1 /\ i = (i - 1) + 1
      BY <1>2, <2>2
    <3>2. rest[i - 1] = ch[(i - 1) + 1]
      BY <1>1, <3>1
    <3> QED
      BY <2>2, <3>1, <3>2
  <2> QED
    BY <2>1, <2>2
<1>4. /\ Carried(rest) = { a \in Asset : \E i \in 1 .. n - 1 : rest[i].asset = a }
      /\ Carried(ch) = { a \in Asset : \E i \in 1 .. n : ch[i].asset = a }
  BY <1>1 DEF Carried
<1>5. Carried(rest) = Carried(ch) \ {ch[1].asset}
  BY <1>3, <1>4
<1>6. ch[1].asset \in Carried(ch)
  BY <1>1, <1>2, <1>4
<1> QED
  BY <1>1, <1>5, <1>6 DEF rest

(* The stations of the desk share no asset.                                *)
LEMMA StationsApart ==
  ASSUME IInv, NEW a \in Asset
  PROVE  /\ a \in Carried(execCh) =>
              a \notin AtWorker({"credit"}) \cup AtWorker(Paid) \cup Carried(resCh)
         /\ a \in Carried(resCh) => a \notin AtWorker({"credit"}) \cup AtWorker(Paid)
         /\ a \in AtWorker({"credit"}) => a \notin AtWorker(Paid)
         /\ a \in placedBar =>
              a \notin queuedBar \cup filledBar \cup bookedBar
         /\ a \in bookedBar => a \notin queuedBar \cup filledBar
         /\ Present(a) <=>
              a \in placedBar \cup queuedBar \cup filledBar \cup bookedBar
<1>1. /\ DOMAIN execCh = 1 .. Len(execCh) /\ DOMAIN resCh = 1 .. Len(resCh)
  BY DEF IInv, TypeOK
<1>2. \A w \in Workers : Busy(w) <=> worker[w].at \in {"credit"} \cup Paid
  BY DEF IInv, TypeOK, Busy, Paid
<1>3. /\ a \in Carried(execCh) <=> \E i \in 1 .. Len(execCh) : execCh[i].asset = a
      /\ a \in Carried(resCh) <=> \E i \in 1 .. Len(resCh) : resCh[i].asset = a
  BY <1>1 DEF Carried
<1>4. /\ a \in AtWorker({"credit"}) <=>
           \E w \in Workers : worker[w].at = "credit" /\ worker[w].asset = a
      /\ a \in AtWorker(Paid) <=>
           \E w \in Workers : worker[w].at \in Paid /\ worker[w].asset = a
  BY DEF AtWorker
<1>5. "credit" \notin Paid
  BY DEF Paid
<1>6. /\ a \in placedBar <=> Sending /\ engine.asset = a
      /\ a \in bookedBar <=> Clearing /\ drainer.asset = a
  BY DEF placedBar, bookedBar, Sending, Clearing
<1>7. /\ a \in queuedBar <=> a \in Carried(execCh) \cup AtWorker({"credit"})
      /\ a \in filledBar <=> a \in AtWorker(Paid) \cup Carried(resCh)
  BY DEF queuedBar, filledBar, Paid
<1> QED
  BY <1>2, <1>3, <1>4, <1>5, <1>6, <1>7 DEF IInv, Apart, Present

(* The pipeline starts as an open desk without orders.                     *)
LEMMA DeskInitMaps == Init => Desk!DeskInit
<1> SUFFICES ASSUME Init PROVE Desk!DeskInit
  OBVIOUS
<1>1. /\ placedBar = {} /\ queuedBar = {} /\ filledBar = {} /\ bookedBar = {}
      /\ lost = {} /\ engine.at # "returned"
  BY DEF Init, placedBar, queuedBar, filledBar, bookedBar, Carried, AtWorker
<1> QED
  BY <1>1, GoPipelineAssumption DEF Init, Desk!DeskInit

(* Steps of goroutines that hold no order, or move it within a station.    *)
LEMMA DeskStutters ==
  ASSUME IInv, IInv',
         \/ UNCHANGED vars \/ CloseDone
         \/ \E a \in Asset : NewBook(a) \/ MarketCloses(a)
         \/ ScanStart \/ Skip \/ CheckPnl \/ DrainerReturns
         \/ \E w \in Workers : SweepRead(w) \/ SweepWrite(w) \/ WorkerReturns(w)
  PROVE  UNCHANGED Desk!deskVars
<1> USE DEF books, shared, channels, places
<1>1. TypeOK /\ wallet \in Int /\ swept \in Int
  BY DEF IInv, TypeOK
<1>2. SUFFICES /\ UNCHANGED <<execCh, resCh, lost, cumulativePnl>>
               /\ wallet' + swept' = wallet + swept
               /\ placedBar' = placedBar /\ bookedBar' = bookedBar
               /\ (engine.at # "returned")' = (engine.at # "returned")
               /\ AtWorker({"credit"})' = AtWorker({"credit"})
               /\ AtWorker(Paid)' = AtWorker(Paid)
  BY DEF Desk!deskVars, Desk!slots, queuedBar, filledBar, Carried, Paid
<1>3. CASE UNCHANGED vars \/ CloseDone \/ \E a \in Asset : NewBook(a) \/ MarketCloses(a)
  BY <1>3 DEF vars, CloseDone, NewBook, MarketCloses, placedBar, bookedBar, AtWorker
<1>4. CASE ScanStart \/ Skip
  <2>1. engine.at \notin {"send", "returned"} /\ engine'.at \notin {"send", "returned"}
    <3>1. CASE ScanStart
      BY <1>1, <3>1 DEF ScanStart, TypeOK
    <3>2. CASE Skip
      BY <1>1, <3>2 DEF Skip, NextAsset, TypeOK
    <3> QED
      BY <1>4, <3>1, <3>2
  <2> QED
    BY <1>4, <2>1 DEF ScanStart, Skip, placedBar, bookedBar, AtWorker
<1>5. CASE CheckPnl \/ DrainerReturns
  <2>1. drainer.at # "clear" /\ drainer'.at # "clear"
    BY <1>1, <1>5 DEF CheckPnl, DrainerReturns, TypeOK
  <2> QED
    BY <1>5, <2>1 DEF CheckPnl, DrainerReturns, placedBar, bookedBar, AtWorker
<1>6. ASSUME NEW w \in Workers, SweepRead(w) \/ SweepWrite(w) \/ WorkerReturns(w)
      PROVE  /\ AtWorker({"credit"})' = AtWorker({"credit"})
             /\ AtWorker(Paid)' = AtWorker(Paid)
             /\ wallet' + swept' = wallet + swept
  <2>1. /\ worker' \in [Workers -> WorkerStates] /\ worker \in [Workers -> WorkerStates]
        /\ worker'[w].asset = worker[w].asset
        /\ \A v \in Workers \ {w} : worker'[v] = worker[v]
    BY <1>1, <1>6, Moved, SweepReadMoves
    DEF SweepWrite, WorkerReturns, Stations, TypeOK, WorkerStates
  <2>2. /\ worker[w].at \in Paid \cup {"idle", "returned"}
        /\ worker'[w].at \in Paid \cup {"idle", "returned"}
        /\ worker[w].at \in Paid <=> worker'[w].at \in Paid
    <3>1. CASE SweepRead(w)
      BY <1>1, <3>1, SweepReadMoves DEF SweepRead, Paid
    <3>2. CASE SweepWrite(w) \/ WorkerReturns(w)
      BY <1>1, <3>2, Moved DEF SweepWrite, WorkerReturns, Stations, Paid
    <3> QED
      BY <1>6, <3>1, <3>2
  <2>3. /\ worker[w].at \notin {"credit"} /\ worker'[w].at \notin {"credit"}
        /\ worker'[w].asset \in Asset
    BY <2>1, <2>2 DEF Paid, WorkerStates
  <2>4. AtWorker({"credit"})' = AtWorker({"credit"})
    BY <2>1, <2>3 DEF AtWorker
  <2>5. AtWorker(Paid)' = AtWorker(Paid)
    BY <2>1, <2>2 DEF AtWorker
  <2>6. wallet' + swept' = wallet + swept
    <3>1. CASE SweepWrite(w)
      BY <1>1, <2>1, <3>1 DEF SweepWrite, SweptBalance, WorkerStates
    <3>2. CASE SweepRead(w) \/ WorkerReturns(w)
      BY <3>2 DEF SweepRead, WorkerReturns
    <3> QED
      BY <1>6, <3>1, <3>2
  <2> QED
    BY <2>4, <2>5, <2>6
<1>7. ASSUME NEW w \in Workers, SweepRead(w) \/ SweepWrite(w) \/ WorkerReturns(w)
      PROVE  UNCHANGED <<execCh, resCh, lost, cumulativePnl, engine, drainer>>
  BY <1>7 DEF SweepRead, SweepWrite, WorkerReturns
<1> QED
  BY <1>3, <1>4, <1>5, <1>6, <1>7 DEF placedBar, bookedBar

(* The steps of the scan loop.                                             *)
LEMMA DeskEngine ==
  ASSUME IInv, IInv', ScanStop \/ Fire \/ Send \/ DropSignal
  PROVE  Desk!DeskNext
<1> USE DEF books, shared, channels, places
<1>1. /\ TypeOK /\ wallet \in Int /\ swept \in Int /\ engine \in Engines
      /\ engine.asset \in Asset
  BY DEF IInv, TypeOK, Engines
<1>2. bookedBar' = bookedBar /\ AtWorker({"credit"})' = AtWorker({"credit"})
      /\ AtWorker(Paid)' = AtWorker(Paid) /\ filledBar' = filledBar
      /\ UNCHANGED <<lost, cumulativePnl>> /\ wallet' + swept' = wallet + swept
  BY DEF ScanStop, Fire, Send, DropSignal, bookedBar, AtWorker, filledBar, Carried, Paid
<1>3. CASE ScanStop
  <2>1. placedBar = {} /\ placedBar' = {} /\ queuedBar' = queuedBar
        /\ engine.at # "returned" /\ engine'.at = "returned"
    BY <1>1, <1>2, <1>3 DEF ScanStop, placedBar, queuedBar, Carried, Engines
  <2>2. Desk!StopPlacing
    BY <1>2, <2>1 DEF Desk!StopPlacing, Desk!slots
  <2> QED
    BY <2>2 DEF Desk!DeskNext
<1>4. CASE Fire
  <2>1. /\ engine.at = "asset" /\ engine'.at = "send" /\ engine'.asset = engine.asset
        /\ engine.asset \notin inflight /\ execCh' = execCh
    BY <1>1, <1>4 DEF Fire, MayFire, Engines
  <2>2. placedBar = {} /\ placedBar' = {engine.asset} /\ queuedBar' = queuedBar
    BY <1>1, <1>2, <2>1 DEF placedBar, queuedBar, Carried
  <2>3. Desk!Free(engine.asset)
    BY <1>1, <2>1, StationsApart DEF IInv, Bits, Desk!Free
  <2>4. Desk!Place(engine.asset)
    BY <1>2, <2>1, <2>2, <2>3 DEF Desk!Place
  <2> QED
    BY <1>1, <2>4 DEF Desk!DeskNext
<1>5. CASE Send \/ DropSignal
  <2>1. /\ engine.at = "send" /\ engine'.at \notin {"send", "returned"}
    BY <1>1, <1>5 DEF Send, DropSignal, NextAsset, Engines
  <2>2. placedBar = {engine.asset} /\ placedBar' = {}
    BY <1>1, <2>1 DEF placedBar
  <2>3. CASE Send
    <3> DEFINE order == [asset |-> engine.asset, stake |-> engine.stake]
    <3>1. execCh \in Seq(Requests) /\ order \in Requests /\ order.asset = engine.asset
      BY <1>1 DEF TypeOK, Requests, Engines
    <3>2. execCh' = Append(execCh, order)
      BY <2>3 DEF Send
    <3> HIDE DEF order
    <3>3. Carried(execCh)' = Carried(execCh) \cup {engine.asset}
      <4>1. Carried(Append(execCh, order)) = Carried(execCh) \cup {order.asset}
        BY <1>1, <3>1, CarriedSent
      <4>2. Carried(execCh)' = Carried(execCh')
        BY DEF Carried
      <4> QED
        BY <3>1, <3>2, <4>1, <4>2
    <3>4. queuedBar' = queuedBar \cup {engine.asset}
      BY <1>2, <3>3 DEF queuedBar
    <3>5. Desk!Enqueue(engine.asset)
      BY <1>2, <2>1, <2>2, <3>4 DEF Desk!Enqueue
    <3> QED
      BY <1>1, <3>5 DEF Desk!DeskNext
  <2>4. CASE DropSignal
    <3>1. queuedBar' = queuedBar
      BY <1>2, <2>4 DEF DropSignal, queuedBar, Carried
    <3>2. Desk!Withdraw(engine.asset)
      BY <1>2, <2>1, <2>2, <3>1 DEF Desk!Withdraw
    <3> QED
      BY <1>1, <3>2 DEF Desk!DeskNext
  <2> QED
    BY <1>5, <2>3, <2>4
<1> QED
  BY <1>3, <1>4, <1>5

(* The steps of the drain that handle a result.                            *)
LEMMA DeskDrainer ==
  ASSUME IInv, IInv', Receive \/ ClearInflight
  PROVE  Desk!DeskNext
<1> USE DEF books, shared, channels, places
<1>1. /\ TypeOK /\ wallet \in Int /\ swept \in Int /\ cumulativePnl \in Int
      /\ drainer.asset \in Asset /\ drainer'.asset \in Asset
  BY DEF IInv, TypeOK
<1>2. placedBar' = placedBar /\ queuedBar' = queuedBar
      /\ AtWorker(Paid)' = AtWorker(Paid) /\ UNCHANGED <<lost, engine>>
  BY DEF Receive, ClearInflight, placedBar, queuedBar, Carried, AtWorker, Paid
<1>3. CASE Receive
  <2> DEFINE a == Head(resCh).asset
  <2>1. /\ resCh \in Seq(Results) /\ resCh # <<>> /\ resCh' = Tail(resCh)
        /\ drainer.at = "idle" /\ drainer' = [at |-> "clear", asset |-> a]
    BY <1>1, <1>3 DEF Receive, TypeOK, Results
  <2>2. Head(resCh) \in Results
    BY <2>1, Received
  <2>3. /\ a \in Asset
        /\ cumulativePnl' = cumulativePnl + PayoutBonus
        /\ wallet' + swept' = wallet + swept + PayoutBonus
    BY <1>1, <1>3, <2>2 DEF Receive, Results, PayoutBonus
  <2>4. Carried(resCh)' = Carried(resCh) \ {a} /\ a \in Carried(resCh)
    <3>1. Carried(Tail(resCh)) = Carried(resCh) \ {a} /\ a \in Carried(resCh)
      <4>1. \A i, j \in 1 .. Len(resCh) : resCh[i].asset = resCh[j].asset => i = j
        BY DEF IInv, Apart
      <4> QED
        BY <2>1, <2>3, <4>1, CarriedReceived
    <3>2. Carried(resCh)' = Carried(resCh')
      BY DEF Carried
    <3> QED
      BY <2>1, <3>1, <3>2
  <2>5. bookedBar = {} /\ bookedBar' = {a}
    BY <2>1, <2>3 DEF bookedBar
  <2> HIDE DEF a
  <2>6. a \notin AtWorker(Paid)
    BY <2>3, <2>4, StationsApart
  <2>7. filledBar' = filledBar \ {a} /\ a \in filledBar
    BY <1>2, <2>4, <2>6 DEF filledBar, Paid
  <2>8. Desk!Book(a)
    BY <1>2, <2>3, <2>5, <2>7 DEF Desk!Book
  <2> QED
    BY <2>3, <2>8 DEF Desk!DeskNext
<1>4. CASE ClearInflight
  <2>1. /\ drainer.at = "clear" /\ drainer'.at = "check"
        /\ UNCHANGED <<resCh, wallet, swept, cumulativePnl>>
    BY <1>1, <1>4 DEF ClearInflight, TypeOK
  <2>2. /\ bookedBar = {drainer.asset} /\ bookedBar' = {}
        /\ filledBar' = filledBar
    BY <1>1, <1>2, <2>1 DEF bookedBar, filledBar, Carried, Paid
  <2>3. Desk!Release(drainer.asset)
    BY <1>2, <2>1, <2>2 DEF Desk!Release
  <2> QED
    BY <1>1, <2>3 DEF Desk!DeskNext
<1> QED
  BY <1>3, <1>4

(* A worker that takes a request leaves the order queued.                  *)
LEMMA DeskTake ==
  ASSUME IInv, IInv', NEW w \in Workers, Take(w)
  PROVE  UNCHANGED Desk!deskVars
<1> DEFINE a == Head(execCh).asset
<1>1. /\ execCh \in Seq(Requests) /\ execCh # <<>> /\ execCh' = Tail(execCh)
      /\ worker \in [Workers -> WorkerStates] /\ worker[w].at = "idle"
  BY DEF IInv, TypeOK, Requests, WorkerStates, Stations, Take
<1>2. a \in Asset
  <2>1. Head(execCh) \in Requests
    BY <1>1, Received
  <2> QED
    BY <2>1 DEF Requests
<1>3. /\ worker'[w].at = "credit" /\ worker'[w].asset = a
      /\ \A v \in Workers \ {w} : worker'[v] = worker[v]
  BY <1>1 DEF Take
<1>4. Carried(execCh)' = Carried(execCh) \ {a} /\ a \in Carried(execCh)
  <2>1. Carried(Tail(execCh)) = Carried(execCh) \ {a} /\ a \in Carried(execCh)
    <3>1. \A i, j \in 1 .. Len(execCh) : execCh[i].asset = execCh[j].asset => i = j
      BY DEF IInv, Apart
    <3> QED
      BY <1>1, <1>2, <3>1, CarriedReceived
  <2>2. Carried(execCh)' = Carried(execCh')
    BY DEF Carried
  <2> QED
    BY <1>1, <2>1, <2>2
<1> HIDE DEF a
<1>5. AtWorker({"credit"})' = AtWorker({"credit"}) \cup {a}
  BY <1>1, <1>2, <1>3 DEF AtWorker
<1>6. AtWorker(Paid)' = AtWorker(Paid)
  BY <1>1, <1>3 DEF AtWorker, Paid
<1>7. queuedBar' = queuedBar
  BY <1>4, <1>5 DEF queuedBar
<1>8. /\ UNCHANGED <<resCh, engine, drainer, lost, wallet, swept, cumulativePnl>>
  BY DEF Take, shared
<1>9. filledBar' = filledBar /\ placedBar' = placedBar /\ bookedBar' = bookedBar
  BY <1>6, <1>8 DEF filledBar, placedBar, bookedBar, Carried, Paid
<1> QED
  BY <1>7, <1>8, <1>9 DEF Desk!deskVars, Desk!slots

(* The credit is the desk's fill, a lost result its loss; a reply stays    *)
(* within the filled orders.                                               *)
LEMMA DeskWorker ==
  ASSUME IInv, IInv', NEW w \in Workers, Credit(w) \/ Reply(w) \/ DropResult(w)
  PROVE  Desk!DeskNext \/ UNCHANGED Desk!deskVars
<1> DEFINE a == worker[w].asset
<1> USE DEF shared, channels
<1>1. /\ TypeOK /\ wallet \in Int /\ swept \in Int /\ a \in Asset
      /\ worker \in [Workers -> WorkerStates]
  BY DEF IInv, TypeOK, WorkerStates, Stations
<1>2. /\ worker'[w].asset = a
      /\ \A v \in Workers \ {w} : worker'[v] = worker[v]
  BY <1>1, Moved DEF Credit, Reply, DropResult, Stations
<1>3. /\ UNCHANGED <<execCh, engine, drainer, cumulativePnl>>
      /\ placedBar' = placedBar /\ bookedBar' = bookedBar
      /\ Carried(execCh)' = Carried(execCh)
  BY DEF Credit, Reply, DropResult, placedBar, bookedBar, Carried
<1>4. CASE Credit(w)
  <2>1. /\ worker[w].at = "credit" /\ worker'[w].at \in Paid
        /\ UNCHANGED <<resCh, lost>> /\ Carried(resCh)' = Carried(resCh)
        /\ wallet' + swept' = wallet + swept + PayoutBonus
    BY <1>1, <1>4, Moved DEF Credit, Stations, Paid, PayoutBonus, Carried
  <2>2. /\ AtWorker({"credit"})' = AtWorker({"credit"}) \ {a}
        /\ a \in AtWorker({"credit"})
    <3>1. worker'[w].at # "credit"
      BY <2>1 DEF Paid
    <3>2. \A v \in Workers : worker[v].at = "credit" /\ worker[v].asset = a => v = w
      BY <2>1 DEF IInv, Apart, Busy
    <3> QED
      BY <1>1, <1>2, <2>1, <3>1, <3>2 DEF AtWorker
  <2>3. AtWorker(Paid)' = AtWorker(Paid) \cup {a}
    BY <1>1, <1>2, <2>1 DEF AtWorker, Paid
  <2> HIDE DEF a
  <2>4. a \notin Carried(execCh)
    BY <1>1, <2>2, StationsApart
  <2>5. /\ queuedBar' = queuedBar \ {a} /\ a \in queuedBar
        /\ filledBar' = filledBar \cup {a}
    BY <1>3, <2>1, <2>2, <2>3, <2>4 DEF queuedBar, filledBar, Paid
  <2>6. Desk!Fill(a)
    BY <1>3, <2>1, <2>5 DEF Desk!Fill
  <2> QED
    BY <1>1, <2>6 DEF Desk!DeskNext
<1>5. CASE Reply(w) \/ DropResult(w)
  <2>1. /\ worker[w].at = "reply" /\ worker'[w].at = "idle"
        /\ UNCHANGED <<wallet, swept>>
    BY <1>1, <1>5, Moved DEF Reply, DropResult, Stations
  <2>2. /\ AtWorker(Paid)' = AtWorker(Paid) \ {a} /\ a \in AtWorker(Paid)
    <3>1. \A v \in Workers : worker[v].at \in Paid /\ worker[v].asset = a => v = w
      BY <2>1 DEF IInv, Apart, Busy, Paid
    <3> QED
      BY <1>1, <1>2, <2>1, <3>1 DEF AtWorker, Paid
  <2>3. AtWorker({"credit"})' = AtWorker({"credit"})
    BY <1>2, <2>1 DEF AtWorker
  <2>4. queuedBar' = queuedBar
    BY <1>3, <2>3 DEF queuedBar
  <2>5. CASE Reply(w)
    <3> DEFINE result == [asset |-> a, pnl |-> PayoutBonus]
    <3>1. resCh \in Seq(Results) /\ result \in Results /\ result.asset = a
      BY <1>1 DEF TypeOK, Results
    <3>2. resCh' = Append(resCh, result) /\ lost' = lost
      BY <2>5 DEF Reply
    <3> HIDE DEF result, a
    <3>3. Carried(resCh)' = Carried(resCh) \cup {a}
      <4>1. Carried(Append(resCh, result)) = Carried(resCh) \cup {result.asset}
        BY <1>1, <3>1, CarriedSent
      <4>2. Carried(resCh)' = Carried(resCh')
        BY DEF Carried
      <4> QED
        BY <3>1, <3>2, <4>1, <4>2
    <3>4. filledBar' = filledBar
      BY <2>2, <3>3 DEF filledBar, Paid
    <3> QED
      BY <1>3, <2>1, <2>4, <3>2, <3>4 DEF Desk!deskVars, Desk!slots
  <2>6. CASE DropResult(w)
    <3>1. /\ lost' = lost \cup {a} /\ Carried(resCh)' = Carried(resCh)
      BY <2>6 DEF DropResult, Carried
    <3> HIDE DEF a
    <3>2. a \notin Carried(resCh)
      BY <1>1, <2>2, StationsApart
    <3>3. filledBar' = filledBar \ {a} /\ a \in filledBar
      BY <2>2, <3>1, <3>2 DEF filledBar, Paid
    <3>4. Desk!Lose(a)
      BY <1>3, <2>1, <2>4, <3>1, <3>3 DEF Desk!Lose
    <3> QED
      BY <1>1, <3>4 DEF Desk!DeskNext
  <2> QED
    BY <1>5, <2>5, <2>6
<1> QED
  BY <1>4, <1>5 DEF Credit, Reply, DropResult

(* Whatever is dropped, swept or late, the pipeline is a desk with one     *)
(* slot per asset: each step is a step of the desk or leaves it as it was. *)
THEOREM DeskImplementedHolds == Spec => DeskImplemented
<1>1. IInv /\ IInv' /\ [Next]_vars => [Desk!DeskNext]_(Desk!deskVars)
  <2> SUFFICES ASSUME IInv, IInv', [Next]_vars
               PROVE  Desk!DeskNext \/ UNCHANGED Desk!deskVars
    OBVIOUS
  <2>1. CASE \E w \in Workers : WorkerStep(w)
    BY <2>1, DeskStutters, DeskTake, DeskWorker DEF WorkerStep
  <2>2. CASE EngineStep
    BY <2>2, DeskStutters, DeskEngine DEF EngineStep
  <2>3. CASE DrainerStep
    BY <2>3, DeskStutters, DeskDrainer DEF DrainerStep
  <2>4. CASE UNCHANGED vars \/ CloseDone \/ \E a \in Asset : NewBook(a) \/ MarketCloses(a)
    BY <2>4, DeskStutters
  <2> QED
    BY <2>1, <2>2, <2>3, <2>4 DEF Next
<1> QED
  BY <1>1, DeskInitMaps, InitIInv, StepIInv, PTL
  DEF Spec, DeskImplemented, Desk!DeskSpec
=============================================================================
