------------------------ MODULE LiveExecutorProofs -------------------------
(***************************************************************************)
(* Proofs about LiveExecutor: its two invariants for any number of         *)
(* workers, rounds, orders and gas prices.                                 *)
(***************************************************************************)
EXTENDS LiveExecutor, TLAPS

(* What each actor holds.                                                  *)
Roles ==
  /\ orders + queued <= MaxOrders
  /\ call[Harvester] \in Claims
  /\ \A w \in Workers : pc[w] \in {"nonce", "send", "confirm"} => call[w] \in Bets
  /\ \A a \in Actors : pc[a] \in {"send", "confirm"} => tx[a] \in Txs /\ tx[a].call = call[a]

(* The pool holds one transaction per nonce, none of a mined one.          *)
PoolOrder ==
  /\ \A p \in pool : p.nonce >= count
  /\ \A p, q \in pool : p.nonce = q.nonce => p = q

(* A transaction someone waits for is mined, pending, or was replaced by a *)
(* dearer one; so nobody can send it a second time.                        *)
Sent == \A a \in Actors : pc[a] = "confirm" =>
  \/ tx[a].nonce < count
  \/ \E p \in pool : p.nonce = tx[a].nonce /\ p.gas >= tx[a].gas

Distinct == \A a, b \in Actors :
  a # b /\ pc[a] = "confirm" /\ pc[b] = "confirm" => tx[a] # tx[b]

(* A good bet: the receipt of a bet that succeeded, in round r.            *)
GoodBet(receipt, r) ==
  receipt.ok /\ receipt.tx.call \in Bets /\ r \in receipt.tx.call.rounds

Mined ==
  /\ \A receipt \in receipts : receipt.tx.nonce < count
  /\ \A r \in Rounds : \A receipt \in receipts : GoodBet(receipt, r) => ledger[r] # "none"
  /\ \A r \in Rounds : \A x, y \in receipts : GoodBet(x, r) /\ GoodBet(y, r) => x = y

(* The good bet of a worker that still waits has not been booked.          *)
NotYetBooked == \A w \in Workers : \A receipt \in receipts : \A r \in Rounds :
  pc[w] = "confirm" /\ receipt.tx = tx[w] /\ GoodBet(receipt, r) => booked[r] = 0

IInv == /\ TypeOK /\ Roles /\ PoolOrder /\ Sent /\ Distinct /\ Mined
        /\ NotYetBooked /\ BookedIsMined

(* Before the workers start nothing is sent, mined or booked.              *)
LEMMA InitIInv == Init => IInv
<1> SUFFICES ASSUME Init PROVE IInv
  OBVIOUS
<1> USE BoundsAssumption, ActorsAssumption, GasAssumption
<1>0. /\ pc = [a \in Actors |-> IF a = Harvester THEN "scan" ELSE "idle"]
      /\ call = [a \in Actors |-> NoCall]
      /\ orders = MaxOrders /\ queued = 0 /\ count = 0
      /\ started = FALSE /\ booked = [r \in Rounds |-> 0] /\ receipts = {}
  BY DEF Init
<1>1. NoCall \in Claims
  BY DEF NoCall, Claims
<1>2. pool \subseteq Txs
  <2>1. \A r \in Rounds : [NoCall EXCEPT !.rounds = {r}] \in Claims
    BY DEF NoCall, Claims
  <2> QED
    BY <2>1 DEF Init, Txs
<1>3. TypeOK
  <2>1. round \in Rounds
    BY DEF Init, Rounds
  <2>2. /\ started \in BOOLEAN /\ orders \in 0..MaxOrders /\ queued \in 0..MaxOrders
        /\ count \in Nat
    <3>1. started = FALSE /\ orders = MaxOrders /\ queued = 0 /\ count = 0
      BY <1>0
    <3>2. started \in BOOLEAN
      BY <3>1, Zenon
    <3>3. orders \in 0..MaxOrders /\ queued \in 0..MaxOrders /\ count \in Nat
      BY <3>1
    <3> QED
      BY <3>2, <3>3
  <2>7. receipts \subseteq [tx : Txs, ok : BOOLEAN]
    BY <1>0
  <2>6. booked \in [Rounds -> Nat]
    BY <1>0
  <2>3. pc \in [Actors -> {"scan", "idle", "nonce", "send", "confirm", "over"}]
    BY <1>0
  <2>4. call \in [Actors -> Bets \cup Claims] /\ tx \in [Actors -> Txs \cup {NoTx}]
    BY <1>1 DEF Init
  <2>5. ledger \in [Rounds -> {"none", "bet", "won", "lost", "claimed"}]
    BY DEF Init
  <2> QED
    BY <1>2, <2>1, <2>2, <2>3, <2>4, <2>5, <2>6, <2>7 DEF TypeOK
<1>4. Roles
  <2>1. \A a \in Actors : pc[a] \in {"scan", "idle"}
    BY <1>0
  <2>2. call[Harvester] = NoCall
    BY <1>0 DEF Actors
  <2>3. \A a \in Workers : a \in Actors
    BY DEF Actors
  <2> QED
    BY <1>0, <1>1, <2>1, <2>2, <2>3 DEF Roles
<1>5. PoolOrder
  <2>0. \/ pool = {}
        \/ \E c, g : pool = {[call |-> c, nonce |-> 0, gas |-> g]}
    <3>1. pool \in {{}} \cup {{[call |-> [NoCall EXCEPT !.rounds = {r}], nonce |-> 0, gas |-> g]} :
                              r \in {q \in Rounds : ledger[q] = "won"}, g \in GasPrices}
      BY DEF Init
    <3>2. CASE pool # {}
      <4>1. PICK r \in Rounds, g \in GasPrices :
              pool = {[call |-> [NoCall EXCEPT !.rounds = {r}], nonce |-> 0, gas |-> g]}
        BY <3>1, <3>2
      <4> QED
        BY <4>1
    <3> QED
      BY <3>2
  <2>1. \A p \in pool : p.nonce = 0
    BY <2>0
  <2>2. \A p, q \in pool : p = q
    BY <2>0
  <2> QED
    BY <1>0, <2>1, <2>2 DEF PoolOrder
<1>6. Sent /\ Distinct /\ Mined /\ NotYetBooked
  BY DEF Init, Sent, Distinct, Mined, NotYetBooked, Actors
<1>7. BookedIsMined
  BY DEF Init, BookedIsMined
<1> QED
  BY <1>3, <1>4, <1>5, <1>6, <1>7 DEF IInv

(* A step after which nobody new waits for a receipt, and which leaves the *)
(* chain and the books alone.                                              *)
LEMMA QuietStep ==
  ASSUME IInv, UNCHANGED <<booked, pool, count, receipts>>,
         \A r \in Rounds : ledger[r] # "none" => ledger'[r] # "none",
         \A a \in Actors : pc'[a] = "confirm" => pc[a] = "confirm" /\ tx'[a] = tx[a]
  PROVE  /\ PoolOrder' /\ Sent' /\ Distinct' /\ Mined' /\ NotYetBooked' /\ BookedIsMined'
<1> USE DEF IInv
<1>1. PoolOrder'
  BY DEF PoolOrder
<1>2. Sent'
  BY DEF Sent
<1>3. Distinct'
  BY DEF Distinct
<1>4. Mined'
  BY DEF Mined, GoodBet
<1>5. NotYetBooked'
  BY DEF NotYetBooked, GoodBet, Actors
<1>6. BookedIsMined'
  BY DEF BookedIsMined
<1> QED
  BY <1>1, <1>2, <1>3, <1>4, <1>5, <1>6

(***************************************************************************)
(* The executor's steps.                                                   *)
(***************************************************************************)
(* The harvester's scan reads the chain and chooses its claims.            *)
LEMMA ScanIInv == IInv /\ Scan => IInv'
<1> SUFFICES ASSUME IInv, Scan PROVE IInv'
  OBVIOUS
<1> USE DEF Scan, chainVars
<1>1. PICK won \in SUBSET {r \in Rounds : Claimable(r) /\ r + Oldest >= round} :
        /\ call' = [call EXCEPT ![Harvester].rounds = won]
        /\ pc' = [pc EXCEPT ![Harvester] = IF won = {} THEN "over" ELSE "nonce"]
  OBVIOUS
<1>2. /\ Harvester \in Actors /\ \A w \in Workers : w \in Actors /\ w # Harvester
      /\ pc \in [Actors -> {"scan", "idle", "nonce", "send", "confirm", "over"}]
      /\ call \in [Actors -> Bets \cup Claims]
  BY ActorsAssumption DEF Actors, IInv, TypeOK
<1>3. call'[Harvester] \in Claims
  <2>1. call[Harvester] \in Claims /\ won \in SUBSET Rounds
    BY DEF IInv, Roles
  <2>2. call'[Harvester] = [call[Harvester] EXCEPT !.rounds = won]
    BY <1>1, <1>2
  <2> QED
    BY <2>1, <2>2 DEF Claims
<1>4. \A a \in Actors \ {Harvester} : pc'[a] = pc[a] /\ call'[a] = call[a]
  BY <1>1, <1>2
<1>5. pc'[Harvester] \in {"over", "nonce"}
  BY <1>1, <1>2
<1>6. call' \in [Actors -> Bets \cup Claims]
  BY <1>1, <1>2, <1>3, <1>4
<1>7. TypeOK'
  BY <1>1, <1>2, <1>5, <1>6 DEF IInv, TypeOK
<1>8. Roles'
  BY <1>2, <1>3, <1>4, <1>5 DEF IInv, Roles
<1>9. \A a \in Actors : pc'[a] = "confirm" => pc[a] = "confirm" /\ tx'[a] = tx[a]
  BY <1>4, <1>5
<1> QED
  BY <1>7, <1>8, <1>9, QuietStep DEF IInv

(* Starting the workers and placing an order touch no transaction.         *)
LEMMA StartAndPlaceIInv == IInv /\ (StartWorkers \/ PlaceOrder) => IInv'
<1> SUFFICES ASSUME IInv, StartWorkers \/ PlaceOrder PROVE IInv'
  OBVIOUS
<1>1. TypeOK' /\ Roles'
  <2>1. CASE StartWorkers
    BY <2>1 DEF IInv, TypeOK, Roles, StartWorkers, chainVars
  <2>2. CASE PlaceOrder
    <3>1. /\ orders' \in 0..MaxOrders /\ queued' \in 0..MaxOrders
          /\ orders' + queued' <= MaxOrders
      BY <2>2, BoundsAssumption DEF IInv, TypeOK, Roles, PlaceOrder
    <3> QED
      BY <2>2, <3>1 DEF IInv, TypeOK, Roles, PlaceOrder, chainVars
  <2> QED
    BY <2>1, <2>2
<1>2. /\ UNCHANGED <<booked, ledger, pool, count, receipts>>
      /\ \A a \in Actors : pc'[a] = "confirm" => pc[a] = "confirm" /\ tx'[a] = tx[a]
  BY DEF StartWorkers, PlaceOrder, chainVars
<1> QED
  BY <1>1, <1>2, QuietStep DEF IInv

(* A worker takes an order that nobody else handles.                       *)
LEMMA TakeOrderIInv == ASSUME IInv, NEW w \in Workers, TakeOrder(w) PROVE IInv'
<1>0. 1..round \subseteq Rounds
  BY BoundsAssumption DEF IInv, TypeOK, Rounds
<1>1. PICK r \in Rounds, s \in Sides :
        call' = [call EXCEPT ![w] = [kind |-> "bet", rounds |-> {r}, side |-> s]]
  BY <1>0 DEF TakeOrder
<1>2. /\ started /\ queued > 0 /\ queued' = queued - 1
      /\ pc' = [pc EXCEPT ![w] = "nonce"]
      /\ UNCHANGED <<started, orders, tx, booked, round, ledger, count, pool, receipts>>
  BY DEF TakeOrder, chainVars
<1>3. /\ w \in Actors /\ w # Harvester /\ \A v \in Workers : v \in Actors
      /\ Harvester \in Actors
      /\ pc \in [Actors -> {"scan", "idle", "nonce", "send", "confirm", "over"}]
      /\ call \in [Actors -> Bets \cup Claims]
  BY ActorsAssumption DEF Actors, IInv, TypeOK
<1>4. [kind |-> "bet", rounds |-> {r}, side |-> s] \in Bets
  BY DEF Bets
<1>5. TypeOK'
  <2>1. call' \in [Actors -> Bets \cup Claims]
    BY <1>1, <1>3, <1>4
  <2>2. queued' \in 0..MaxOrders
    BY <1>2, BoundsAssumption DEF IInv, TypeOK
  <2>3. pc' \in [Actors -> {"scan", "idle", "nonce", "send", "confirm", "over"}]
    BY <1>2, <1>3
  <2> QED
    BY <1>2, <2>1, <2>2, <2>3 DEF IInv, TypeOK
<1>6. Roles'
  <2>1. orders' + queued' <= MaxOrders
    BY <1>2, BoundsAssumption DEF IInv, TypeOK, Roles
  <2>2. /\ call'[w] \in Bets /\ pc'[w] = "nonce"
        /\ \A a \in Actors \ {w} : call'[a] = call[a] /\ pc'[a] = pc[a]
    BY <1>1, <1>2, <1>3, <1>4
  <2> QED
    BY <1>2, <1>3, <2>1, <2>2 DEF IInv, Roles
<1>7. \A a \in Actors : pc'[a] = "confirm" => pc[a] = "confirm" /\ tx'[a] = tx[a]
  BY <1>2, <1>3
<1> QED
  BY <1>2, <1>5, <1>6, <1>7, QuietStep DEF IInv

(* An actor reads the account's next nonce, which others may read as well. *)
LEMMA ReadNonceIInv == ASSUME IInv, NEW a \in Actors, ReadNonce(a) PROVE IInv'
<1>1. PICK g \in GasPrices :
        tx' = [tx EXCEPT ![a] = [call |-> call[a], nonce |-> count, gas |-> g]]
  BY DEF ReadNonce
<1>2. /\ pc[a] = "nonce" /\ pc' = [pc EXCEPT ![a] = "send"]
      /\ UNCHANGED <<started, orders, queued, call, booked, round, ledger, count, pool, receipts>>
  BY DEF ReadNonce, chainVars
<1>3. /\ pc \in [Actors -> {"scan", "idle", "nonce", "send", "confirm", "over"}]
      /\ tx \in [Actors -> Txs \cup {NoTx}]
      /\ call[a] \in Bets \cup Claims /\ count \in Nat
  BY DEF IInv, TypeOK
<1>4. [call |-> call[a], nonce |-> count, gas |-> g] \in Txs
  BY <1>3 DEF Txs
<1>5. /\ tx'[a] \in Txs /\ tx'[a].call = call[a] /\ pc'[a] = "send"
      /\ \A b \in Actors \ {a} : tx'[b] = tx[b] /\ pc'[b] = pc[b]
  BY <1>1, <1>2, <1>3, <1>4
<1>6. TypeOK'
  BY <1>1, <1>2, <1>3, <1>4 DEF IInv, TypeOK
<1>7. Roles'
  <2>1. \A w \in Workers : w \in Actors
    BY DEF Actors
  <2> QED
    BY <1>2, <1>5, <2>1 DEF IInv, Roles
<1>8. \A b \in Actors : pc'[b] = "confirm" => pc[b] = "confirm" /\ tx'[b] = tx[b]
  BY <1>5
<1> QED
  BY <1>2, <1>6, <1>7, <1>8, QuietStep DEF IInv

(* What an actor that has done with an order leaves behind.                *)
LEMMA DoneKeeps ==
  ASSUME IInv, NEW a \in Actors, Done(a),
         UNCHANGED <<round, ledger>>,
         count' \in Nat, pool' \subseteq Txs, receipts' \subseteq [tx : Txs, ok : BOOLEAN],
         booked' \in [Rounds -> Nat]
  PROVE  /\ TypeOK' /\ Roles'
         /\ \A b \in Actors : pc'[b] = "confirm" => pc[b] = "confirm" /\ tx'[b] = tx[b]
         /\ pc'[a] # "confirm"
<1>1. /\ pc' = [pc EXCEPT ![a] = IF a = Harvester THEN "over" ELSE "idle"]
      /\ call' = [call EXCEPT ![a] = NoCall] /\ tx' = [tx EXCEPT ![a] = NoTx]
      /\ UNCHANGED <<started, orders, queued>>
  BY DEF Done
<1>2. /\ pc \in [Actors -> {"scan", "idle", "nonce", "send", "confirm", "over"}]
      /\ call \in [Actors -> Bets \cup Claims] /\ tx \in [Actors -> Txs \cup {NoTx}]
  BY DEF IInv, TypeOK
<1>3. NoCall \in Claims
  BY DEF NoCall, Claims
<1>4. /\ pc'[a] \in {"over", "idle"} /\ call'[a] = NoCall
      /\ \A b \in Actors \ {a} : pc'[b] = pc[b] /\ call'[b] = call[b] /\ tx'[b] = tx[b]
  BY <1>1, <1>2
<1>5. TypeOK'
  <2>1. call' \in [Actors -> Bets \cup Claims] /\ tx' \in [Actors -> Txs \cup {NoTx}]
    BY <1>1, <1>2, <1>3
  <2>2. pc' \in [Actors -> {"scan", "idle", "nonce", "send", "confirm", "over"}]
    BY <1>1, <1>2
  <2> QED
    BY <1>1, <2>1, <2>2 DEF IInv, TypeOK
<1>6. Roles'
  <2>1. Harvester \in Actors /\ \A w \in Workers : w \in Actors
    BY DEF Actors
  <2> QED
    BY <1>1, <1>3, <1>4, <2>1 DEF IInv, Roles
<1> QED
  BY <1>4, <1>5, <1>6

(* A call to a node fails: the actor gives up what it was doing.           *)
LEMMA FailIInv == ASSUME IInv, NEW a \in Actors, Fail(a) PROVE IInv'
<1>1. Done(a) /\ UNCHANGED <<booked, round, ledger, count, pool, receipts>>
  BY DEF Fail, chainVars
<1>2. /\ count \in Nat /\ pool \subseteq Txs /\ receipts \subseteq [tx : Txs, ok : BOOLEAN]
      /\ booked \in [Rounds -> Nat]
  BY DEF IInv, TypeOK
<1>3. /\ TypeOK' /\ Roles'
      /\ \A b \in Actors : pc'[b] = "confirm" => pc[b] = "confirm" /\ tx'[b] = tx[b]
  BY <1>1, <1>2, DoneKeeps
<1> QED
  BY <1>1, <1>3, QuietStep DEF IInv

(***************************************************************************)
(* A transaction enters the pool.                                          *)
(***************************************************************************)
LEMMA Entering ==
  ASSUME IInv, NEW t \in Txs, Acceptable(t), Enter(t), UNCHANGED count
  PROVE  /\ PoolOrder' /\ pool' \subseteq Txs /\ t \in pool'
         /\ \A p \in pool : \E q \in pool' : q.nonce = p.nonce /\ q.gas >= p.gas
<1>1. /\ pool' = {p \in pool : p.nonce # t.nonce} \cup {t}
      /\ t.nonce >= count /\ \A p \in pool : p.nonce = t.nonce => p.gas < t.gas
  BY DEF Enter, Acceptable
<1>2. pool \subseteq Txs
  BY DEF IInv, TypeOK
<1>3. \A p \in Txs : p.gas \in Nat /\ p.nonce \in Nat
  BY GasAssumption DEF Txs
<1>4. pool' \subseteq Txs /\ t \in pool'
  BY <1>1, <1>2
<1>5. PoolOrder'
  BY <1>1 DEF IInv, PoolOrder
<1>6. \A p \in pool : \E q \in pool' : q.nonce = p.nonce /\ q.gas >= p.gas
  <2>1. TAKE p \in pool
  <2>2. CASE p.nonce = t.nonce
    BY <1>1, <1>2, <1>3, <1>4, <2>2
  <2>3. CASE p.nonce # t.nonce
    BY <1>1, <1>2, <1>3, <2>3
  <2> QED
    BY <2>2, <2>3
<1> QED
  BY <1>4, <1>5, <1>6

(* Nobody waits for a transaction that the pool would take.                *)
LEMMA Unsent ==
  ASSUME IInv, NEW a \in Actors, tx[a] \in Txs, Acceptable(tx[a]),
         NEW b \in Actors, pc[b] = "confirm"
  PROVE  tx[b] # tx[a]
<1>1. \/ tx[b].nonce < count
      \/ \E p \in pool : p.nonce = tx[b].nonce /\ p.gas >= tx[b].gas
  BY DEF IInv, Sent
<1>2. pool \subseteq Txs /\ count \in Nat /\ \A p \in Txs : p.gas \in Nat /\ p.nonce \in Nat
  BY GasAssumption DEF IInv, TypeOK, Txs
<1> SUFFICES ASSUME tx[b] = tx[a] PROVE FALSE
  OBVIOUS
<1> QED
  BY <1>1, <1>2 DEF Acceptable

(* Transactions that were sent stay mined, pending or replaced.            *)
LEMMA SentKept ==
  ASSUME IInv, UNCHANGED count,
         \A p \in pool : \E q \in pool' : q.nonce = p.nonce /\ q.gas >= p.gas,
         pool' \subseteq Txs,
         NEW b \in Actors, pc[b] = "confirm"
  PROVE  \/ tx[b].nonce < count'
         \/ \E p \in pool' : p.nonce = tx[b].nonce /\ p.gas >= tx[b].gas
<1>1. \/ tx[b].nonce < count
      \/ \E p \in pool : p.nonce = tx[b].nonce /\ p.gas >= tx[b].gas
  BY DEF IInv, Sent
<1>2. tx[b] \in Txs /\ pool \subseteq Txs /\ \A p \in Txs : p.gas \in Nat /\ p.nonce \in Nat
  BY GasAssumption DEF IInv, TypeOK, Roles, Txs
<1> QED
  BY <1>1, <1>2

(* A transaction is sent and its sender waits for the receipt.             *)
LEMMA SendIInv == ASSUME IInv, NEW a \in Actors, Send(a) PROVE IInv'
<1>1. /\ pc[a] = "send" /\ Acceptable(tx[a]) /\ Enter(tx[a])
      /\ pc' = [pc EXCEPT ![a] = "confirm"]
      /\ UNCHANGED <<started, orders, queued, call, tx, booked, round, ledger, count, receipts>>
  BY DEF Send
<1>2. /\ pc \in [Actors -> {"scan", "idle", "nonce", "send", "confirm", "over"}]
      /\ tx[a] \in Txs /\ count \in Nat /\ receipts \subseteq [tx : Txs, ok : BOOLEAN]
  BY <1>1 DEF IInv, TypeOK, Roles
<1>3. pc'[a] = "confirm" /\ \A b \in Actors \ {a} : pc'[b] = pc[b]
  BY <1>1, <1>2
<1>4. /\ PoolOrder' /\ pool' \subseteq Txs /\ tx[a] \in pool'
      /\ \A p \in pool : \E q \in pool' : q.nonce = p.nonce /\ q.gas >= p.gas
  BY <1>1, <1>2, Entering
<1>5. TypeOK'
  BY <1>1, <1>2, <1>4 DEF IInv, TypeOK
<1>6. Roles'
  <2>1. \A w \in Workers : w \in Actors
    BY DEF Actors
  <2> QED
    BY <1>1, <1>3, <2>1 DEF IInv, Roles
<1>7. Sent'
  <2>1. \E p \in pool' : p.nonce = tx[a].nonce /\ p.gas >= tx[a].gas
    <3>1. tx[a].gas \in Nat
      BY <1>2, GasAssumption DEF Txs
    <3>2. tx[a].gas >= tx[a].gas
      BY <3>1
    <3> QED
      BY <1>4, <3>2
  <2>2. ASSUME NEW b \in Actors, b # a, pc'[b] = "confirm"
        PROVE  \/ tx[b].nonce < count'
               \/ \E p \in pool' : p.nonce = tx[b].nonce /\ p.gas >= tx[b].gas
    BY <1>1, <1>3, <1>4, <2>2, SentKept
  <2> QED
    BY <1>1, <2>1, <2>2 DEF Sent
<1>8. Distinct'
  <2>1. \A b \in Actors : pc[b] = "confirm" => tx[b] # tx[a]
    BY <1>1, <1>2, Unsent
  <2> QED
    BY <1>1, <1>3, <2>1 DEF IInv, Distinct
<1>9. Mined' /\ BookedIsMined'
  BY <1>1 DEF IInv, Mined, GoodBet, BookedIsMined
<1>10. NotYetBooked'
  <2>1. \A receipt \in receipts : receipt.tx # tx[a]
    BY <1>1, <1>2 DEF IInv, Mined, Acceptable, Txs
  <2>2. \A w \in Workers : w \in Actors
    BY DEF Actors
  <2> QED
    BY <1>1, <1>3, <2>1, <2>2 DEF IInv, NotYetBooked, GoodBet
<1> QED
  BY <1>4, <1>5, <1>6, <1>7, <1>8, <1>9, <1>10 DEF IInv

(* A transaction is sent but the node's answer is lost.                    *)
LEMMA SendLostIInv == ASSUME IInv, NEW a \in Actors, SendLost(a) PROVE IInv'
<1>1. /\ pc[a] = "send" /\ Acceptable(tx[a]) /\ Enter(tx[a]) /\ Done(a)
      /\ UNCHANGED <<booked, round, ledger, count, receipts>>
  BY DEF SendLost
<1>2. /\ tx[a] \in Txs /\ count \in Nat /\ receipts \subseteq [tx : Txs, ok : BOOLEAN]
      /\ booked \in [Rounds -> Nat]
  BY <1>1 DEF IInv, TypeOK, Roles
<1>3. /\ PoolOrder' /\ pool' \subseteq Txs
      /\ \A p \in pool : \E q \in pool' : q.nonce = p.nonce /\ q.gas >= p.gas
  BY <1>1, <1>2, Entering
<1>4. /\ TypeOK' /\ Roles'
      /\ \A b \in Actors : pc'[b] = "confirm" => pc[b] = "confirm" /\ tx'[b] = tx[b]
  BY <1>1, <1>2, <1>3, DoneKeeps
<1>5. Sent'
  <2>1. ASSUME NEW b \in Actors, pc[b] = "confirm"
        PROVE  \/ tx[b].nonce < count'
               \/ \E p \in pool' : p.nonce = tx[b].nonce /\ p.gas >= tx[b].gas
    BY <1>1, <1>3, <2>1, SentKept
  <2> QED
    BY <1>1, <1>4, <2>1 DEF Sent
<1>6. Distinct'
  BY <1>4 DEF IInv, Distinct
<1>7. Mined' /\ BookedIsMined'
  BY <1>1 DEF IInv, Mined, GoodBet, BookedIsMined
<1>8. NotYetBooked'
  BY <1>1, <1>4 DEF IInv, NotYetBooked, GoodBet, Actors
<1> QED
  BY <1>3, <1>4, <1>5, <1>6, <1>7, <1>8 DEF IInv

(***************************************************************************)
(* A receipt is read: the step that books an order.                        *)
(***************************************************************************)
(* A receipt is read: a bet that was mined with success is booked.         *)
LEMMA ConfirmIInv == ASSUME IInv, NEW a \in Actors, Confirm(a) PROVE IInv'
<1>1. PICK receipt \in receipts :
        /\ receipt.tx = tx[a]
        /\ booked' = IF receipt.ok /\ a \in Workers
                     THEN [r \in Rounds |-> IF r \in call[a].rounds
                                            THEN booked[r] + 1 ELSE booked[r]]
                     ELSE booked
  BY DEF Confirm
<1>2. /\ pc[a] = "confirm" /\ Done(a)
      /\ UNCHANGED <<round, ledger, count, pool, receipts>>
  BY DEF Confirm, chainVars
<1>3. /\ count \in Nat /\ pool \subseteq Txs /\ receipts \subseteq [tx : Txs, ok : BOOLEAN]
      /\ booked \in [Rounds -> Nat] /\ tx[a].call = call[a]
      /\ a \in Workers => call[a] \in Bets
  BY <1>2 DEF IInv, TypeOK, Roles
<1>4. booked' \in [Rounds -> Nat]
  <2>1. CASE receipt.ok /\ a \in Workers
    BY <1>1, <1>3, <2>1
  <2>2. CASE ~(receipt.ok /\ a \in Workers)
    BY <1>1, <1>3, <2>2
  <2> QED
    BY <2>1, <2>2
<1>5. /\ TypeOK' /\ Roles' /\ pc'[a] # "confirm"
      /\ \A b \in Actors : pc'[b] = "confirm" => pc[b] = "confirm" /\ tx'[b] = tx[b]
  BY <1>2, <1>3, <1>4, DoneKeeps
<1>6. PoolOrder' /\ Mined'
  BY <1>2 DEF IInv, PoolOrder, Mined, GoodBet
<1>7. Sent' /\ Distinct'
  BY <1>2, <1>5 DEF IInv, Sent, Distinct
<1>8. \A r \in Rounds : \/ booked'[r] = booked[r]
                        \/ /\ booked'[r] = booked[r] + 1 /\ GoodBet(receipt, r)
                           /\ a \in Workers
  <2>1. CASE receipt.ok /\ a \in Workers
    BY <1>1, <1>3, <2>1 DEF GoodBet
  <2>2. CASE ~(receipt.ok /\ a \in Workers)
    BY <1>1, <2>2
  <2> QED
    BY <2>1, <2>2
<1>9. \A r \in Rounds : booked'[r] # booked[r] => booked[r] = 0 /\ ledger[r] # "none"
  BY <1>1, <1>2, <1>8 DEF IInv, NotYetBooked, Mined
<1>10. BookedIsMined'
  <2>1. \A r \in Rounds : booked[r] \in Nat /\ booked'[r] \in Nat
    BY <1>3, <1>4
  <2>2. \A r \in Rounds : booked[r] <= 1 /\ (booked[r] = 1 => ledger[r] # "none")
    BY DEF IInv, BookedIsMined
  <2>3. ASSUME NEW r \in Rounds
        PROVE  booked'[r] <= 1 /\ (booked'[r] = 1 => ledger[r] # "none")
    <3>1. CASE booked'[r] = booked[r]
      BY <2>2, <3>1
    <3>2. CASE booked'[r] # booked[r]
      BY <1>8, <1>9, <3>2
    <3> QED
      BY <3>1, <3>2
  <2> QED
    BY <1>2, <2>3 DEF BookedIsMined
<1>11. NotYetBooked'
  <2>1. SUFFICES ASSUME NEW w \in Workers, NEW other \in receipts, NEW r \in Rounds,
                        pc'[w] = "confirm", other.tx = tx'[w], GoodBet(other, r)
                 PROVE  booked'[r] = 0
    BY <1>2 DEF NotYetBooked, GoodBet
  <2>2. /\ w \in Actors /\ w # a /\ pc[w] = "confirm" /\ other.tx = tx[w]
    BY <1>5, <2>1 DEF Actors
  <2>3. booked[r] = 0
    BY <2>1, <2>2 DEF IInv, NotYetBooked
  <2>4. tx[w] # tx[a]
    BY <1>2, <2>2 DEF IInv, Distinct
  <2>5. ~GoodBet(receipt, r)
    BY <1>1, <2>1, <2>2, <2>4 DEF IInv, Mined
  <2> QED
    BY <1>8, <2>3, <2>5
<1> QED
  BY <1>5, <1>6, <1>7, <1>10, <1>11 DEF IInv

(***************************************************************************)
(* The chain's steps.                                                      *)
(***************************************************************************)
(* The chain mines the pending transaction with the next nonce.            *)
LEMMA MineIInv == ASSUME IInv, Mine PROVE IInv'
<1>1. PICK t \in pool :
        /\ t.nonce = count /\ pool' = pool \ {t} /\ count' = count + 1
        /\ receipts' = receipts \cup {[tx |-> t, ok |-> Succeeds(t.call)]}
        /\ ledger' = [r \in Rounds |->
                        IF Succeeds(t.call) /\ r \in t.call.rounds
                        THEN IF t.call.kind = "bet" THEN "bet" ELSE "claimed"
                        ELSE ledger[r]]
        /\ UNCHANGED <<botVars, round>>
  BY DEF Mine
<1> DEFINE new == [tx |-> t, ok |-> Succeeds(t.call)]
<1>2. /\ UNCHANGED <<started, orders, queued, pc, call, tx, booked, round>>
      /\ pool \subseteq Txs /\ t \in Txs /\ count \in Nat
      /\ receipts \subseteq [tx : Txs, ok : BOOLEAN]
      /\ ledger \in [Rounds -> {"none", "bet", "won", "lost", "claimed"}]
  BY <1>1 DEF IInv, TypeOK, botVars
<1>3. \A p \in Txs : p.nonce \in Nat /\ p.gas \in Nat
  BY GasAssumption DEF Txs
<1>4. Succeeds(t.call) \in BOOLEAN
  BY DEF Succeeds
<1>5. TypeOK'
  <2>1. ledger' \in [Rounds -> {"none", "bet", "won", "lost", "claimed"}]
    BY <1>1, <1>2
  <2>2. receipts' \subseteq [tx : Txs, ok : BOOLEAN]
    BY <1>1, <1>2, <1>4
  <2>3. pool' \subseteq Txs /\ count' \in Nat
    BY <1>1, <1>2
  <2> QED
    BY <1>2, <2>1, <2>2, <2>3 DEF IInv, TypeOK
<1>6. Roles'
  BY <1>2 DEF IInv, Roles
<1>7. PoolOrder'
  BY <1>1, <1>2, <1>3 DEF IInv, PoolOrder
<1>8. Sent'
  <2>1. SUFFICES ASSUME NEW a \in Actors, pc[a] = "confirm"
                 PROVE  \/ tx[a].nonce < count'
                        \/ \E p \in pool' : p.nonce = tx[a].nonce /\ p.gas >= tx[a].gas
    BY <1>2 DEF Sent
  <2>2. tx[a].nonce \in Nat
    BY <1>3, <2>1 DEF IInv, Roles
  <2>3. CASE tx[a].nonce < count
    BY <1>1, <1>2, <2>2, <2>3
  <2>4. CASE \E p \in pool : p.nonce = tx[a].nonce /\ p.gas >= tx[a].gas
    BY <1>1, <1>2, <2>2, <2>4
  <2> QED
    BY <2>1, <2>3, <2>4 DEF IInv, Sent
<1>9. Distinct'
  BY <1>2 DEF IInv, Distinct
<1>10. \A receipt \in receipts : receipt.tx.nonce \in Nat /\ receipt.tx.nonce < count
                                 /\ receipt.tx # t
  BY <1>1, <1>2, <1>3 DEF IInv, Mined
<1>11. receipts' = receipts \cup {new} /\ new.tx = t /\ new.ok = Succeeds(t.call)
  BY <1>1
<1>12. \A r \in Rounds : GoodBet(new, r) => ledger[r] = "none" /\ ledger'[r] # "none"
  <2>1. ASSUME NEW r \in Rounds, GoodBet(new, r)
        PROVE  ledger[r] = "none" /\ ledger'[r] # "none"
    <3>1. Succeeds(t.call) /\ t.call.kind = "bet" /\ r \in t.call.rounds
      BY <1>11, <2>1 DEF GoodBet, Bets
    <3>2. ledger[r] = "none"
      BY <3>1 DEF Succeeds
    <3>3. ledger'[r] = "bet"
      BY <1>1, <3>1
    <3> QED
      BY <3>2, <3>3
  <2> QED
    BY <2>1
<1>13. \A r \in Rounds : ledger[r] # "none" => ledger'[r] # "none"
  BY <1>1
<1> HIDE DEF new
<1>14. Mined'
  <2>1. \A receipt \in receipts' : receipt.tx.nonce < count'
    BY <1>1, <1>2, <1>10, <1>11
  <2>2. \A r \in Rounds : \A receipt \in receipts' : GoodBet(receipt, r) => ledger'[r] # "none"
    BY <1>11, <1>12, <1>13 DEF IInv, Mined
  <2>3. \A r \in Rounds : \A x, y \in receipts' : GoodBet(x, r) /\ GoodBet(y, r) => x = y
    BY <1>11, <1>12 DEF IInv, Mined
  <2> QED
    BY <2>1, <2>2, <2>3 DEF Mined, GoodBet
<1>15. BookedIsMined'
  BY <1>2, <1>13 DEF IInv, BookedIsMined
<1>16. NotYetBooked'
  <2>1. SUFFICES ASSUME NEW w \in Workers, NEW receipt \in receipts', NEW r \in Rounds,
                        pc[w] = "confirm", receipt.tx = tx[w], GoodBet(receipt, r)
                 PROVE  booked[r] = 0
    BY <1>2 DEF NotYetBooked, GoodBet
  <2>2. CASE receipt \in receipts
    BY <2>1, <2>2 DEF IInv, NotYetBooked
  <2>3. CASE receipt = new
    <3>1. ledger[r] = "none"
      BY <1>12, <2>1, <2>3
    <3>2. booked[r] \in Nat /\ booked[r] <= 1 /\ booked[r] # 1
      BY <3>1 DEF IInv, TypeOK, BookedIsMined
    <3> QED
      BY <3>2
  <2> QED
    BY <1>11, <2>1, <2>2, <2>3
<1> QED
  BY <1>5, <1>6, <1>7, <1>8, <1>9, <1>14, <1>15, <1>16 DEF IInv

(* The market's rounds move on.                                            *)
LEMMA NextRoundIInv == ASSUME IInv, NextRound PROVE IInv'
<1>1. PICK outcome \in {"won", "lost"} :
        ledger' = [r \in Rounds |-> IF r + 1 = round /\ ledger[r] = "bet"
                                    THEN outcome ELSE ledger[r]]
  BY DEF NextRound
<1>2. /\ round < MaxRound /\ round' = round + 1
      /\ UNCHANGED <<started, orders, queued, pc, call, tx, booked, count, pool, receipts>>
  BY DEF NextRound, botVars
<1>3. TypeOK'
  <2>1. round' \in Rounds
    BY <1>2, BoundsAssumption DEF IInv, TypeOK, Rounds
  <2>2. ledger' \in [Rounds -> {"none", "bet", "won", "lost", "claimed"}]
    BY <1>1 DEF IInv, TypeOK
  <2> QED
    BY <1>2, <2>1, <2>2 DEF IInv, TypeOK
<1>4. Roles'
  BY <1>2 DEF IInv, Roles
<1>5. \A r \in Rounds : ledger[r] # "none" => ledger'[r] # "none"
  BY <1>1
<1> QED
  BY <1>2, <1>3, <1>4, <1>5, QuietStep DEF IInv

(* Every step of the executor, the harvester and the chain keeps the       *)
(* invariant.                                                              *)
LEMMA StepIInv == IInv /\ [Next]_vars => IInv'
<1> SUFFICES ASSUME IInv, [Next]_vars PROVE IInv'
  OBVIOUS
<1>1. CASE Scan \/ StartWorkers \/ PlaceOrder
  BY <1>1, ScanIInv, StartAndPlaceIInv
<1>2. CASE \E w \in Workers : TakeOrder(w)
  BY <1>2, TakeOrderIInv
<1>3. CASE \E a \in Actors : ReadNonce(a) \/ Send(a) \/ SendLost(a) \/ Fail(a) \/ Confirm(a)
  BY <1>3, ReadNonceIInv, SendIInv, SendLostIInv, FailIInv, ConfirmIInv
<1>4. CASE Mine \/ NextRound
  BY <1>4, MineIInv, NextRoundIInv
<1>5. CASE UNCHANGED vars
  <2>1. UNCHANGED <<started, orders, queued, pc, call, tx, booked, round, ledger,
                    count, pool, receipts>>
    BY <1>5 DEF vars, botVars, chainVars
  <2>2. TypeOK' /\ Roles'
    BY <2>1 DEF IInv, TypeOK, Roles
  <2> QED
    BY <2>1, <2>2, QuietStep DEF IInv
<1> QED
  BY <1>1, <1>2, <1>3, <1>4, <1>5 DEF Next

(* The invariant holds in every state the executor and the chain can reach.*)
THEOREM Invariance == Spec => []IInv
  BY InitIInv, StepIInv, PTL DEF Spec

(* The variables of the live executor and of the chain keep their ranges.  *)
THEOREM TypeCorrect == Spec => []TypeOK
<1>1. IInv => TypeOK
  BY DEF IInv
<1> QED
  BY <1>1, Invariance, PTL

(* "Esperar confirmación de la red para evitar falsos positivos": whatever *)
(* nonces the threads share and whichever transactions are replaced or     *)
(* answered late, an order reported as executed is a bet of its own.       *)
THEOREM BookedIsMinedHolds == Spec => []BookedIsMined
<1>1. IInv => BookedIsMined
  BY DEF IInv
<1> QED
  BY <1>1, Invariance, PTL
=============================================================================
