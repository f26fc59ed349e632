--------------------------- MODULE LiveExecutor ----------------------------
(***************************************************************************)
(* The live branch of Web3Executor (modules/web3_executor.py, dry_run      *)
(* FALSE): start() harvests old winnings in one transaction, then its      *)
(* workers bet, each in a thread of its own that reads the account's       *)
(* nonce, signs, sends and waits for the receipt.  Nothing serialises the  *)
(* threads, and any call to the node may fail or be answered too late.     *)
(*                                                                         *)
(* The chain is external: an account nonce, a pool that holds one pending  *)
(* transaction per nonce and replaces it only at a higher gas price, and a *)
(* contract that takes one bet per round and pays a won round once.  Two   *)
(* transactions with the same content are the same transaction.            *)
(***************************************************************************)
EXTENDS Naturals

CONSTANTS
  Workers,       (* max_parallel_signals                                    *)
  Harvester,     (* the call of run_harvester in start()                    *)
  MaxRound,      (* bounds the rounds                                       *)
  Oldest,        (* the harvester looks back this many rounds, 11           *)
  MaxOrders,     (* bounds the requests of the engine                       *)
  Sides, GasPrices

ASSUME BoundsAssumption ==
  MaxRound \in Nat \ {0, 1} /\ Oldest \in Nat /\ MaxOrders \in Nat
ASSUME ActorsAssumption == Harvester \notin Workers
ASSUME GasAssumption == GasPrices \subseteq Nat

Actors == Workers \cup {Harvester}
Rounds == 1..MaxRound

Bets   == [kind : {"bet"}, rounds : {{r} : r \in Rounds}, side : Sides]
Claims == [kind : {"claim"}, rounds : SUBSET Rounds, side : {"none"}]
Txs    == [call : Bets \cup Claims, nonce : Nat, gas : GasPrices]

VARIABLES
  started,   (* start() is past the harvester: the workers run              *)
  orders,    (* requests the engine may still place                         *)
  queued,    (* requests in execution_queue                                 *)
  pc,        (* each actor: "idle", "nonce", "send", "confirm", "over"      *)
  call,      (* the contract call it is about to make                       *)
  tx,        (* the transaction it signed                                   *)
  booked,    (* orders reported as ok, by round                             *)
  round,     (* currentEpoch of the contract, the round open for bets       *)
  ledger,    (* the account's bet in each round                             *)
  count,     (* the account's mined transactions, its next nonce            *)
  pool,      (* pending transactions                                        *)
  receipts   (* mined transactions, with their status                       *)

botVars   == <<started, orders, queued, pc, call, tx, booked>>
chainVars == <<round, ledger, count, pool, receipts>>
vars == <<botVars, chainVars>>

NoCall == [kind |-> "claim", rounds |-> {}, side |-> "none"]
NoTx   == [call |-> NoCall, nonce |-> 0, gas |-> 0]

(* A new session: earlier bets may be won, and its last transaction, a     *)
(* claim of the rounds won, may still be pending.                          *)
Init ==
  /\ started = FALSE /\ orders = MaxOrders /\ queued = 0
  /\ pc = [a \in Actors |-> IF a = Harvester THEN "scan" ELSE "idle"]
  /\ call = [a \in Actors |-> NoCall] /\ tx = [a \in Actors |-> NoTx]
  /\ booked = [r \in Rounds |-> 0]
  /\ round \in 1..(MaxRound - 1)
  /\ ledger \in {l \in [Rounds -> {"none", "won"}] :
                   \A r \in Rounds : l[r] = "won" => r + 2 <= round}
  /\ count = 0 /\ receipts = {}
  /\ pool \in {{}} \cup {{[call |-> [NoCall EXCEPT !.rounds = {r}], nonce |-> 0, gas |-> g]} :
                          r \in {q \in Rounds : ledger[q] = "won"}, g \in GasPrices}

(***************************************************************************)
(* The executor.                                                           *)
(***************************************************************************)
Claimable(r) == ledger[r] = "won" /\ r + 2 <= round

(* _scan_and_claim: claimable() of each round from current-2 down; a query *)
(* that raises skips its round.                                            *)
Scan ==
  /\ pc[Harvester] = "scan"
  /\ \E won \in SUBSET {r \in Rounds : Claimable(r) /\ r + Oldest >= round} :
       /\ call' = [call EXCEPT ![Harvester].rounds = won]
       /\ pc' = [pc EXCEPT ![Harvester] = IF won = {} THEN "over" ELSE "nonce"]
  /\ UNCHANGED <<started, orders, queued, tx, booked, chainVars>>

StartWorkers ==
  /\ ~started /\ pc[Harvester] = "over"
  /\ started' = TRUE
  /\ UNCHANGED <<orders, queued, pc, call, tx, booked, chainVars>>

(* The engine fires; the executor's own limit is the number of workers.    *)
PlaceOrder ==
  /\ orders > 0
  /\ orders' = orders - 1 /\ queued' = queued + 1
  /\ UNCHANGED <<started, pc, call, tx, booked, chainVars>>

(* Mutant: a worker does not wait for a request.                           *)
TakeOrderUnasked(w) ==
  /\ started /\ pc[w] = "idle"
  /\ queued' = queued - 1
  /\ \E r \in 1..round, s \in Sides :
       call' = [call EXCEPT ![w] = [kind |-> "bet", rounds |-> {r}, side |-> s]]
  /\ pc' = [pc EXCEPT ![w] = "nonce"]
  /\ UNCHANGED <<started, orders, tx, booked, chainVars>>

(* The epoch is the one the monitor published last, however old; epoch 0,  *)
(* before it published any, is refused by the contract like an old one.    *)
TakeOrder(w) ==
  /\ started /\ queued > 0 /\ pc[w] = "idle"
  /\ queued' = queued - 1
  /\ \E r \in 1..round, s \in Sides :
       call' = [call EXCEPT ![w] = [kind |-> "bet", rounds |-> {r}, side |-> s]]
  /\ pc' = [pc EXCEPT ![w] = "nonce"]
  /\ UNCHANGED <<started, orders, tx, booked, chainVars>>

(* get_transaction_count(account) counts the mined transactions only.      *)
ReadNonce(a) ==
  /\ pc[a] = "nonce"
  /\ \E g \in GasPrices :
       tx' = [tx EXCEPT ![a] = [call |-> call[a], nonce |-> count, gas |-> g]]
  /\ pc' = [pc EXCEPT ![a] = "send"]
  /\ UNCHANGED <<started, orders, queued, call, booked, chainVars>>

(* What the node takes into its pool.                                      *)
Acceptable(t) ==
  /\ t.nonce >= count
  /\ \A p \in pool : p.nonce = t.nonce => p.gas < t.gas

Enter(t) == pool' = {p \in pool : p.nonce # t.nonce} \cup {t}

Send(a) ==
  /\ pc[a] = "send" /\ Acceptable(tx[a])
  /\ Enter(tx[a])
  /\ pc' = [pc EXCEPT ![a] = "confirm"]
  /\ UNCHANGED <<started, orders, queued, call, tx, booked,
                 round, ledger, count, receipts>>

(* After an order, good or bad, a worker takes the next one.               *)
Done(a) ==
  /\ pc' = [pc EXCEPT ![a] = IF a = Harvester THEN "over" ELSE "idle"]
  /\ call' = [call EXCEPT ![a] = NoCall]
  /\ tx' = [tx EXCEPT ![a] = NoTx]
  /\ UNCHANGED <<started, orders, queued>>

(* The node took the transaction but its answer did not arrive.            *)
SendLost(a) ==
  /\ pc[a] = "send" /\ Acceptable(tx[a])
  /\ Enter(tx[a])
  /\ Done(a)
  /\ UNCHANGED <<booked, round, ledger, count, receipts>>

(* Any call raises: nonce too low, underpriced, a network error, or no     *)
(* receipt in time.  The order is dropped; the transaction stays pending.  *)
Fail(a) ==
  /\ pc[a] \in {"scan", "nonce", "send", "confirm"}
  /\ Done(a)
  /\ UNCHANGED <<booked, chainVars>>

(* Mutant: the status of the receipt is not looked at.                     *)
ConfirmAnyStatus(a) ==
  /\ pc[a] = "confirm"
  /\ \E receipt \in receipts :
       /\ receipt.tx = tx[a]
       /\ booked' = IF a \in Workers
                    THEN [r \in Rounds |-> IF r \in call[a].rounds
                                           THEN booked[r] + 1 ELSE booked[r]]
                    ELSE booked
  /\ Done(a)
  /\ UNCHANGED chainVars

(* receipt.status, of the transaction the actor sent.                      *)
Confirm(a) ==
  /\ pc[a] = "confirm"
  /\ \E receipt \in receipts :
       /\ receipt.tx = tx[a]
       /\ booked' = IF receipt.ok /\ a \in Workers
                    THEN [r \in Rounds |-> IF r \in call[a].rounds
                                           THEN booked[r] + 1 ELSE booked[r]]
                    ELSE booked
  /\ Done(a)
  /\ UNCHANGED chainVars

(***************************************************************************)
(* The chain.                                                              *)
(***************************************************************************)
Succeeds(c) ==
  IF c.kind = "bet" THEN \A r \in c.rounds : r = round /\ ledger[r] = "none"
                    ELSE \A r \in c.rounds : Claimable(r)

Mine ==
  \E t \in pool :
    /\ t.nonce = count
    /\ pool' = pool \ {t}
    /\ count' = count + 1
    /\ receipts' = receipts \cup {[tx |-> t, ok |-> Succeeds(t.call)]}
    /\ ledger' = [r \in Rounds |->
                    IF Succeeds(t.call) /\ r \in t.call.rounds
                    THEN IF t.call.kind = "bet" THEN "bet" ELSE "claimed"
                    ELSE ledger[r]]
    /\ UNCHANGED <<botVars, round>>

(* A round locks, and the one locked before it is decided.                 *)
NextRound ==
  /\ round < MaxRound
  /\ round' = round + 1
  /\ \E outcome \in {"won", "lost"} :
       ledger' = [r \in Rounds |-> IF r + 1 = round /\ ledger[r] = "bet"
                                   THEN outcome ELSE ledger[r]]
  /\ UNCHANGED <<botVars, count, pool, receipts>>

Next ==
  \/ Scan \/ StartWorkers \/ PlaceOrder
  \/ \E w \in Workers : TakeOrder(w)
  \/ \E a \in Actors : ReadNonce(a) \/ Send(a) \/ SendLost(a) \/ Fail(a) \/ Confirm(a)
  \/ Mine \/ NextRound

Spec == Init /\ [][Next]_vars

(***************************************************************************)
(* Properties.                                                             *)
(***************************************************************************)
TypeOK ==
  /\ started \in BOOLEAN /\ orders \in 0..MaxOrders /\ queued \in 0..MaxOrders
  /\ pc \in [Actors -> {"scan", "idle", "nonce", "send", "confirm", "over"}]
  /\ call \in [Actors -> Bets \cup Claims]
  /\ tx \in [Actors -> Txs \cup {NoTx}]
  /\ booked \in [Rounds -> Nat]
  /\ round \in Rounds
  /\ ledger \in [Rounds -> {"none", "bet", "won", "lost", "claimed"}]
  /\ count \in Nat /\ pool \subseteq Txs
  /\ receipts \subseteq [tx : Txs, ok : BOOLEAN]

(* "Esperar confirmación de la red para evitar falsos positivos": an order *)
(* reported as executed is a bet of its own in the contract, whatever      *)
(* nonces the threads shared, replacements and late answers included.      *)
BookedIsMined ==
  \A r \in Rounds :
    /\ booked[r] <= 1
    /\ booked[r] = 1 => ledger[r] # "none"
=============================================================================
