---------------------------- MODULE CryptoFeed -----------------------------
(***************************************************************************)
(* CryptoFeed (modules/crypto_feed.py): the task that follows Binance's    *)
(* WebSocket and reconnects, and the REST seed, run once beside it at the  *)
(* start and again inside it after each crash.  One symbol; a price is the *)
(* number of the market move it was quoted at, and the code's 0.0 is 0.    *)
(***************************************************************************)
EXTENDS Naturals

CONSTANTS
  MaxMoves,       (* bounds the moves of the market                         *)
  Reliable        (* services that no longer fail once the network is calm  *)

VARIABLES
  calm,           (* the reliable services have stopped failing             *)
  phase,          (* where run() is: see Feeds                              *)
  crypto_running, (* _running                                               *)
  feed,           (* what the task awaits                                   *)
  ws,             (* _ws: "none", "open" or "closed"                        *)
  seed,           (* each REST request: "idle", "asked" or "served"         *)
  quote,          (* the price in a served response                         *)
  price,          (* shared_state.asset_prices, 0 before the first          *)
  market          (* the last move of the market                            *)

(* The seed task that start() creates and keeps no handle of, and the one  *)
(* awaited after a crash.                                                  *)
Seeds == {"background", "fallback"}

CryptoInit ==
  /\ crypto_running = FALSE /\ feed = "new" /\ ws = "none"
  /\ seed = [s \in Seeds |-> "idle"] /\ quote = [s \in Seeds |-> 0]
  /\ price = 0 /\ market = 1

MarketMoves ==
  /\ market < MaxMoves
  /\ market' = market + 1
  /\ UNCHANGED <<crypto_running, feed, ws, seed, quote, price>>

(* Before that, and any other service always, a request may fail and a     *)
(* message may lack what the code reads from it.                           *)
MayFail(service) == ~calm \/ service \notin Reliable

(* Scheduled and not cancelled.                                            *)
FeedAt(place) == feed = place /\ phase # "cancelled"

StartFeed ==
  /\ FeedAt("new")
  /\ crypto_running' = TRUE
  /\ seed' = [seed EXCEPT !["background"] = "asked"]
  /\ feed' = "connect"
  /\ UNCHANGED <<ws, quote, price, market>>

(* `while self._running` in start and in _loop.                            *)
GoOn(place) == feed' = IF crypto_running THEN place ELSE "dead"

Connected ==
  /\ FeedAt("connect")
  /\ ws' = "open"
  /\ GoOn("recv")
  /\ UNCHANGED <<crypto_running, seed, quote, price, market>>

(* _loop and _publish, for a message that arrives.                         *)
Tick ==
  /\ FeedAt("recv")
  /\ price' = market
  /\ GoOn("recv")
  /\ UNCHANGED <<crypto_running, ws, seed, quote, market>>

(* Neither "c" nor "p" says a price: 0.0 is published, unlike by the seeds. *)
TickWithoutPrice ==
  /\ FeedAt("recv") /\ MayFail("binance")
  /\ price' = 0
  /\ GoOn("recv")
  /\ UNCHANGED <<crypto_running, ws, seed, quote, market>>

(* Mutant: a crash ends the feed.                                          *)
CrashGivesUp ==
  /\ \/ FeedAt("connect") /\ MayFail("binance")
     \/ FeedAt("recv") /\ (MayFail("binance") \/ ws = "closed")
  /\ feed' = "dead"
  /\ UNCHANGED <<crypto_running, ws, seed, quote, price, market>>

(* No connection, a ping without pong, a closed socket: the fallback seed. *)
Crash ==
  /\ \/ FeedAt("connect") /\ MayFail("binance")
     \/ FeedAt("recv") /\ (MayFail("binance") \/ ws = "closed")
  /\ ws' = IF ws = "none" THEN ws ELSE "closed"
  /\ GoOn("seed")
  /\ seed' = [seed EXCEPT !["fallback"] = IF crypto_running THEN "asked" ELSE @]
  /\ UNCHANGED <<crypto_running, quote, price, market>>

PauseOver ==
  /\ FeedAt("pause")
  /\ GoOn("connect")
  /\ UNCHANGED <<crypto_running, ws, seed, quote, price, market>>

(* _seed_prices_rest: the server quotes, and later the answer arrives.     *)
CanSeed(s) == IF s = "background" THEN phase # "exited" ELSE FeedAt("seed")

SeedServed(s) ==
  /\ CanSeed(s) /\ seed[s] = "asked"
  /\ seed' = [seed EXCEPT ![s] = "served"]
  /\ quote' = [quote EXCEPT ![s] = market]
  /\ UNCHANGED <<crypto_running, feed, ws, price, market>>

SeedOver(s) ==
  /\ seed' = [seed EXCEPT ![s] = "idle"]
  /\ quote' = [quote EXCEPT ![s] = 0]
  /\ feed' = IF s = "fallback" THEN "pause" ELSE feed
  /\ UNCHANGED <<crypto_running, ws, market>>

SeedPublished(s) ==
  /\ CanSeed(s) /\ seed[s] = "served"
  /\ price' = quote[s]
  /\ SeedOver(s)

(* A time-out, a status other than 200 or an answer without a positive     *)
(* price is forgotten.                                                     *)
SeedFailed(s) ==
  /\ CanSeed(s) /\ seed[s] = "asked" /\ MayFail("binance")
  /\ UNCHANGED price
  /\ SeedOver(s)

FeedCancelled ==
  /\ phase = "cancelled" /\ feed # "dead"
  /\ feed' = "dead"
  /\ seed' = [seed EXCEPT !["fallback"] = "idle"]
  /\ quote' = [quote EXCEPT !["fallback"] = 0]
  /\ UNCHANGED <<crypto_running, ws, price, market>>

(* stop() closes the socket; the feed notices at its next await.           *)
StopFeed ==
  /\ crypto_running' = FALSE
  /\ ws' = IF ws = "none" THEN ws ELSE "closed"
  /\ UNCHANGED <<feed, seed, quote, price, market>>

(* The end of asyncio.run cancels what nobody cancelled.                   *)
DropBackgroundSeed ==
  /\ seed' = [seed EXCEPT !["background"] = "idle"]
  /\ quote' = [quote EXCEPT !["background"] = 0]
  /\ UNCHANGED <<crypto_running, feed, ws, price, market>>

FeedTask ==
  \/ StartFeed \/ Connected \/ Tick \/ TickWithoutPrice
  \/ Crash \/ PauseOver \/ FeedCancelled

Seeding(s) == SeedServed(s) \/ SeedPublished(s) \/ SeedFailed(s)

CryptoTypeOK ==
  /\ crypto_running \in BOOLEAN
  /\ feed \in {"new", "connect", "recv", "seed", "pause", "dead"}
  /\ ws \in {"none", "open", "closed"}
  /\ seed \in [Seeds -> {"idle", "asked", "served"}]
  /\ quote \in [Seeds -> 0..MaxMoves]
  /\ price \in 0..MaxMoves /\ market \in 1..MaxMoves
=============================================================================
