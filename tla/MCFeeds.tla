------------------------------ MODULE MCFeeds ------------------------------
(* Two HTTP nodes, so that the contract may be bound to the one that goes  *)
(* on failing, and three WebSocket nodes, as in the code, the last one     *)
(* reliable.                                                               *)
EXTENDS Feeds

MCHttpPool == <<"rpc1", "rpc2">>
MCWssPool  == <<"wss1", "wss2", "wss3">>
MCReliable == {"binance", "rpc2", "wss3"}
=============================================================================
