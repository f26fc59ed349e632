-------------------------- MODULE PancakeMonitor ---------------------------
(***************************************************************************)
(* PancakeSwapMonitor (modules/pancakeswap_monitor.py): calibrates a clock *)
(* offset, binds the contract to the first HTTP node that answers, follows *)
(* block headers over a pool of WebSocket nodes and reads the contract in  *)
(* a thread at each block.  The pools' amounts are left out: the state it  *)
(* publishes is known by its epoch, 0 before the first block.              *)
(***************************************************************************)
EXTENDS Naturals, Sequences

CONSTANTS
  HttpPool,          (* _sync_setup_pancake's RPC_POOL, without duplicates  *)
  WssPool,           (* start's wss_pool                                    *)
  MaxEpoch,          (* bounds the rounds of the chain                      *)
  Reliable           (* services that no longer fail once the network is calm *)

VARIABLES
  calm,              (* the reliable services have stopped failing          *)
  phase,             (* where run() is: see Feeds                           *)
  monitor_running,   (* _running                                            *)
  monitor,           (* what the task awaits                                *)
  thread,            (* a call of run_in_executor is going on               *)
  contract,          (* place in HttpPool of the contract's node, 0 if none *)
  node,              (* current_ws_idx + 1                                  *)
  reading,           (* the epoch read by the call that is going on         *)
  pancake,           (* shared_state.pancake_state                          *)
  chain              (* the epoch of the chain                              *)

MonitorInit ==
  /\ monitor_running = FALSE /\ monitor = "new" /\ thread = FALSE
  /\ contract = 0 /\ node = 1
  /\ reading = 0 /\ pancake = 0 /\ chain = 1

EpochMoves ==
  /\ chain < MaxEpoch
  /\ chain' = chain + 1
  /\ UNCHANGED <<monitor_running, monitor, thread, contract, node, reading, pancake>>

MayFail(service) == ~calm \/ service \notin Reliable

MonitorAt(place) == monitor = place /\ phase # "cancelled"

StartMonitor ==
  /\ MonitorAt("new")
  /\ monitor_running' = TRUE
  /\ monitor' = "calibrate" /\ thread' = TRUE
  /\ UNCHANGED <<contract, node, reading, pancake, chain>>

(* _calibrate_time_offset never fails: without an answer the offset is 0.  *)
Calibrated ==
  /\ MonitorAt("calibrate")
  /\ monitor' = "setup"
  /\ UNCHANGED <<monitor_running, thread, contract, node, reading, pancake, chain>>

(* _sync_setup_pancake takes the first node that answers; without one      *)
(* start() is over.                                                        *)
SetupDone ==
  /\ MonitorAt("setup")
  /\ \E i \in DOMAIN HttpPool :
       /\ \A j \in 1..(i - 1) : MayFail(HttpPool[j])
       /\ contract' = i
  /\ thread' = FALSE
  /\ monitor' = IF monitor_running THEN "connect" ELSE "dead"
  /\ UNCHANGED <<monitor_running, node, reading, pancake, chain>>

SetupFailed ==
  /\ MonitorAt("setup")
  /\ \A i \in DOMAIN HttpPool : MayFail(HttpPool[i])
  /\ thread' = FALSE
  /\ monitor' = "fatal"
  /\ UNCHANGED <<monitor_running, contract, node, reading, pancake, chain>>

Subscribed ==
  /\ MonitorAt("connect")
  /\ monitor' = IF monitor_running THEN "recv" ELSE "dead"
  /\ UNCHANGED <<monitor_running, thread, contract, node, reading, pancake, chain>>

(* A block header; acknowledgements and other messages change nothing.     *)
BlockArrives ==
  /\ MonitorAt("recv")
  /\ monitor' = "read" /\ thread' = TRUE
  /\ UNCHANGED <<monitor_running, contract, node, reading, pancake, chain>>

(* _sync_pancake_call: the epoch first, then two reads of its round.  A    *)
(* node that may fail may also lag behind the chain, and the code compares *)
(* its epoch with nothing.                                                 *)
EpochRead ==
  /\ thread /\ monitor \in {"read", "late"} /\ reading = 0
  /\ reading' \in 1..chain
  /\ MayFail(HttpPool[contract]) \/ reading' = chain
  /\ UNCHANGED <<monitor_running, monitor, thread, contract, node, pancake, chain>>

(* Awaits the call in the thread, and nothing has cancelled this await.    *)
Reads == MonitorAt("read") \/ monitor = "late"

(* Mutant: the call in the thread writes the shared state itself.          *)
RoundReadInThread ==
  /\ thread /\ monitor \in {"read", "late", "dead"} /\ reading # 0
  /\ pancake' = reading
  /\ reading' = 0 /\ thread' = FALSE
  /\ monitor' = IF monitor_running THEN "recv" ELSE "dead"
  /\ UNCHANGED <<monitor_running, contract, node, chain>>

RoundRead ==
  /\ Reads /\ reading # 0
  /\ pancake' = reading
  /\ reading' = 0 /\ thread' = FALSE
  /\ monitor' = IF monitor_running THEN "recv" ELSE "dead"
  /\ UNCHANGED <<monitor_running, contract, node, chain>>

Failure ==
  \/ MonitorAt("connect") /\ MayFail(WssPool[node])
  \/ MonitorAt("recv") /\ MayFail(WssPool[node])
  \/ Reads /\ MayFail(HttpPool[contract])

(* Mutant: the index runs past the end of the pool.                        *)
RotateBeyond ==
  /\ Failure
  /\ node' = node + 1
  /\ reading' = 0 /\ thread' = FALSE
  /\ monitor' = "pause"
  /\ UNCHANGED <<monitor_running, contract, pancake, chain>>

(* Mutant: the same node is tried again.                                   *)
RotateNever ==
  /\ Failure
  /\ reading' = 0 /\ thread' = FALSE
  /\ monitor' = "pause"
  /\ UNCHANGED <<monitor_running, contract, node, pancake, chain>>

(* Any exception, the contract's included, rotates the WebSocket node.     *)
Rotate ==
  /\ Failure
  /\ node' = (node % Len(WssPool)) + 1
  /\ reading' = 0 /\ thread' = FALSE
  /\ monitor' = "pause"
  /\ UNCHANGED <<monitor_running, contract, pancake, chain>>

RotationOver ==
  /\ MonitorAt("pause")
  /\ monitor' = IF monitor_running THEN "connect" ELSE "dead"
  /\ UNCHANGED <<monitor_running, thread, contract, node, reading, pancake, chain>>

(* Mutant: the await of the thread swallows the cancellation.              *)
MonitorCancelledUnlessReading ==
  /\ phase = "cancelled" /\ monitor \notin {"dead", "fatal", "late", "read"}
  /\ monitor' = "dead"
  /\ UNCHANGED <<monitor_running, thread, contract, node, reading, pancake, chain>>

(* The task ends at once; a call in the thread goes on without it.  After  *)
(* a late reading has failed this is the end of its pause.                 *)
MonitorCancelled ==
  /\ phase = "cancelled" /\ monitor \notin {"dead", "fatal", "late"}
  /\ monitor' = "dead"
  /\ UNCHANGED <<monitor_running, thread, contract, node, reading, pancake, chain>>

(* Up to Python 3.11 wait_for drops a cancellation that meets a finished   *)
(* recv: a header that had arrived is still read, and then the loop ends.  *)
(* Any other message ends the task as the cancellation does.               *)
HeaderBeforeCancel ==
  /\ phase = "cancelled" /\ monitor = "recv"
  /\ monitor' = "late" /\ thread' = TRUE
  /\ UNCHANGED <<monitor_running, contract, node, reading, pancake, chain>>

ThreadReturns ==
  /\ thread /\ monitor = "dead"
  /\ thread' = FALSE /\ reading' = 0
  /\ UNCHANGED <<monitor_running, monitor, contract, node, pancake, chain>>

StopMonitor ==
  /\ monitor_running' = FALSE
  /\ UNCHANGED <<monitor, thread, contract, node, reading, pancake, chain>>

MonitorTask ==
  \/ StartMonitor \/ Calibrated \/ SetupDone \/ SetupFailed
  \/ Subscribed \/ BlockArrives \/ EpochRead \/ RoundRead
  \/ Rotate \/ RotationOver \/ MonitorCancelled \/ HeaderBeforeCancel
  \/ ThreadReturns

MonitorTypeOK ==
  /\ monitor_running \in BOOLEAN
  /\ monitor \in {"new", "calibrate", "setup", "connect", "recv", "read",
                  "late", "pause", "dead", "fatal"}
  /\ thread \in BOOLEAN
  /\ contract \in 0..Len(HttpPool) /\ node \in 1..Len(WssPool)
  /\ reading \in 0..MaxEpoch /\ pancake \in 0..MaxEpoch /\ chain \in 1..MaxEpoch
=============================================================================
