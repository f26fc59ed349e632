----------------------------- MODULE OrderDesk -----------------------------
(***************************************************************************)
(* What the arbitrage pipeline promises, without queues, tasks or prices:  *)
(* a desk with a single order slot.  An order is placed only while the     *)
(* loss limit has not been reached, its loss is booked before the next one *)
(* is placed, a rejected order leaves the desk stuck, and the kill switch  *)
(* is thrown only over an empty slot.  modules/arbitrage_engine.py,        *)
(* modules/web3_executor.py and main.py together implement it.             *)
(***************************************************************************)
EXTENDS Integers

CONSTANTS
  Limit,      (* the loss at which trading is frozen, KILL_SWITCH_PNL_USD   *)
  MaxLoss     (* the most one order can lose                                *)

VARIABLES
  slot,       (* "idle", "placed", "filled" or "stuck"                      *)
  due,        (* loss of the filled order that is not booked yet            *)
  ledger,     (* cumulative profit and loss                                 *)
  halted,     (* the kill switch                                            *)
  closed      (* the desk has stopped for good                              *)

deskVars == <<slot, due, ledger, halted, closed>>

DeskInit ==
  /\ slot = "idle"
  /\ due = 0
  /\ ledger = 0
  /\ halted = FALSE
  /\ closed = FALSE

Place ==
  /\ ~closed
  /\ ~halted
  /\ slot = "idle"
  /\ ledger > Limit
  /\ slot' = "placed"
  /\ UNCHANGED <<due, ledger, halted, closed>>

Fill ==
  /\ ~closed
  /\ slot = "placed"
  /\ slot' = "filled"
  /\ due' \in 1 .. MaxLoss
  /\ UNCHANGED <<ledger, halted, closed>>

Reject ==
  /\ ~closed
  /\ slot = "placed"
  /\ slot' = "stuck"
  /\ UNCHANGED <<due, ledger, halted, closed>>

Book ==
  /\ ~closed
  /\ slot = "filled"
  /\ slot' = "idle"
  /\ ledger' = ledger - due
  /\ due' = 0
  /\ UNCHANGED <<halted, closed>>

Halt ==
  /\ ~closed
  /\ slot = "idle"
  /\ ledger <= Limit
  /\ halted' = TRUE
  /\ UNCHANGED <<slot, due, ledger, closed>>

(* Closing forgets a stuck order; a placed or filled one stays lost.       *)
Close ==
  /\ closed' = TRUE
  /\ slot' = IF slot = "stuck" THEN "idle" ELSE slot
  /\ UNCHANGED <<due, ledger, halted>>

DeskNext == Place \/ Fill \/ Reject \/ Book \/ Halt \/ Close

DeskSpec == DeskInit /\ [][DeskNext]_deskVars
=============================================================================
