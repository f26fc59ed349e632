----------------------------- MODULE AssetDesk -----------------------------
(***************************************************************************)
(* What the Go pipeline promises about orders and money, without channels, *)
(* goroutines or bits: a desk with one slot per asset.  An order is placed *)
(* on a free slot while the desk is open, is queued or withdrawn, earns    *)
(* the bonus when it is filled and once more when it is booked, and frees  *)
(* its slot after that; a filled order that is lost keeps its slot for     *)
(* good.  go/internal/engine/arbitrage.go and                              *)
(* go/internal/executor/executor.go together implement it.                 *)
(***************************************************************************)
EXTENDS Integers

CONSTANTS
  Assets,
  Capital,    (* what the desk starts with                                 *)
  Bonus       (* what an order earns, each time                            *)

VARIABLES
  placed, queued, filled, booked, lost,   (* the assets of the orders there *)
  open,       (* orders may be placed                                      *)
  earned,     (* the balance and what was swept from it                    *)
  ledger      (* the cumulative profit                                     *)

slots    == <<placed, queued, filled, booked, lost>>
deskVars == <<slots, open, earned, ledger>>

DeskInit ==
  /\ placed = {} /\ queued = {} /\ filled = {} /\ booked = {} /\ lost = {}
  /\ open = TRUE
  /\ earned = Capital
  /\ ledger = 0

Free(a) == a \notin placed \cup queued \cup filled \cup booked \cup lost

Place(a) ==
  /\ open /\ placed = {} /\ Free(a)
  /\ placed' = {a}
  /\ UNCHANGED <<queued, filled, booked, lost, open, earned, ledger>>

Withdraw(a) ==
  /\ placed = {a}
  /\ placed' = {}
  /\ UNCHANGED <<queued, filled, booked, lost, open, earned, ledger>>

Enqueue(a) ==
  /\ placed = {a}
  /\ placed' = {}
  /\ queued' = queued \cup {a}
  /\ UNCHANGED <<filled, booked, lost, open, earned, ledger>>

Fill(a) ==
  /\ a \in queued
  /\ queued' = queued \ {a}
  /\ filled' = filled \cup {a}
  /\ earned' = earned + Bonus
  /\ UNCHANGED <<placed, booked, lost, open, ledger>>

Lose(a) ==
  /\ a \in filled
  /\ filled' = filled \ {a}
  /\ lost' = lost \cup {a}
  /\ UNCHANGED <<placed, queued, booked, open, earned, ledger>>

Book(a) ==
  /\ a \in filled /\ booked = {}
  /\ filled' = filled \ {a}
  /\ booked' = {a}
  /\ earned' = earned + Bonus
  /\ ledger' = ledger + Bonus
  /\ UNCHANGED <<placed, queued, lost, open>>

Release(a) ==
  /\ booked = {a}
  /\ booked' = {}
  /\ UNCHANGED <<placed, queued, filled, lost, open, earned, ledger>>

StopPlacing ==
  /\ open /\ placed = {}
  /\ open' = FALSE
  /\ UNCHANGED <<slots, earned, ledger>>

DeskNext ==
  \/ StopPlacing
  \/ \E a \in Assets :
       \/ Place(a) \/ Withdraw(a) \/ Enqueue(a) \/ Fill(a) \/ Lose(a)
       \/ Book(a) \/ Release(a)

DeskSpec == DeskInit /\ [][DeskNext]_deskVars
=============================================================================
