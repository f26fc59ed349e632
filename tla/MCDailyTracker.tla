--------------------------- MODULE MCDailyTracker ---------------------------
(* DailyTracker with two goroutines and trades of $1 and $5: 20% of a peak *)
(* of 5 or more can be lost in one trade or in two.                        *)
EXTENDS DailyTracker

MCGoroutines == {1, 2}
MCAmounts    == {1, 5}
=============================================================================
