---------------------------- MODULE MCGoBreaker ----------------------------
(* GoBreaker with one goroutine, or with two that race.                    *)
EXTENDS GoBreaker

MCOneGoroutine  == {1}
MCTwoGoroutines == {1, 2}
=============================================================================
