---------------------------- MODULE MCGoPipeline ----------------------------
(* GoPipeline with two assets, two workers and channels of one place, so   *)
(* that both can be full.  A threshold of -300 cents never stops trading,  *)
(* one of 300 (the shipped $100 is positive too) stops it at once.         *)
EXTENDS GoPipeline

MCWorkers        == {1, 2}
MCKillThresholds == {-300, 300}
=============================================================================
