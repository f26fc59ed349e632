--------------------------- MODULE MCRiskManager ---------------------------
(* Latencies under, at and over a limit of 5; two trades open at once.     *)
EXTENDS RiskManager

MCLatencies == {1, 5, 9}
=============================================================================
