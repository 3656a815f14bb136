--------------------------- MODULE MCBenchDriver ---------------------------
(* BenchDriver for TLC.                                                    *)
EXTENDS BenchDriver
=============================================================================
