--------------------------- MODULE MCBenchDaemon ---------------------------
(* BenchDaemon for TLC.                                                    *)
EXTENDS BenchDaemon
=============================================================================
