-------------------------- MODULE MCCircularBuffer --------------------------
(* Instances of CircularBuffer for TLC.  The ring is scaled from 1024 slots   *)
(* to 4 and BUFF_READ from 500 to 3: the ring then wraps, fills up and is     *)
(* read in one and in two segments, cut short by the read size or not.        *)
EXTENDS CircularBuffer

MCReadSizes == {0, 2, 3, 5}
=============================================================================
