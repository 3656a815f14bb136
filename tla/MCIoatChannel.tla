--------------------------- MODULE MCIoatChannel ---------------------------
(* IoatChannel as it stands: the configurations choose the number of       *)
(* clients and descriptors and which faults of the engine occur.           *)
EXTENDS IoatChannel
=============================================================================
