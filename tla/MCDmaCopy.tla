----------------------------- MODULE MCDmaCopy -----------------------------
(* DmaCopy as it stands: the configurations choose the sizes.              *)
EXTENDS DmaCopy
=============================================================================
