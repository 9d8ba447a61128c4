------------------------- MODULE MCMirrorConnection -------------------------
(* A mirror that is connected up to three times.                           *)
EXTENDS MirrorConnection
=============================================================================
