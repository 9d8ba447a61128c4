---------------------------- MODULE MCMirrorPull ----------------------------
(* Small instances of MirrorPull: two parameters, whose values change on   *)
(* the server at most once, and a few calls.                               *)
EXTENDS MirrorPull
=============================================================================
