---------------------------- MODULE MCTask6Client ----------------------------
(* A client and its caller.                                                *)
EXTENDS Task6Client
=============================================================================
