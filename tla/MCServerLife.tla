---------------------------- MODULE MCServerLife ----------------------------
(* The life of a server with a few workers.                                *)
EXTENDS ServerLife
=============================================================================
