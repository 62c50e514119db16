--------------------------- MODULE MCOutPipeClient ---------------------------
(* The pipe client with a few threads.                                     *)
EXTENDS OutPipeClient
=============================================================================
