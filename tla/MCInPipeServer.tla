--------------------------- MODULE MCInPipeServer ---------------------------
(* The pipe server on a small instance.                                    *)
EXTENDS InPipeServer
=============================================================================
