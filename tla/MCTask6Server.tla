---------------------------- MODULE MCTask6Server ----------------------------
(* The server with a few instances and workers.                            *)
EXTENDS Task6Server, TLC

\* Workers are interchangeable (safety only).
MCSymmetry == Permutations(Workers)
=============================================================================
