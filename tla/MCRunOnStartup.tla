--------------------------- MODULE MCRunOnStartup ---------------------------
(* Three servers: two of one program, one of them with assertions, and a   *)
(* third one of a copy elsewhere.                                          *)
EXTENDS RunOnStartup

CONSTANTS p1, p2, p3, exe, copy

MCPath == [p \in {p1, p2, p3} |-> IF p = p3 THEN copy ELSE exe]
=============================================================================
