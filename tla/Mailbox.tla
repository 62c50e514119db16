------------------------------- MODULE Mailbox -------------------------------
(***************************************************************************)
(* What a one-way channel of the program promises: items are received as   *)
(* they were written, in order, each once, and no more than Capacity of    *)
(* them are under way.                                                     *)
(***************************************************************************)
EXTENDS Naturals, Sequences

CONSTANTS Items, Capacity

VARIABLES written, received

Init == written = << >> /\ received = << >>

Write ==
    /\ Len(written) < Len(received) + Capacity
    /\ \E x \in Items : written' = Append(written, x)
    /\ UNCHANGED received

Receive ==
    /\ Len(received) < Len(written)
    /\ received' = Append(received, written[Len(received) + 1])
    /\ UNCHANGED written

Spec == Init /\ [][Write \/ Receive]_<<written, received>>

(* The received items are a prefix of the written ones.                    *)
ReceivedInOrder ==
    /\ Len(received) <= Len(written)
    /\ \A n \in 1 .. Len(received) : received[n] = written[n]
=============================================================================
