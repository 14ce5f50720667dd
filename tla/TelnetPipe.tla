----------------------------- MODULE TelnetPipe -----------------------------
(***************************************************************************)
(* What a telnet connection promises to the programs at its two ends: the   *)
(* text, commands, negotiations and subnegotiations that one end sends      *)
(* reach the other in the order sent, each once and none made up, however   *)
(* the bytes were cut into pieces on the way.                               *)
(***************************************************************************)
EXTENDS Naturals, SequencesExt

VARIABLES sent, received

Init == sent = <<>> /\ received = <<>>

\* A program may send several things with one call.
Send == IsStrictPrefix(sent, sent') /\ UNCHANGED received

Receive ==
    /\ \E n \in Len(received) + 1 .. Len(sent) : received' = SubSeq(sent, 1, n)
    /\ UNCHANGED sent

Spec == Init /\ [][Send \/ Receive]_<<sent, received>>

=============================================================================
