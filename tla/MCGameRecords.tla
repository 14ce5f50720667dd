--------------------------- MODULE MCGameRecords ---------------------------
(* One user beside the two scanners, two kinds of data, two telnet options,  *)
(* and limits of one and two units of time.                                 *)
EXTENDS GameRecords

CONSTANTS u1, d1, d2, echo, gmcp

MCUser == {u1}
MCData == {d1, d2}
MCOption == {echo, gmcp}
MCSettings ==
    {[kinds |-> {"mssp"}, conns |-> {u1, "forced"}],
     [kinds |-> {"telopts"}, conns |-> {u1, "forced"}],
     [kinds |-> {"scan"}, conns |-> {"scan", "forced"}]}

=============================================================================
