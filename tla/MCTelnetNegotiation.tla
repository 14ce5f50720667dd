------------------------ MODULE MCTelnetNegotiation ------------------------
(***************************************************************************)
(* TelnetNegotiation with a few options.  The tables of locid are those of  *)
(* telnet.c: NEW_ENVIRON and MCCPX go both ways, MCCP2 is only accepted,    *)
(* and NAWS is only performed.                                             *)
(***************************************************************************)
EXTENDS TelnetNegotiation

CONSTANTS MCCP2, NAWS

Options      == {ENVIRON, MCCPX, MCCP2, NAWS}
Compressions == {MCCPX, MCCP2}

WillOptions == {ENVIRON, MCCPX, NAWS}
DoOptions   == {ENVIRON, MCCPX, MCCP2}

\* A game whose options each end both performs and accepts.
TwoWayGame == [will |-> {ENVIRON, MCCPX}, do |-> {ENVIRON, MCCPX},
               unruly |-> FALSE, maxAsks |-> 5]

\* A game that offers both compressions and more, in turn and out of turn.
UnrulyGame == [will |-> {ENVIRON, MCCPX, MCCP2}, do |-> {ENVIRON, NAWS},
               unruly |-> TRUE, maxAsks |-> 3]

\* A game that reports its window size as well as asking for ours.
NawsGame == [will |-> {NAWS}, do |-> {NAWS}, unruly |-> FALSE, maxAsks |-> 2]

BothGames == {TwoWayGame, UnrulyGame}
NawsGames == {NawsGame}

=============================================================================
