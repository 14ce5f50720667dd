------------------------------ MODULE RFC1143 ------------------------------
(***************************************************************************)
(* The "Q method" of libtelnet.c: the state of one side of one telnet       *)
(* option, and what an announcement of the peer or a wish of the program    *)
(* makes of it.  The same four transitions serve both sides of an option:   *)
(* for the peer's side "yes" is his WILL and our DO, for ours his DO and    *)
(* our WILL.                                                               *)
(***************************************************************************)
EXTENDS Sequences

QState == {"NO", "YES", "WANTNO", "WANTNO_OP", "WANTYES", "WANTYES_OP"}

(* state    what is stored                                                 *)
(* say      the answers sent, in order                                     *)
(* tell     the event given to the program: the side is now on, or off     *)
Transition(state, say, tell) == [state |-> state, say |-> say, tell |-> tell]
Stay(s) == Transition(s, <<>>, "nothing")

Transitions == [state : QState, say : Seq({"yes", "no"}),
                tell : {"on", "off", "nothing"}]

\* The peer says yes: he asks for the option if we are at NO, he answers
\* otherwise.
HearYes(s, supported) ==
    CASE s = "NO" /\ supported  -> Transition("YES", <<"yes">>, "on")
      [] s = "NO" /\ ~supported -> Transition("NO", <<"no">>, "nothing")
      [] s = "WANTNO"     -> Transition("NO", <<>>, "off")
      [] s = "WANTNO_OP"  -> Transition("YES", <<>>, "nothing")
      [] s = "WANTYES"    -> Transition("YES", <<>>, "on")
      [] s = "WANTYES_OP" -> Transition("WANTNO", <<"no">>, "on")
      [] OTHER            -> Stay(s)

\* The peer says no.
HearNo_Untold(s) ==
    CASE s = "YES"       -> Transition("NO", <<"no">>, "off")
      [] s = "WANTNO"    -> Transition("NO", <<>>, "off")
      [] s = "WANTNO_OP" -> Transition("WANTYES", <<"yes">>, "nothing")
      [] s \in {"WANTYES", "WANTYES_OP"} -> Transition("NO", <<>>, "nothing")
      [] OTHER           -> Stay(s)
HearNo_Unanswered(s) ==
    CASE s = "YES"       -> Transition("NO", <<>>, "off")
      [] s = "WANTNO"    -> Transition("NO", <<>>, "off")
      [] s = "WANTNO_OP" -> Transition("WANTYES", <<"yes">>, "off")
      [] s \in {"WANTYES", "WANTYES_OP"} -> Transition("NO", <<>>, "nothing")
      [] OTHER           -> Stay(s)
HearNo(s) ==
    CASE s = "YES"       -> Transition("NO", <<"no">>, "off")
      [] s = "WANTNO"    -> Transition("NO", <<>>, "off")
      [] s = "WANTNO_OP" -> Transition("WANTYES", <<"yes">>, "off")
      [] s \in {"WANTYES", "WANTYES_OP"} -> Transition("NO", <<>>, "nothing")
      [] OTHER           -> Stay(s)

\* The program wants the side on.
AskYes(s) ==
    CASE s = "NO"         -> Transition("WANTYES", <<"yes">>, "nothing")
      [] s = "WANTNO"     -> Transition("WANTNO_OP", <<>>, "nothing")
      [] s = "WANTYES_OP" -> Transition("WANTYES", <<>>, "nothing")
      [] OTHER            -> Stay(s)

\* The program wants the side off.
AskNo_AtOnce(s) ==
    CASE s \in {"YES", "WANTYES"} -> Transition("WANTNO", <<"no">>, "nothing")
      [] s = "WANTNO_OP" -> Transition("WANTNO", <<>>, "nothing")
      [] OTHER           -> Stay(s)
AskNo(s) ==
    CASE s = "YES"       -> Transition("WANTNO", <<"no">>, "nothing")
      [] s = "WANTYES"   -> Transition("WANTYES_OP", <<>>, "nothing")
      [] s = "WANTNO_OP" -> Transition("WANTNO", <<>>, "nothing")
      [] OTHER           -> Stay(s)

\* The states in which the program was last told that the side is on.
On == {"YES", "WANTNO", "WANTNO_OP"}

=============================================================================
