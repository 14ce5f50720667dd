------------------------------- MODULE Mccpx -------------------------------
(***************************************************************************)
(* One end of a connection as libtelnet's MCCPX code sees it: the q entry   *)
(* of the option, and the streams it compresses and decompresses with.      *)
(* Operators take the record of an end and return it; what they send is     *)
(* appended to its field out.                                              *)
(*                                                                         *)
(* A stream is known by the number its sender gave it, 0 being no stream at *)
(* all.  An item on the wire carries the number of the stream it was        *)
(* written through: only a decoder of that stream can read it.  A decoder   *)
(* that was fed with anything else has lost its place: it can read nothing, *)
(* as if its stream were one that nobody writes.                            *)
(***************************************************************************)
EXTENDS RFC1143, Naturals

(* us, him   the two halves of the q entry for MCCPX                       *)
(* enc       mccpx[STREAM_SEND]                                            *)
(* dec       mccpx[STREAM_RECV]                                            *)
(* made      the number of the last stream begun here                      *)
(* out       TELNET_EV_SEND events of the running callback                 *)
Garbled == 1
FreshEnd == [us |-> "NO", him |-> "NO", enc |-> 0, dec |-> 0, made |-> Garbled,
             out |-> <<>>]

Item(enc, say, arg) == [enc |-> enc, say |-> say, arg |-> arg]

\* _send: whatever is sent passes through the encoder, if there is one.
Send(s, say, arg) == [s EXCEPT !.out = Append(@, Item(s.enc, say, arg))]

\* The q method's transition t of our side or of the peer's, with its answers.
Ours(s, t) ==
    [s EXCEPT !.us = t.state,
              !.out = @ \o [i \in DOMAIN t.say |->
                  Item(s.enc, IF t.say[i] = "yes" THEN "WILL" ELSE "WONT", 0)]]
His(s, t) ==
    [s EXCEPT !.him = t.state,
              !.out = @ \o [i \in DOMAIN t.say |->
                  Item(s.enc, IF t.say[i] = "yes" THEN "DO" ELSE "DONT", 0)]]

(* mccpx_end.  The sender says WONT while it still compresses, if the q     *)
(* entry says that there is anything to withdraw; the receiver stops first. *)
EndSend_TooSoon(s) == Ours([s EXCEPT !.enc = 0], AskNo(s.us))
EndSend(s) == [Ours(s, AskNo(s.us)) EXCEPT !.enc = 0]
EndRecv(s) == His([s EXCEPT !.dec = 0], AskNo(s.him))

(* A decoder is fed with bytes of no stream or of another.  Most are an      *)
(* error that ends its stream; a few can pass for the beginning of a block,  *)
(* and nothing happens until more come.                                      *)
Choke(s) == {EndRecv(s), [s EXCEPT !.dec = Garbled]}

(* ACCEPT_ENCODING: the peer lists what it can decode.  All lists have an    *)
(* encoding in common with ours.  BEGIN is sent before the stream begins;   *)
(* when one is running already, init fails and the old one goes on.  A new   *)
(* one makes _mccpx_telnet return 1, as BEGIN does, by which the receive     *)
(* loop feeds the rest of its buffer to telnet_recv again: GameLink.RxAccept *)
(* says what becomes of it.                                                 *)
HearAccept_Late(s) ==
    IF s.enc = 0
    THEN Send([s EXCEPT !.enc = s.made + 1, !.made = @ + 1], "BEGIN", s.made + 1)
    ELSE Send(s, "BEGIN", s.enc)
HearAccept(s) ==
    IF s.enc = 0
    THEN [Send(s, "BEGIN", s.made + 1) EXCEPT !.enc = s.made + 1, !.made = @ + 1]
    ELSE Send(s, "BEGIN", s.enc)

\* BEGIN_ENCODING, likewise.
HearBegin(s, n) == IF s.dec = 0 THEN [s EXCEPT !.dec = n] ELSE s

(* What the event handler adds to a transition of the peer's side and of    *)
(* ours: a peer that will compress is sent our list and our own offer, and  *)
(* an option going off ends its stream.                                    *)
HisSide(s, t) ==
    LET a == His(s, t) IN
    CASE t.tell = "on"  -> Ours(Send(a, "ACCEPT", 0), AskYes(a.us))
      [] t.tell = "off" -> EndRecv(a)
      [] OTHER          -> a

OurSide(s, t) ==
    LET a == Ours(s, t) IN
    IF t.tell = "off" THEN EndSend(a) ELSE a

\* A command or subnegotiation about MCCPX reaches an end.
Hear(s, item) ==
    CASE item.say = "WILL"   -> HisSide(s, HearYes(s.him, TRUE))
      [] item.say = "WONT"   -> HisSide(s, HearNo(s.him))
      [] item.say = "DO"     -> OurSide(s, HearYes(s.us, TRUE))
      [] item.say = "DONT"   -> OurSide(s, HearNo(s.us))
      [] item.say = "ACCEPT" -> HearAccept(s)
      [] item.say = "BEGIN"  -> HearBegin(s, item.arg)

About == {"WILL", "WONT", "DO", "DONT", "ACCEPT", "BEGIN"}

\* Does the program see an event, and is it a DONT?
Seen(s, item) ==
    CASE item.say = "WILL" -> HearYes(s.him, TRUE).tell # "nothing"
      [] item.say = "WONT" -> HearNo(s.him).tell # "nothing"
      [] item.say = "DO"   -> HearYes(s.us, TRUE).tell # "nothing"
      [] item.say = "DONT" -> HearNo(s.us).tell # "nothing"
      [] OTHER             -> TRUE
Offered(s, item) == item.say = "WILL" /\ HearYes(s.him, TRUE).tell = "on"
Refused(s, item) ==
    \/ item.say = "DONT" /\ HearNo(s.us).tell = "off"
    \/ item.say = "DO" /\ HearYes(s.us, TRUE).tell = "off"

=============================================================================
