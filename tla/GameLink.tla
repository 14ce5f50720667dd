------------------------------ MODULE GameLink ------------------------------
(***************************************************************************)
(* What passes between a game and a browser through one proxy_conn_t: the   *)
(* game's compressed stream is read, parsed and handled (libtelnet.c,       *)
(* telnet.c), the text waits in the client's queue until the game has       *)
(* passed its checks (proxy.c, game.c), and the websocket takes it from     *)
(* there (client.c).  The other way, the user's input is sent through the   *)
(* compressor of the other direction.                                      *)
(*                                                                         *)
(* locid is one thread: while a read is being handled (rx.left > 0) none of *)
(* its other callbacks runs.  The game is a second libtelnet with the same  *)
(* handler for MCCPX.  Every actor's workload is bounded by a plan chosen   *)
(* at the start, so that the kinds of traffic need not be mixed.            *)
(***************************************************************************)
EXTENDS Mccpx, Charset, SequencesExt

CONSTANTS
    Locid, Game,        \* the two ends of the telnet connection
    Plans               \* workloads

End == {Locid, Game}
Check == {"TELNET", "MUD", "MSSP"}
Sign == {"GMCP", "MSSP", "DONT", "AYT", "CHARSET"}

(* check    what the game must show before its text is passed on           *)
(* text     lines the game will send                                       *)
(* wish     times the game will switch its compression on or off           *)
(* input    lines the user will send                                       *)
(* echo     times the game will switch its ECHO                            *)
(* signs    telnet commands the game will send                             *)
(* offers   charset lists the game will offer                              *)
(* picks    charsets the user will choose                                  *)
(* drops    times the browser will lose its websocket and return           *)
(* close    may the game hang up, or the user ask for it?                  *)
PlanType ==
    [check : SUBSET Check, text : Nat, wish : Nat, input : Nat, echo : Nat,
     signs : SUBSET Sign, offers : SUBSET Offer, picks : SUBSET Name,
     drops : Nat, close : BOOLEAN]

ASSUME EndsAssumption == Locid # Game
ASSUME PlansAssumption == Plans \subseteq PlanType

VARIABLES
    lib,        \* lib[e]: the libtelnet of end e
    wire,       \* wire[e]: what is on its way to e
    rx,         \* locid's running telnet_recv
    sess,       \* the proxy_conn_t
    page,       \* the browser
    down, up,   \* websocket messages on their way to the browser, to locid
    charset,    \* the game's own charset
    plan,       \* what is left to do
    hist        \* what happened, for the properties

vars == <<lib, wire, rx, sess, page, down, up, charset, plan, hist>>

-----------------------------------------------------------------------------
(* What reaches the browser *)

(* st       pc->game->game_state                                           *)
(* check    pc->game->check_protocol                                       *)
(* due      the time in check_wait has come                                *)
(* q        pc->client->client_q                                           *)
(* want     a SERVER_WRITEABLE callback has been asked for                 *)
(* spoken   pc->game->data_sent                                            *)
(* echo     the game's ECHO option is on                                   *)
(* cs       the CHARSET option is on                                       *)
(* charset  pc->charset                                                    *)
Message == [cmd : {"TERM", "ECHO", "CHARSET", "CONNECT", "GMCP"},
            arg : Nat \cup Name]
SessionType ==
    [st : {"BLOCKING", "UP", "CLOSING", "DOWN"}, check : SUBSET Check,
     due : BOOLEAN, q : Seq(Message), want : BOOLEAN, spoken : BOOLEAN,
     echo : {0, 1}, cs : BOOLEAN, charset : Name]

Msg(cmd, arg) == [cmd |-> cmd, arg |-> arg]

\* loci_client_send_cmd.
Push_NoCallback(s, cmd, arg) == [s EXCEPT !.q = Append(@, Msg(cmd, arg))]
Push(s, cmd, arg) ==
    [s EXCEPT !.q = Append(@, Msg(cmd, arg)), !.want = @ \/ page.ws]

\* loci_client_send_echosga, which says nothing before the game has spoken.
PushEcho(s) == IF s.spoken THEN Push(s, "ECHO", s.echo) ELSE s

\* TELNET_EV_DATA: the first text is preceded by the mode.
Show_NoMode(s, n) == Push([s EXCEPT !.spoken = TRUE], "TERM", n)
Show(s, n) ==
    Push(IF s.spoken THEN s ELSE PushEcho([s EXCEPT !.spoken = TRUE]), "TERM", n)

\* security_checked.
Checked(s, flags) == [s EXCEPT !.check = @ \ flags]

(* security_enforcement, on any callback of either socket: a game that did  *)
(* not pass in time is closed, and nothing of what it said is shown.        *)
Failed(s) == s.st = "BLOCKING" /\ s.due /\ s.check # {}
Enforced_QueueKept(s) == IF Failed(s) THEN [s EXCEPT !.st = "CLOSING"] ELSE s
Enforced(s) == IF Failed(s) THEN [s EXCEPT !.st = "CLOSING", !.q = <<>>] ELSE s

\* The end of RAW_RX.
Unblocked_Always(s) == IF s.st = "BLOCKING" THEN [s EXCEPT !.st = "UP"] ELSE s
Unblocked(s) == IF s.st = "BLOCKING" /\ s.check = {} THEN [s EXCEPT !.st = "UP"] ELSE s

\* loci_proxy_set_charset and the REQUEST that follows the browser's choice.
SendRequest(l, s) == IF s.cs THEN Send(l, "REQUEST", s.charset) ELSE l

-----------------------------------------------------------------------------
(* locid reads *)

(* left     items of this read still to be handled                         *)
(* dec      the decoder this call uses, 0 for none                         *)
(* freed    that decoder was freed while the call still uses it            *)
NotReading == [left |-> 0, dec |-> 0, freed |-> FALSE]
Idle == rx.left = 0

\* LWS_CALLBACK_RAW_RX with the next k items, unless the game is closing.
RawRx_Always(k) ==
    /\ Idle
    /\ sess.st # "DOWN"
    /\ sess' = Enforced(sess)
    /\ rx' = [left |-> k, dec |-> lib[Locid].dec, freed |-> FALSE]
    /\ hist' = [hist EXCEPT !.failed = @ \/ Failed(sess)]
    /\ UNCHANGED <<lib, wire, page, down, up, charset, plan>>
RawRx(k) ==
    /\ Idle
    /\ sess.st # "DOWN"
    /\ sess' = Enforced(sess)
    /\ IF sess'.st = "CLOSING"
       THEN wire' = [wire EXCEPT ![Locid] = SubSeq(@, k + 1, Len(@))] /\ UNCHANGED rx
       ELSE rx' = [left |-> k, dec |-> lib[Locid].dec, freed |-> FALSE] /\ UNCHANGED wire
    /\ hist' = [hist EXCEPT !.failed = @ \/ Failed(sess)]
    /\ UNCHANGED <<lib, page, down, up, charset, plan>>

\* The next item, if the running call can make sense of it.
It == Head(wire[Locid])
Reads(say) == rx.left > 0 /\ ~rx.freed /\ It.enc = rx.dec /\ It.say = say

\* n items are done with; the session goes on as s, the call as r.
Done(n, l, s, r) ==
    /\ lib' = [lib EXCEPT ![Locid] = [l EXCEPT !.out = <<>>]]
    /\ wire' = [wire EXCEPT ![Locid] = SubSeq(@, n + 1, Len(@)), ![Game] = @ \o l.out]
    /\ sess' = IF r.left = n THEN Unblocked(s) ELSE s
    /\ rx' = IF r.left = n THEN NotReading ELSE [r EXCEPT !.left = @ - n]
    /\ UNCHANGED <<page, down, up, charset, plan>>

RxText ==
    /\ Reads("TEXT")
    /\ Done(1, lib[Locid], Show(sess, It.arg), rx)
    /\ hist' = [hist EXCEPT !.got[Locid] = Append(@, It.arg)]

(* The event that reports a DONT runs on into the case of a subnegotiation  *)
(* and reads an option that was never stored.                              *)
Stray(s, opt) ==
    CASE opt = "GMCP" -> Push(Checked(s, {"MUD"}), "GMCP", 0)
      [] opt = "MSSP" -> Checked(s, {"MSSP"})
      [] OTHER        -> s
Strays == {"none", "GMCP", "MSSP"}

\* What an event about MCCPX proves.
Proves(l, item) ==
    (IF Seen(l, item) THEN {"TELNET"} ELSE {}) \cup
    (IF Offered(l, item) THEN {"MUD"} ELSE {})

(* The call after l was handled: a stream that begins takes over the rest   *)
(* of a plain read, one that ends leaves the call with a freed decoder.     *)
CallOn_SameBuffer(l) == IF rx.dec # 0 /\ l.dec # rx.dec THEN [rx EXCEPT !.freed = TRUE] ELSE rx
CallOn(l) ==
    CASE rx.dec = 0 /\ l.dec # 0      -> [rx EXCEPT !.dec = l.dec]
      [] rx.dec # 0 /\ l.dec # rx.dec -> [rx EXCEPT !.freed = TRUE]
      [] OTHER                        -> rx

(* A compressor is gone without a WONT of ours: mccpx_end relies on the q   *)
(* entry, which need not say that the option is on.                        *)
Hushed(before, after) ==
    /\ before.enc # 0 /\ after.enc = 0
    /\ \A i \in DOMAIN after.out : after.out[i].say # "WONT"

(* BEGIN, and an ACCEPT that has a compressor set up, return 1: telnet_recv  *)
(* is called for what is left of the buffer being parsed.  Of a plain read   *)
(* those bytes are what they seem to be, compressed or not.  What an ACCEPT  *)
(* is found in may have been decoded already: RxAccept.  Here nothing is     *)
(* left of that buffer, or the encoding is "none".                           *)
RxMccpx(stray) ==
    /\ \E say \in About : Reads(say)
    /\ stray # "none" => Refused(lib[Locid], It)
    /\ LET l == Hear(lib[Locid], It) IN
       /\ Done(1, l, Stray(Checked(sess, Proves(lib[Locid], It)), stray), CallOn(l))
       /\ hist' = [hist EXCEPT !.spoke = @ \cup Proves(lib[Locid], It),
                               !.strayed = @ \/ stray # "none",
                               !.hushed = @ \/ Hushed(lib[Locid], l)]

(* An ACCEPT in the middle of what was decoded: the rest, which is text, is  *)
(* fed to the decoder once more, while that is still busy with the read.     *)
RxAccept ==
    /\ Reads("ACCEPT") /\ rx.dec # 0 /\ rx.left > 1
    /\ LET l == Hear(lib[Locid], It) IN
       /\ l.enc # lib[Locid].enc
       /\ \E c \in Choke(l) :
              Done(rx.left, c, Checked(sess, Proves(lib[Locid], It)), rx)
    /\ hist' = [hist EXCEPT !.spoke = @ \cup Proves(lib[Locid], It), !.refed = TRUE]

\* WILL or WONT ECHO.  The answer and the q entry are TelnetNegotiation's.
RxEcho ==
    /\ Reads("ECHO")
    /\ LET s == Checked([sess EXCEPT !.echo = It.arg], {"TELNET"}) IN
       Done(1, lib[Locid], PushEcho(s), rx)
    /\ hist' = [hist EXCEPT !.spoke = @ \cup {"TELNET"}]

\* WILL GMCP: the browser is told.
RxGmcp ==
    /\ Reads("GMCP")
    /\ Done(1, lib[Locid], Push(Checked(sess, {"TELNET", "MUD"}), "GMCP", 1), rx)
    /\ hist' = [hist EXCEPT !.spoke = @ \cup {"TELNET", "MUD"}]

\* The MSSP block: a subnegotiation and an event of its own.
RxMssp ==
    /\ Reads("MSSP")
    /\ Done(1, lib[Locid], Checked(sess, Check), rx)
    /\ hist' = [hist EXCEPT !.spoke = Check]

\* A DONT for an option that was on, NAWS for one.
RxDont(stray) ==
    /\ Reads("NAWS")
    /\ Done(1, lib[Locid], Stray(Checked(sess, {"TELNET"}), stray), rx)
    /\ hist' = [hist EXCEPT !.spoke = @ \cup {"TELNET"},
                            !.strayed = @ \/ stray # "none"]

\* AYT is answered with loci_game_write, past libtelnet and its compressor.
RxAyt ==
    /\ Reads("AYT")
    /\ Done(1, [lib[Locid] EXCEPT !.out = Append(@, Item(0, "YES", 0))], sess, rx)
    /\ hist' = [hist EXCEPT !.bypassed = @ \/ lib[Locid].enc # 0]

\* DO CHARSET: ours is requested.
RxDoCharset ==
    /\ Reads("DO CHARSET")
    /\ LET s == Checked([sess EXCEPT !.cs = TRUE], {"TELNET"}) IN
       Done(1, SendRequest(lib[Locid], s), s, rx)
    /\ hist' = [hist EXCEPT !.spoke = @ \cup {"TELNET"}]

\* The game's REQUEST: one is accepted and passed to the browser, or none.
RxOffer_Silently ==
    /\ Reads("REQUEST")
    /\ LET c == Accepted(It.arg)
           s == Checked(sess, {"TELNET"})
           l == Send(lib[Locid], IF c = NoName THEN "REJECTED" ELSE "ACCEPTED", c)
       IN  /\ Done(1, l, IF c = NoName THEN s ELSE [s EXCEPT !.charset = c], rx)
           /\ hist' = [hist EXCEPT !.spoke = @ \cup {"TELNET"}]
RxOffer_Unchecked ==
    /\ Reads("REQUEST")
    /\ LET c == Accepted(It.arg)
           s == Checked(sess, {"TELNET"})
       IN  Done(1, Send(lib[Locid], "ACCEPTED", c),
                Push([s EXCEPT !.charset = c], "CHARSET", c), rx)
    /\ hist' = [hist EXCEPT !.spoke = @ \cup {"TELNET"}]
RxOffer ==
    /\ Reads("REQUEST")
    /\ LET c == Accepted(It.arg)
           s == Checked(sess, {"TELNET"})
           l == Send(lib[Locid], IF c = NoName THEN "REJECTED" ELSE "ACCEPTED", c)
       IN  /\ Done(1, l, IF c = NoName THEN s
                         ELSE Push([s EXCEPT !.charset = c], "CHARSET", c), rx)
           /\ hist' = [hist EXCEPT !.spoke = @ \cup {"TELNET"}]

\* The game's answer to ours is not looked at.
RxAnswer ==
    /\ Reads("ACCEPTED") \/ Reads("REJECTED")
    /\ Done(1, lib[Locid], Checked(sess, {"TELNET"}), rx)
    /\ hist' = [hist EXCEPT !.spoke = @ \cup {"TELNET"}]

(* Compressed bytes that no decoder is set up for are parsed as telnet, for  *)
(* what they are worth; other bytes than its own choke the decoder, and with *)
(* it the read.                                                             *)
RxUnreadable ==
    /\ rx.left > 0 /\ ~rx.freed /\ It.enc # rx.dec
    /\ IF rx.dec = 0 THEN Done(1, lib[Locid], sess, rx)
       ELSE \E c \in Choke(lib[Locid]) : Done(rx.left, c, sess, rx)
    /\ UNCHANGED hist

(* A decoder that fails further on in the read returns nothing of what came  *)
(* before, if it was asked for both at once.                                 *)
RxSpoilt ==
    /\ rx.left > 0 /\ ~rx.freed /\ rx.dec # 0 /\ It.enc = rx.dec
    /\ \E i \in 2 .. rx.left : wire[Locid][i].enc # rx.dec
    /\ Done(rx.left, EndRecv(lib[Locid]), sess, rx)
    /\ hist' = [hist EXCEPT !.spanned = TRUE]

\* The rest of a read goes through the freed decoder: its text is lost.
RxFreed ==
    /\ rx.left > 0 /\ rx.freed
    /\ Done(rx.left, lib[Locid], sess, rx)
    /\ hist' = [hist EXCEPT !.spanned = TRUE]

Rx ==
    \/ \E k \in 1 .. Len(wire[Locid]) : RawRx(k)
    \/ RxText
    \/ \E stray \in Strays : RxMccpx(stray) \/ RxDont(stray)
    \/ RxAccept
    \/ RxEcho
    \/ RxGmcp
    \/ RxMssp
    \/ RxAyt
    \/ RxDoCharset
    \/ RxOffer
    \/ RxAnswer
    \/ RxUnreadable
    \/ RxSpoilt
    \/ RxFreed

-----------------------------------------------------------------------------
(* locid's other callbacks *)

(* Three seconds have passed without the checks.  Nothing runs by that: the *)
(* next callback of either socket notices.                                 *)
DeadlinePasses ==
    /\ sess.st = "BLOCKING" /\ ~sess.due /\ Idle
    /\ sess' = [sess EXCEPT !.due = TRUE]
    /\ UNCHANGED <<lib, wire, rx, page, down, up, charset, plan, hist>>

\* LWS_CALLBACK_TIMER of either socket, for its first line.
Timer ==
    /\ Idle /\ Failed(sess)
    /\ sess' = Enforced(sess)
    /\ hist' = [hist EXCEPT !.failed = TRUE]
    /\ UNCHANGED <<lib, wire, rx, page, down, up, charset, plan>>

(* LWS_CALLBACK_SERVER_WRITEABLE: one message, and the callback is asked    *)
(* for again while there are more; but not while the game is blocking.      *)
Waits(s) == s.st = "BLOCKING" /\ ~Failed(s)

Writeable_Once ==
    /\ Idle /\ sess.want /\ page.ws
    /\ LET s == [Enforced(sess) EXCEPT !.want = FALSE] IN
       IF Waits(s) \/ s.q = <<>>
       THEN sess' = s /\ UNCHANGED down
       ELSE /\ down' = Append(down, Head(s.q))
            /\ sess' = [s EXCEPT !.q = Tail(@)]
    /\ hist' = [hist EXCEPT !.failed = @ \/ Failed(sess),
                            !.stalled = @ \/ (Waits(sess) /\ sess.q # <<>>)]
    /\ UNCHANGED <<lib, wire, rx, page, up, charset, plan>>
Writeable ==
    /\ Idle /\ sess.want /\ page.ws
    /\ LET s == [Enforced(sess) EXCEPT !.want = FALSE] IN
       IF Waits(s) \/ s.q = <<>>
       THEN sess' = s /\ UNCHANGED down
       ELSE /\ down' = Append(down, Head(s.q))
            /\ sess' = [s EXCEPT !.q = Tail(@), !.want = Tail(s.q) # <<>>]
    /\ hist' = [hist EXCEPT !.failed = @ \/ Failed(sess),
                            !.stalled = @ \/ (Waits(sess) /\ sess.q # <<>>)]
    /\ UNCHANGED <<lib, wire, rx, page, up, charset, plan>>

\* LWS_CALLBACK_RECEIVE: the user's input, a charset or a DISCONNECT.
Receive_NoRequest ==
    /\ Idle /\ page.ws /\ up # <<>>
    /\ LET m == Head(up)
           s == Enforced(sess)
           t == CASE m.cmd = "CHARSET" -> [s EXCEPT !.charset = m.arg]
                  [] m.cmd = "DISCONNECT" /\ s.st # "DOWN" ->
                        Push([s EXCEPT !.st = "CLOSING"], "CONNECT", 0)
                  [] OTHER -> s
           l == IF m.cmd = "TERM" THEN Send(lib[Locid], "TEXT", m.arg) ELSE lib[Locid]
       IN  /\ sess' = t
           /\ lib' = [lib EXCEPT ![Locid] = [l EXCEPT !.out = <<>>]]
           /\ wire' = [wire EXCEPT ![Game] = @ \o (IF t.st = "DOWN" THEN <<>> ELSE l.out)]
    /\ up' = Tail(up)
    /\ hist' = [hist EXCEPT !.failed = @ \/ Failed(sess)]
    /\ UNCHANGED <<rx, page, down, charset, plan>>
Receive ==
    /\ Idle /\ page.ws /\ up # <<>>
    /\ LET m == Head(up)
           s == Enforced(sess)
           t == CASE m.cmd = "CHARSET" -> [s EXCEPT !.charset = m.arg]
                  [] m.cmd = "DISCONNECT" /\ s.st # "DOWN" ->
                        Push([s EXCEPT !.st = "CLOSING"], "CONNECT", 0)
                  [] OTHER -> s
           l == CASE m.cmd = "TERM"    -> Send(lib[Locid], "TEXT", m.arg)
                  [] m.cmd = "CHARSET" -> SendRequest(lib[Locid], t)
                  [] OTHER             -> lib[Locid]
       IN  /\ sess' = t
           /\ lib' = [lib EXCEPT ![Locid] = [l EXCEPT !.out = <<>>]]
           /\ wire' = [wire EXCEPT ![Game] = @ \o (IF t.st = "DOWN" THEN <<>> ELSE l.out)]
    /\ up' = Tail(up)
    /\ hist' = [hist EXCEPT !.failed = @ \/ Failed(sess)]
    /\ UNCHANGED <<rx, page, down, charset, plan>>

(* LWS_CALLBACK_RAW_CLOSE, of a game that hung up or of a socket that was   *)
(* to be closed.  The browser's queue stays, for the second that is left to *)
(* its websocket.                                                          *)
RawClose ==
    /\ Idle /\ sess.st # "DOWN"
    /\ sess.st = "CLOSING" \/ (plan.close /\ wire[Locid] = <<>>)
    /\ LET s == [Enforced(sess) EXCEPT !.st = "DOWN"] IN
       sess' = IF page.ws THEN Push(s, "CONNECT", 0) ELSE s
    /\ wire' = [e \in End |-> <<>>]
    /\ hist' = [hist EXCEPT !.failed = @ \/ Failed(sess), !.closed = TRUE]
    /\ UNCHANGED <<lib, rx, page, down, up, charset, plan>>

(* The websocket is lost, with or without the page around it.  Then a new  *)
(* one takes the game over with its uuid: a new proxy_conn_t, with a       *)
(* charset of its own, gets what the old one's queue still held, and tells *)
(* the browser the modes.                                                  *)
Lost ==
    /\ Idle /\ page.ws /\ plan.drops > 0 /\ sess.st # "DOWN"
    /\ \/ page' = [page EXCEPT !.ws = FALSE]
       \/ page' = [page EXCEPT !.ws = FALSE, !.mode = 0, !.charset = Default]
    /\ down' = <<>> /\ up' = <<>>
    /\ sess' = [sess EXCEPT !.want = FALSE]
    /\ plan' = [plan EXCEPT !.drops = @ - 1]
    /\ hist' = [hist EXCEPT !.dropped = TRUE, !.unsettled = TRUE]
    /\ UNCHANGED <<lib, wire, rx, charset>>

Roam_Quietly ==
    /\ Idle /\ ~page.ws /\ sess.st # "DOWN"
    /\ page' = [page EXCEPT !.ws = TRUE]
    /\ sess' = [Enforced(sess) EXCEPT !.charset = Default, !.want = TRUE,
                  !.q = Append(@, Msg("CONNECT", 1))]
    /\ hist' = [hist EXCEPT !.failed = @ \/ Failed(sess)]
    /\ UNCHANGED <<lib, wire, rx, down, up, charset, plan>>
Roam ==
    /\ Idle /\ ~page.ws /\ sess.st # "DOWN"
    /\ page' = [page EXCEPT !.ws = TRUE]
    /\ LET s == [Enforced(sess) EXCEPT !.charset = Default, !.want = TRUE,
                   !.q = Append(@, Msg("CONNECT", 1))]
       IN  sess' = PushEcho(s)
    /\ hist' = [hist EXCEPT !.failed = @ \/ Failed(sess)]
    /\ UNCHANGED <<lib, wire, rx, down, up, charset, plan>>

\* The second is over.
WebsocketCloses ==
    /\ page.ws /\ sess.st = "DOWN"
    /\ page' = [page EXCEPT !.ws = FALSE]
    /\ sess' = [sess EXCEPT !.want = FALSE, !.q = <<>>]
    /\ up' = <<>>
    /\ UNCHANGED <<lib, wire, rx, down, charset, plan, hist>>

-----------------------------------------------------------------------------
(* The browser *)

(* ws       its websocket is open                                          *)
(* mode     whether it echoes what is typed: the ECHO it was last told     *)
(* charset  what it decodes with                                           *)
(* shown    the game's lines on its screen                                 *)
PageReads ==
    /\ down # <<>>
    /\ LET m == Head(down) IN
       page' = CASE m.cmd = "TERM"    -> [page EXCEPT !.shown = Append(@, m.arg)]
                 [] m.cmd = "ECHO"    -> [page EXCEPT !.mode = m.arg]
                 [] m.cmd = "CHARSET" -> [page EXCEPT !.charset = m.arg]
                 [] OTHER             -> page
    /\ down' = Tail(down)
    /\ UNCHANGED <<lib, wire, rx, sess, up, charset, plan, hist>>

Input ==
    /\ page.ws /\ plan.input > 0
    /\ plan' = [plan EXCEPT !.input = @ - 1]
    /\ up' = Append(up, Msg("TERM", hist.sent[Game] + 1))
    /\ hist' = [hist EXCEPT !.sent[Game] = @ + 1]
    /\ UNCHANGED <<lib, wire, rx, sess, page, down, charset>>

\* The user's choice of a charset is on its way; or the game's is, to the user;
Choosing == \E i \in DOMAIN up : up[i].cmd = "CHARSET"
Offering ==
    \/ \E i \in DOMAIN wire[Locid] : wire[Locid][i].say = "REQUEST"
    \/ \E i \in DOMAIN sess.q : sess.q[i].cmd = "CHARSET"
    \/ \E i \in DOMAIN down : down[i].cmd = "CHARSET"
\* ... or either is, to the game.
Informing == \E i \in DOMAIN wire[Game] : wire[Game][i].say \in {"REQUEST", "ACCEPTED"}

\* A choice that meets no offer puts right whatever went wrong before.
PickCharset(c) ==
    /\ page.ws /\ c \in plan.picks
    /\ plan' = [plan EXCEPT !.picks = @ \ {c}]
    /\ page' = [page EXCEPT !.charset = c]
    /\ up' = Append(up, Msg("CHARSET", c))
    /\ hist' = [hist EXCEPT !.unsettled = Offering]
    /\ UNCHANGED <<lib, wire, rx, sess, down, charset>>

Disconnect ==
    /\ page.ws /\ plan.close
    /\ plan' = [plan EXCEPT !.close = FALSE]
    /\ up' = Append(up, Msg("DISCONNECT", 0))
    /\ UNCHANGED <<lib, wire, rx, sess, page, down, charset, hist>>

-----------------------------------------------------------------------------
(* The game *)

Connected == sess.st # "DOWN"

Emit(l) ==
    /\ lib' = [lib EXCEPT ![Game] = [l EXCEPT !.out = <<>>]]
    /\ wire' = [wire EXCEPT ![Locid] = @ \o l.out]
    /\ UNCHANGED <<rx, sess, page, down, up, charset>>

GameText ==
    /\ Connected /\ plan.text > 0
    /\ Emit(Send(lib[Game], "TEXT", hist.sent[Locid] + 1))
    /\ plan' = [plan EXCEPT !.text = @ - 1]
    /\ hist' = [hist EXCEPT !.sent[Locid] = @ + 1]

\* Its program offers compression, or ends it.
GameWish ==
    /\ Connected /\ plan.wish > 0
    /\ \/ Emit(Ours(lib[Game], AskYes(lib[Game].us))) /\ UNCHANGED hist
       \/ LET l == EndSend(lib[Game]) IN
          /\ Emit(l)
          /\ hist' = [hist EXCEPT !.hushed = @ \/ Hushed(lib[Game], l)]
    /\ plan' = [plan EXCEPT !.wish = @ - 1]

GameEcho ==
    /\ Connected /\ plan.echo > 0
    /\ Emit(Send(lib[Game], "ECHO", plan.echo % 2))
    /\ plan' = [plan EXCEPT !.echo = @ - 1]
    /\ UNCHANGED hist

GameSigns(sign) ==
    /\ Connected /\ sign \in plan.signs
    /\ Emit(Send(lib[Game], CASE sign = "DONT"    -> "NAWS"
                              [] sign = "CHARSET" -> "DO CHARSET"
                              [] OTHER            -> sign, 0))
    /\ plan' = [plan EXCEPT !.signs = @ \ {sign}]
    /\ UNCHANGED hist

GameOffers(o) ==
    /\ Connected /\ o \in plan.offers
    /\ Emit(Send(lib[Game], "REQUEST", o))
    /\ plan' = [plan EXCEPT !.offers = @ \ {o}]
    /\ hist' = [hist EXCEPT !.unsettled = @ \/ Choosing]

(* It reads item by item.  A REQUEST names one charset first and then all   *)
(* that there are: it accepts any of them, or none.  An ACCEPTED is taken   *)
(* at its word.                                                            *)
GameReads ==
    /\ wire[Game] # <<>>
    /\ LET item == Head(wire[Game])
           g == lib[Game]
           Answer(l) ==
               /\ lib' = [lib EXCEPT ![Game] = [l EXCEPT !.out = <<>>]]
               /\ wire' = [wire EXCEPT ![Game] = Tail(@), ![Locid] = @ \o l.out]
       IN  \/ /\ item.enc # g.dec
              /\ Answer(IF g.dec = 0 THEN g ELSE EndRecv(g))
              /\ UNCHANGED <<charset, hist>>
           \/ /\ item.enc = g.dec /\ item.say \in About
              /\ Answer(Hear(g, item))
              /\ hist' = [hist EXCEPT !.hushed = @ \/ Hushed(g, Hear(g, item))]
              /\ UNCHANGED charset
           \/ /\ item.enc = g.dec /\ item.say = "TEXT"
              /\ Answer(g)
              /\ hist' = [hist EXCEPT !.got[Game] = Append(@, item.arg)]
              /\ UNCHANGED charset
           \/ /\ item.enc = g.dec /\ item.say = "REQUEST"
              /\ \E c \in Supported \cup {item.arg} :
                     /\ Answer(Send(g, "ACCEPTED", c))
                     /\ charset' = c
                     /\ hist' = [hist EXCEPT !.disputed = c # item.arg]
           \/ /\ item.enc = g.dec /\ item.say = "REQUEST"
              /\ Answer(Send(g, "REJECTED", item.arg))
              /\ hist' = [hist EXCEPT !.disputed = TRUE]
              /\ UNCHANGED charset
           \/ /\ item.enc = g.dec /\ item.say = "ACCEPTED"
              /\ Answer(g)
              /\ charset' = item.arg
              /\ hist' = [hist EXCEPT !.disputed = FALSE]
           \/ /\ item.enc = g.dec /\ item.say \in {"REJECTED", "YES"}
              /\ Answer(g)
              /\ UNCHANGED <<charset, hist>>
    /\ UNCHANGED <<rx, sess, page, down, up, plan>>

-----------------------------------------------------------------------------

Init ==
    /\ plan \in Plans
    /\ lib = [e \in End |-> FreshEnd]
    /\ wire = [e \in End |-> <<>>]
    /\ rx = NotReading
    /\ sess = [st |-> IF plan.check = {} THEN "UP" ELSE "BLOCKING",
               check |-> plan.check, due |-> FALSE, q |-> <<>>, want |-> FALSE,
               spoken |-> FALSE, echo |-> 0, cs |-> FALSE, charset |-> Default]
    /\ page = [ws |-> TRUE, mode |-> 0, charset |-> Default, shown |-> <<>>]
    /\ down = <<>> /\ up = <<>>
    /\ charset = Default
    /\ hist = [sent |-> [e \in End |-> 0], got |-> [e \in End |-> <<>>],
               spoke |-> {}, failed |-> FALSE, strayed |-> FALSE,
               spanned |-> FALSE, bypassed |-> FALSE, hushed |-> FALSE,
               refed |-> FALSE, stalled |-> FALSE, unsettled |-> FALSE, disputed |-> FALSE,
               dropped |-> FALSE, closed |-> FALSE]

Server == Rx \/ DeadlinePasses \/ Timer \/ Writeable \/ Receive \/ RawClose
Browser == PageReads \/ Input \/ (\E c \in Name : PickCharset(c)) \/ Disconnect
Peer ==
    \/ GameText \/ GameWish \/ GameEcho \/ GameReads
    \/ \E sign \in Sign : GameSigns(sign)
    \/ \E o \in Offer : GameOffers(o)

Next == Server \/ Lost \/ Roam \/ WebsocketCloses \/ Browser \/ Peer

Spec == Init /\ [][Next]_vars

(* The event loop comes back to every socket that is ready, and to its      *)
(* timers; a socket that is to be closed is closed.  The browser reads, and *)
(* time passes.  Nobody else has to do anything.                           *)
Fairness ==
    /\ WF_vars(Rx) /\ WF_vars(Writeable) /\ WF_vars(Timer) /\ WF_vars(DeadlinePasses)
    /\ WF_vars(sess.st = "CLOSING" /\ RawClose)
    /\ WF_vars(PageReads)

FairSpec == Spec /\ Fairness

-----------------------------------------------------------------------------
(* Properties *)

EndType == [us : QState, him : QState, enc : Nat, dec : Nat, made : Nat, out : {<<>>}]
Said == About \cup {"TEXT", "ECHO", "GMCP", "MSSP", "NAWS", "AYT", "YES", "DO CHARSET",
                    "REQUEST", "ACCEPTED", "REJECTED"}
Flag == {"failed", "strayed", "spanned", "bypassed", "hushed", "refed", "stalled",
         "unsettled", "disputed", "dropped", "closed"}

\* Every variable keeps the type its actions rely on.
TypeOK ==
    /\ lib \in [End -> EndType]
    /\ \A e \in End : \A i \in DOMAIN wire[e] :
          wire[e][i].enc \in Nat /\ wire[e][i].say \in Said
    /\ rx \in [left : 0 .. Len(wire[Locid]), dec : Nat, freed : BOOLEAN]
    /\ sess \in SessionType
    /\ page.ws \in BOOLEAN /\ page.mode \in {0, 1} /\ page.charset \in Name
    /\ down \in Seq(Message)
    /\ \A i \in DOMAIN up : up[i].cmd \in {"TERM", "CHARSET", "DISCONNECT"}
    /\ charset \in Name
    /\ hist.spoke \subseteq Check
    /\ \A f \in Flag : hist[f] \in BOOLEAN

FirstOnes(s) == \A i \in DOMAIN s : s[i] = i
Rising(s) == \A i, j \in DOMAIN s : i < j => s[i] < s[j]

(* However compression is switched on and off, at whatever place a read     *)
(* ends, text arrives whole and in order in both directions: unless a       *)
(* stream ends in the middle of a read, or without a WONT, or a command is  *)
(* answered past the compressor, or an ACCEPT comes in the middle of what   *)
(* was decoded.  Of what is typed, lines are missing after a websocket was  *)
(* lost, but none comes twice or out of turn.                               *)
Intact ==
    ~hist.spanned /\ ~hist.hushed /\ ~hist.bypassed /\ ~hist.refed =>
        /\ FirstOnes(hist.got[Locid])
        /\ IF hist.dropped THEN Rising(hist.got[Game]) ELSE FirstOnes(hist.got[Game])

(* A game whose time has run out without its checks has shown the user      *)
(* nothing and never will, whatever was waiting in the queue.              *)
GateHolds == hist.failed => page.shown = <<>>

(* A game is let through only after it has shown each thing that was asked  *)
(* of it, the DONT that is taken for something else excepted.              *)
ChecksWitnessed == sess.st = "UP" => plan.check \subseteq hist.spoke \/ hist.strayed

(* No message waits for a websocket that nobody will call back: the callback *)
(* was asked for by whoever added to the queue, took from it or took it     *)
(* over, unless it came while the game was blocking, and was spent.        *)
QueueAttended == page.ws /\ sess.q # <<>> => sess.want \/ hist.stalled

(* When nothing is left to be told, the browser echoes as the game wants    *)
(* it, across lost websockets too, once the game has said anything at all.  *)
EchoTold ==
    page.ws /\ sess.spoken /\ sess.q = <<>> /\ down = <<>> /\ ~hist.failed
        => page.mode = sess.echo

(* When nothing about charsets is left to be said, browser, session and     *)
(* game use one and the same: unless the game wanted another than the last  *)
(* it was asked for, or no choice of the user's came after a lost websocket *)
(* or after one that met an offer, or the checks failed, or an answer past  *)
(* the compressor broke the stream.                                        *)
CharsetAgree ==
    /\ sess.cs /\ Connected /\ ~Choosing /\ ~Offering /\ ~Informing
    /\ ~hist.unsettled /\ ~hist.disputed /\ ~hist.failed /\ ~hist.bypassed
    => page.charset = sess.charset /\ charset = sess.charset

(* Text that locid has read is shown, unless the game fails its checks, a   *)
(* side is closed or lost, or the one callback that was asked for was spent *)
(* while the game was blocking.                                            *)
Excused == hist.failed \/ hist.closed \/ hist.dropped \/ hist.stalled
Delivered ==
    Len(hist.got[Locid]) > 0 ~> (Len(page.shown) > 0 /\ sess.q = <<>>) \/ Excused

=============================================================================
