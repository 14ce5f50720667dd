------------------------- MODULE TelnetNegotiation -------------------------
(***************************************************************************)
(* Telnet option negotiation between locid and a game: libtelnet's q        *)
(* table at each end, the option tables of telnet.c, and the handler's own  *)
(* requests.  A game is modelled as a second libtelnet with tables and      *)
(* wishes of its own; an unruly one also sends whatever it likes.           *)
(***************************************************************************)
EXTENDS RFC1143, Naturals

CONSTANTS
    Locid, Game,        \* the two ends
    Option,             \* telnet options
    MCCPX, ENVIRON,     \* those that locid negotiates of its own accord
    Compression,        \* COMPRESS, MCCP2, MCCP3 and MCCPX: one at a time
    LocidWill,          \* options locid agrees to perform
    LocidDo,            \* options locid lets the game perform
    Games,              \* the kinds of game to be met
    NULL                \* no compression yet

End == {Locid, Game}

ASSUME EndAssumption == Locid # Game
ASSUME OptionAssumption ==
    /\ {MCCPX, ENVIRON} \cup Compression \subseteq Option
    /\ MCCPX \in Compression
    /\ NULL \notin Option

(* will, do    the tables of the game's own program                        *)
(* unruly      does it send commands out of turn?                          *)
(* maxAsks     bound on the wishes of both programs together               *)
ASSUME GamesAssumption ==
    Games \subseteq [will : SUBSET Option, do : SUBSET Option,
                     unruly : BOOLEAN, maxAsks : Nat]

VARIABLES
    us, him,    \* us[e][o], him[e][o]: the two halves of e's q entry for o
    told,       \* told[e]: peer options that e's program was told are on
    latch,      \* latch[e]: telnet->compression
    chan,       \* chan[e]: the commands on their way to e
    asks,       \* wishes so far
    game        \* which kind of game this one is

vars == <<us, him, told, latch, chan, asks, game>>

Peer(e) == IF e = Locid THEN Game ELSE Locid

Wills(e) == IF e = Locid THEN LocidWill ELSE game.will
Does(e)  == IF e = Locid THEN LocidDo ELSE game.do

Command == [verb : {"WILL", "WONT", "DO", "DONT"}, opt : Option]

TypeOK ==
    /\ us \in [End -> [Option -> QState]]
    /\ him \in [End -> [Option -> QState]]
    /\ told \in [End -> SUBSET Option]
    /\ latch \in [End -> Compression \cup {NULL}]
    /\ chan \in [End -> Seq(Command)]
    /\ asks \in 0 .. game.maxAsks
    /\ game \in Games

-----------------------------------------------------------------------------
(* _send_negotiate, for our side of option o and for the peer's. *)

OurSide(o, say) ==
    [i \in DOMAIN say |-> [verb |-> IF say[i] = "yes" THEN "WILL" ELSE "WONT",
                           opt |-> o]]
HisSide(o, say) ==
    [i \in DOMAIN say |-> [verb |-> IF say[i] = "yes" THEN "DO" ELSE "DONT",
                           opt |-> o]]

\* One command leaves e's receive buffer, the answers enter the peer's.
Answer(e, commands) ==
    chan' = [x \in End |-> IF x = e THEN Tail(chan[x]) ELSE chan[x] \o commands]

Tell(e, o, tell) ==
    told' = [told EXCEPT ![e] = CASE tell = "on"  -> @ \cup {o}
                                  [] tell = "off" -> @ \ {o}
                                  [] OTHER        -> @]

(* _check_telopt for the peer's side: the first compression he offers wins *)
(* the latch, and later ones are refused.                                  *)
Supported_AnyCompression(e, o) == o \in Does(e)
Supported(e, o) ==
    /\ o \in Does(e)
    /\ o \in Compression => latch[e] \in {NULL, o}

Latched_AnyOption(e, o) ==
    IF him[e][o] = "NO" /\ Supported(e, o) THEN o ELSE latch[e]
Latched(e, o) ==
    IF him[e][o] = "NO" /\ Supported(e, o) /\ o \in Compression THEN o
    ELSE latch[e]

(* loci_telnet_handler: MCCPX going off, on either side, is followed up by *)
(* mccpx_end, which asks for what has just happened; and MCCPX offered by  *)
(* the game makes locid offer it too.                                      *)
MccpxEnd(e, o, t) ==
    IF e = Locid /\ o = MCCPX /\ t.tell = "off"
    THEN [t EXCEPT !.state = AskNo(t.state).state,
                   !.say = @ \o AskNo(t.state).say]
    ELSE t

OfferBack(e, o, t) ==
    IF e = Locid /\ o = MCCPX /\ t.tell = "on" THEN AskYes(us[e][o])
    ELSE Stay(us[e][o])

(* _negotiate for a WILL.  Refusing one resets our own side of the option. *)
RefusalResets(e, o) == him[e][o] = "NO" /\ ~Supported(e, o)

HearWill(e, o) ==
    LET t == MccpxEnd(e, o, HearYes(him[e][o], Supported(e, o)))
        b == OfferBack(e, o, t)
    IN  /\ him' = [him EXCEPT ![e][o] = t.state]
        /\ us' = [us EXCEPT ![e][o] =
                    IF RefusalResets(e, o) THEN "NO" ELSE b.state]
        /\ latch' = [latch EXCEPT ![e] = Latched(e, o)]
        /\ Tell(e, o, t.tell)
        /\ Answer(e, HisSide(o, t.say) \o OurSide(o, b.say))

\* _negotiate for a WONT.
HearWont(e, o) ==
    LET t == MccpxEnd(e, o, HearNo(him[e][o])) IN
    /\ him' = [him EXCEPT ![e][o] = t.state]
    /\ Tell(e, o, t.tell)
    /\ Answer(e, HisSide(o, t.say))
    /\ UNCHANGED <<us, latch>>

\* _negotiate for a DO and a DONT.
HearDo(e, o) ==
    LET t == MccpxEnd(e, o, HearYes(us[e][o], o \in Wills(e))) IN
    /\ us' = [us EXCEPT ![e][o] = t.state]
    /\ Answer(e, OurSide(o, t.say))
    /\ UNCHANGED <<him, told, latch>>

HearDont(e, o) ==
    LET t == MccpxEnd(e, o, HearNo(us[e][o])) IN
    /\ us' = [us EXCEPT ![e][o] = t.state]
    /\ Answer(e, OurSide(o, t.say))
    /\ UNCHANGED <<him, told, latch>>

Receive(e) ==
    /\ chan[e] # <<>>
    /\ LET c == Head(chan[e]) IN
         \/ c.verb = "WILL" /\ HearWill(e, c.opt)
         \/ c.verb = "WONT" /\ HearWont(e, c.opt)
         \/ c.verb = "DO"   /\ HearDo(e, c.opt)
         \/ c.verb = "DONT" /\ HearDont(e, c.opt)
    /\ UNCHANGED <<asks, game>>

-----------------------------------------------------------------------------
(* telnet_negotiate, called by a program. *)

Ask == asks < game.maxAsks /\ asks' = asks + 1 /\ UNCHANGED game

AskOurs(e, o, t) ==
    /\ us' = [us EXCEPT ![e][o] = t.state]
    /\ chan' = [chan EXCEPT ![Peer(e)] = @ \o OurSide(o, t.say)]
    /\ UNCHANGED <<him, told>>

AskHis(e, o, t) ==
    /\ him' = [him EXCEPT ![e][o] = t.state]
    /\ chan' = [chan EXCEPT ![Peer(e)] = @ \o HisSide(o, t.say)]
    /\ UNCHANGED <<us, told>>

\* loci_renegotiate_env, after a reconnect.
RenegotiateEnv ==
    /\ Ask
    /\ AskOurs(Locid, ENVIRON, AskYes(us[Locid][ENVIRON]))
    /\ UNCHANGED latch

(* An MCCPX subnegotiation locid cannot use, or a broken stream: mccpx_end *)
(* for that direction.  Before that the subnegotiation, which need not     *)
(* have been negotiated, takes the latch or is refused for it.             *)
MccpxFails ==
    /\ Ask
    /\ latch[Locid] \in {NULL, MCCPX}
    /\ latch' = [latch EXCEPT ![Locid] = MCCPX]
    /\ \/ AskOurs(Locid, MCCPX, AskNo(us[Locid][MCCPX]))
       \/ AskHis(Locid, MCCPX, AskNo(him[Locid][MCCPX]))

\* The game asks for what its own tables support, on or off.
GameAsks(o) ==
    /\ Ask
    /\ \/ /\ o \in game.will
          /\ \E t \in {AskYes(us[Game][o]), AskNo(us[Game][o])} : AskOurs(Game, o, t)
       \/ /\ o \in game.do
          /\ \E t \in {AskYes(him[Game][o]), AskNo(him[Game][o])} : AskHis(Game, o, t)
    /\ UNCHANGED latch

\* A game that follows no protocol.
GameSays(c) ==
    /\ game.unruly
    /\ Ask
    /\ chan' = [chan EXCEPT ![Locid] = Append(@, c)]
    /\ UNCHANGED <<us, him, told, latch>>

Init ==
    /\ us = [e \in End |-> [o \in Option |-> "NO"]]
    /\ him = [e \in End |-> [o \in Option |-> "NO"]]
    /\ told = [e \in End |-> {}]
    /\ latch = [e \in End |-> NULL]
    /\ chan = [e \in End |-> <<>>]
    /\ asks = 0
    /\ game \in Games

Next ==
    \/ \E e \in End : Receive(e)
    \/ RenegotiateEnv
    \/ MccpxFails
    \/ \E o \in Option : GameAsks(o)
    \/ \E c \in Command : GameSays(c)

Spec == Init /\ [][Next]_vars

\* TCP delivers, and each event loop reads what was delivered.
Fairness == \A e \in End : WF_vars(Receive(e))
FairSpec == Spec /\ Fairness

-----------------------------------------------------------------------------
(* What must hold *)

Quiet == \A e \in End : chan[e] = <<>>

(* What each program was last told of its peer's side is what the q table   *)
(* says of it.  The browser's GMCP module, its local echo and its prompt    *)
(* handling are switched by these events and by nothing else.              *)
ToldTheTruth ==
    \A e \in End, o \in Option : o \in told[e] <=> him[e][o] \in On

(* Locid agrees to at most one compression of the incoming stream at a      *)
(* time, the one its latch names ("latecomer do not"), whatever the game    *)
(* offers, withdraws, or claims in an MCCPX subnegotiation.                 *)
OneCompression ==
    \A o \in Compression : him[Locid][o] # "NO" => latch[Locid] = o

(* When no command is under way, the two ends agree on every option and    *)
(* neither waits for an answer: the point of the Q method, with a game that *)
(* follows it.                                                             *)
QuietAgree ==
    Quiet /\ ~game.unruly => \A e \in End, o \in Option :
                /\ us[e][o] = him[Peer(e)][o]
                /\ us[e][o] \in {"NO", "YES"}

(* Negotiation ends: programs that stop asking are not kept busy by answers. *)
(* A game that breaks the rules can start commands that chase each other     *)
(* for ever, and only such a game.                                          *)
Settles == ~game.unruly => <>[]Quiet

=============================================================================
