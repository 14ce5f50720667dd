---------------------------- MODULE TelnetStream ----------------------------
(***************************************************************************)
(* The bytes of a telnet connection: libtelnet's encoder at one end and its *)
(* receive loop, _process, at the other.  TCP hands the receiver the bytes  *)
(* in pieces of any size; the loop keeps its place in a state machine, and  *)
(* the text of the piece at hand as a run chunk[start .. i - 1] that it has *)
(* still to give to the program.                                            *)
(*                                                                         *)
(* Each iteration of the loop is an action, and nothing comes between them: *)
(* what the peer sends meanwhile is not seen before the next read, so that  *)
(* the model has it sent after the loop.                                    *)
(*                                                                         *)
(* A switch of the decoder restarts the loop on the rest of the buffer.  The *)
(* decoder is taken as ideal: what it is given it turns into the bytes that  *)
(* were sent.  It is not so when a restart feeds it with what it has decoded *)
(* already, which is the matter of GameLink.RxAccept.  MCCPv1 is left        *)
(* out: option 85 is none of Option.  So is a change of the BINARY option   *)
(* in mid-stream: eol stays as it is.                                       *)
(***************************************************************************)
EXTENDS Naturals, SequencesExt

CONSTANTS
    Plain,          \* bytes with no meaning in telnet
    Code,           \* command bytes: GA, EOR, AYT
    Option,         \* option bytes
    Verb,           \* WILL, WONT, DO and DONT
    Restarts,       \* options whose subnegotiation switches the decoder
    MaxPayload,     \* bound on the length of a subnegotiation sent
    BufferLimit,    \* the last of _buffer_sizes
    MaxItems,       \* bound on the things sent
    MaxWire         \* bound on the bytes under way

ASSUME ByteAssumption ==
    /\ Restarts \subseteq Option
    /\ Verb # {}
    /\ (Plain \cup Option \cup Code \cup Verb)
         \cap {"IAC", "SB", "SE", "CR", "LF", "NUL"} = {}
    /\ Code \cap Verb = {}
ASSUME BoundAssumption ==
    /\ MaxPayload \in Nat /\ BufferLimit \in Nat
    /\ MaxItems \in Nat /\ MaxWire \in Nat

VARIABLES
    eol,        \* does this direction translate ends of line?
    sent,       \* what was sent so far, as the receiver should see it
    wire,       \* bytes under way
    chunk,      \* the buffer _process was called with; <<>> between calls
    i, start,   \* its two indices
    mode,       \* telnet->state; "NEG" stands for its four negotiation states
    verb,       \* ... and this tells which
    sbopt,      \* telnet->sb_telopt
    buffer,     \* telnet->buffer, up to buffer_pos
    got,        \* the events given to the program, text byte by byte
    items       \* things sent so far

sender == <<eol, sent, items>>
parser == <<verb, sbopt, buffer>>
vars == <<sender, wire, chunk, i, start, mode, parser, got>>

Byte == Plain \cup Code \cup Option \cup Verb
          \cup {"IAC", "SB", "SE", "CR", "LF", "NUL"}
Mode == {"DATA", "EOL", "IAC", "NEG", "SB", "SB_DATA", "SB_DATA_IAC"}

\* The telnet events, one per byte for text.
Text(b)        == <<"text", b>>
Command(c)     == <<"command", c>>
Negotiation(v, o) == <<"negotiation", v, o>>
Sub(o, p)      == <<"sub", o, p>>
Texts(s)       == [k \in DOMAIN s |-> Text(s[k])]

TypeOK ==
    /\ eol \in BOOLEAN
    /\ wire \in Seq(Byte)
    /\ chunk \in Seq(Byte)
    /\ i \in Nat /\ start \in Nat
    /\ mode \in Mode
    /\ verb \in Verb
    /\ sbopt \in Byte
    /\ buffer \in Seq(Byte) /\ Len(buffer) <= BufferLimit
    /\ items \in 0 .. MaxItems

-----------------------------------------------------------------------------
(* The sender *)

\* telnet_send: IAC is doubled.
Escape(s) ==
    FlattenSeq([k \in DOMAIN s |-> IF s[k] = "IAC" THEN <<"IAC", "IAC">>
                                                   ELSE <<s[k]>>])

\* telnet_send_text, when it translates.
EscapeText(b) ==
    CASE b = "CR" -> <<"CR", "NUL">>
      [] b = "LF" -> <<"CR", "LF">>
      [] OTHER    -> Escape(<<b>>)

\* telnet_begin_sb and the escaped payload; telnet_finish_sb adds IAC SE.
SubHead(o, p) == <<"IAC", "SB", o>> \o Escape(p)

(* What a subnegotiation comes to.  One that does not fit the receiver's    *)
(* buffer is given up at the first byte too many; what follows is taken for *)
(* text.                                                                   *)
Arrives(o, p) ==
    IF Len(p) <= BufferLimit THEN <<Sub(o, p)>>
    ELSE Texts(SubSeq(p, BufferLimit + 2, Len(p)))
Closing(p) == IF Len(p) <= BufferLimit THEN <<>> ELSE <<Command("SE")>>

Payload == BoundedSeq(Plain \cup {"IAC"}, MaxPayload)

Put(bytes, meaning) ==
    /\ items < MaxItems /\ chunk = <<>>
    /\ items' = items + 1
    /\ wire' = wire \o bytes /\ Len(wire') <= MaxWire
    /\ sent' = sent \o meaning
    /\ UNCHANGED <<eol, chunk, i, start, mode, parser, got>>

SendText(b) ==
    Put(IF eol THEN EscapeText(b) ELSE Escape(<<b>>), <<Text(b)>>)
SendCommand(c) == Put(<<"IAC", c>>, <<Command(c)>>)
SendNegotiation(v, o) == Put(<<"IAC", v, o>>, <<Negotiation(v, o)>>)
SendSub(o, p) ==
    Put(SubHead(o, p) \o <<"IAC", "SE">>, Arrives(o, p) \o Closing(p))

(* A peer that breaks a subnegotiation off with a command, a negotiation or *)
(* another subnegotiation: the receiver takes it as ended.  (What the start *)
(* of a compression would mean in such a form is anyone's guess.)           *)
BreakOff(o, p) ==
    /\ o \notin Restarts
    /\ \/ \E c \in Code :
            Put(SubHead(o, p) \o <<"IAC", c>>, Arrives(o, p) \o <<Command(c)>>)
       \/ \E v \in Verb :
            Put(SubHead(o, p) \o <<"IAC", v, o>>,
                Arrives(o, p) \o <<Negotiation(v, o)>>)
       \/ Put(SubHead(o, p) \o SubHead(o, <<>>) \o <<"IAC", "SE">>,
              Arrives(o, p) \o Arrives(o, <<>>))

-----------------------------------------------------------------------------
(* The receiver *)

\* telnet_recv with the next bytes from the socket.
Read ==
    /\ chunk = <<>>
    /\ \E n \in 1 .. MaxWire :
         /\ n <= Len(wire)
         /\ chunk' = SubSeq(wire, 1, n)
         /\ wire' = SubSeq(wire, n + 1, Len(wire))
    /\ UNCHANGED <<sender, i, start, mode, parser, got>>

\* The text run that is still to be given to the program.
Run == IF mode = "DATA" THEN SubSeq(chunk, start + 1, i) ELSE <<>>

\* One iteration: byte i gives the events e and leads to mode m.
Next1(m, e) ==
    /\ i' = i + 1
    /\ mode' = m
    /\ got' = got \o e
    /\ UNCHANGED <<sender, wire, chunk>>

\* ... after which text starts at the byte that follows, if at all.
ResumeText(m, e) == Next1(m, e) /\ start' = i + 1

Looping(m) == mode = m /\ i < Len(chunk)
This == chunk[i + 1]

Data ==
    /\ Looping("DATA")
    /\ \/ /\ This = "IAC"
          /\ Next1("IAC", Texts(Run))
       \/ /\ This = "CR" /\ eol
          /\ Next1("EOL", Texts(Run))
       \/ /\ This # "IAC" /\ ~(This = "CR" /\ eol)
          /\ Next1("DATA", <<>>)
    /\ UNCHANGED <<start, parser>>

\* NUL is dropped, LF stands for both; anything else follows a lone CR.
Eol ==
    /\ Looping("EOL")
    /\ Next1("DATA", IF This = "LF" THEN <<>> ELSE <<Text("CR")>>)
    /\ start' = IF This = "NUL" THEN i + 1 ELSE i
    /\ UNCHANGED parser

\* The command byte after an IAC.
Escaped_SkipsOne ==
    /\ This = "IAC"
    /\ Next1("DATA", <<Text("IAC")>>) /\ start' = i + 2
    /\ UNCHANGED verb
Escaped ==
    /\ This = "IAC"
    /\ ResumeText("DATA", <<Text("IAC")>>)
    /\ UNCHANGED verb

Interpret(e) ==
    \/ This = "SB" /\ Next1("SB", e) /\ UNCHANGED verb
    \/ This \in Verb /\ Next1("NEG", e) /\ verb' = This
    \/ /\ This \notin Verb \cup {"SB", "IAC"}
       /\ Next1("DATA", e \o <<Command(This)>>)
       /\ UNCHANGED verb

Iac ==
    /\ Looping("IAC")
    /\ \/ Escaped
       \/ /\ Interpret(<<>>)
          /\ start' = IF mode' = "DATA" THEN i + 1 ELSE start
    /\ UNCHANGED <<sbopt, buffer>>

\* _negotiate.
Neg ==
    /\ Looping("NEG")
    /\ ResumeText("DATA", <<Negotiation(verb, This)>>)
    /\ UNCHANGED parser

Sb_KeepsBuffer ==
    /\ Looping("SB")
    /\ Next1("SB_DATA", <<>>)
    /\ sbopt' = This
    /\ UNCHANGED <<start, verb, buffer>>
Sb ==
    /\ Looping("SB")
    /\ Next1("SB_DATA", <<>>)
    /\ sbopt' = This
    /\ buffer' = <<>>
    /\ UNCHANGED <<start, verb>>

\* _buffer_byte, which fails at the limit: the subnegotiation is given up.
HasRoom_OneMore == Len(buffer) <= BufferLimit
HasRoom == Len(buffer) < BufferLimit

BufferByte ==
    /\ \/ /\ HasRoom
          /\ Next1("SB_DATA", <<>>)
          /\ buffer' = Append(buffer, This)
          /\ UNCHANGED start
       \/ /\ ~HasRoom
          /\ ResumeText("DATA", <<>>)
          /\ UNCHANGED buffer
    /\ UNCHANGED <<verb, sbopt>>

SbData ==
    /\ Looping("SB_DATA")
    /\ \/ /\ This = "IAC"
          /\ Next1("SB_DATA_IAC", <<>>)
          /\ UNCHANGED <<start, parser>>
       \/ /\ This # "IAC"
          /\ BufferByte

\* When _subnegotiate has switched a stream, what is left of the buffer goes
\* through telnet_recv anew, and comes out as what was sent.
Restart(m) ==
    /\ sbopt \in Restarts
    /\ chunk' = SubSeq(chunk, i + 2, Len(chunk))
    /\ i' = 0 /\ start' = 0
    /\ mode' = m
    /\ got' = Append(got, Sub(sbopt, buffer))
    /\ UNCHANGED <<sender, wire, parser>>

SubEnd ==
    /\ This = "SE"
    /\ \/ Restart("DATA")
       \/ /\ sbopt \notin Restarts
          /\ ResumeText("DATA", <<Sub(sbopt, buffer)>>)
          /\ UNCHANGED parser

\* Any other command ends it as well, and is then a command of its own,
\* unless the decoder was switched.
SubBroken ==
    /\ This \notin {"SE", "IAC"}
    /\ \/ Restart("IAC")
       \/ /\ sbopt \notin Restarts
          /\ Interpret(<<Sub(sbopt, buffer)>>)
          /\ start' = i + 1
          /\ UNCHANGED <<sbopt, buffer>>

SbDataIac ==
    /\ Looping("SB_DATA_IAC")
    /\ \/ SubEnd
       \/ This = "IAC" /\ BufferByte
       \/ SubBroken

\* The end of the buffer: what text there is goes to the program.
Finish_KeepsText ==
    /\ chunk # <<>> /\ i = Len(chunk)
    /\ chunk' = <<>> /\ i' = 0 /\ start' = 0
    /\ UNCHANGED <<sender, wire, mode, parser, got>>
Finish ==
    /\ chunk # <<>> /\ i = Len(chunk)
    /\ got' = got \o Texts(Run)
    /\ chunk' = <<>> /\ i' = 0 /\ start' = 0
    /\ UNCHANGED <<sender, wire, mode, parser>>

Init ==
    /\ eol \in BOOLEAN
    /\ sent = <<>> /\ got = <<>> /\ items = 0
    /\ wire = <<>>
    /\ chunk = <<>> /\ i = 0 /\ start = 0
    /\ mode = "DATA"
    /\ verb \in Verb /\ sbopt = "NUL" /\ buffer = <<>>

Sending ==
    \/ \E b \in Plain \cup {"IAC", "CR", "LF", "NUL", "SE"} : SendText(b)
    \/ \E c \in Code : SendCommand(c)
    \/ \E v \in Verb, o \in Option : SendNegotiation(v, o)
    \/ \E o \in Option, p \in Payload : SendSub(o, p) \/ BreakOff(o, p)

Loop == Data \/ Eol \/ Iac \/ Neg \/ Sb \/ SbData \/ SbDataIac

Next == Sending \/ Read \/ Loop \/ Finish

Spec == Init /\ [][Next]_vars

\* The loop runs to its end, and the event loop reads what there is to read.
Fairness == WF_vars(Read \/ Loop \/ Finish)
FairSpec == Spec /\ Fairness

-----------------------------------------------------------------------------
(* What must hold *)

(* The run of text that is to be given to the program lies within the       *)
(* buffer at hand: _process never reaches back before it, nor past its end, *)
(* whatever state the previous buffer ended in.                             *)
RunsInBounds ==
    /\ i <= Len(chunk)
    /\ mode = "DATA" => start <= i

(* However the bytes are cut into reads, the program is given what was      *)
(* sent, in order and once; the loop implements the abstract connection.    *)
Pipe == INSTANCE TelnetPipe WITH received <- got \o Texts(Run)
InOrder == Pipe!Spec

(* Nothing is kept back: when the peer pauses, the program has everything,  *)
(* although no byte follows that would end a run of text.                   *)
NothingKept == []<>(got = sent)

=============================================================================
