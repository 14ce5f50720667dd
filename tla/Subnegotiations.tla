--------------------------- MODULE Subnegotiations ---------------------------
(***************************************************************************)
(* What subnegotiations say: libtelnet's parsers of the payload that the    *)
(* byte stream (TelnetStream) has delivered, the calls that compose such a  *)
(* payload, and what locid makes of it.  A payload is a sequence of bytes,   *)
(* the ones with a meaning under the name of that meaning: those of ENVIRON *)
(* and MSSP do not agree on which byte VAR is, but no payload is both.      *)
(* The parsers put what they read back into the payload's own memory; here  *)
(* they build it beside.                                                   *)
(***************************************************************************)
LOCAL INSTANCE Naturals
LOCAL INSTANCE SequencesExt
LOCAL INSTANCE FiniteSetsExt

\* A payload that makes no event: it is reported as an error, or dropped.
NoEvent == [cmd |-> "none"]

-----------------------------------------------------------------------------
(* MSSP: VAR name VAL value ..., several VALs being an array *)

MsspMarker == {"VAR", "VAL"}

(* An entry that calloc made and the parser did not fill in.                *)
Unfilled == [filled |-> FALSE]

\* A chunk of text ends: it was a name, or a value of the last name.
MsspStore(m) ==
    IF m.type = "VAR" THEN [m EXCEPT !.var = m.text, !.text = <<>>]
    ELSE [m EXCEPT !.text = <<>>,
                   !.values = Append(@, [filled |-> TRUE, var |-> m.var, value |-> m.text])]

MsspByte(m, b) ==
    IF b \in MsspMarker THEN [MsspStore(m) EXCEPT !.type = b]
    ELSE [m EXCEPT !.text = Append(@, b)]

(* _mssp_telnet: the event has as many entries as there are VALs.  The loop *)
(* ends with the payload, so that a marker that is its last byte has no      *)
(* chunk: if that is a VAL its entry remains unfilled.                      *)
MsspTelnet(buffer) ==
    IF buffer = <<>> \/ buffer[1] # "VAR" THEN NoEvent
    ELSE LET begin == [type |-> "VAR", var |-> <<>>, text |-> <<>>, values |-> <<>>]
             read == FoldLeft(MsspByte, begin, Tail(buffer))
             all == IF Last(buffer) \in MsspMarker THEN read ELSE MsspStore(read)
             count == Len(SelectSeq(buffer, LAMBDA b : b = "VAL"))
         IN  [cmd |-> "MSSP",
              values |-> [k \in 1..count |->
                            IF k <= Len(all.values) THEN all.values[k] ELSE Unfilled]]

\* mssp_to_json: of an array the last value, and no unfilled entry.
MsspToJson(values) ==
    LET filled == SelectSeq(values, LAMBDA e : e.filled)
        Of(name) == SelectLastInSeq(filled, LAMBDA e : e.var = name)
    IN  [name \in {filled[k].var : k \in DOMAIN filled} |-> filled[Of(name)].value]

-----------------------------------------------------------------------------
(* ENVIRON and NEW-ENVIRON: IS, SEND or INFO, then VAR name VALUE value ...,  *)
(* with ESC before a byte of a name or a value that would be a marker.       *)

EnvironType == {"VAR", "USERVAR"}

EnvironByte(m, b) ==
    LET here == Len(m.values)
        Put == [m EXCEPT !.values[here][m.part] = Append(@, b), !.escaped = FALSE]
    IN  IF m.escaped THEN Put
        ELSE IF b = "ESC" THEN [m EXCEPT !.escaped = TRUE]
        ELSE IF b \in EnvironType
        THEN [m EXCEPT !.values = Append(@, [type |-> b, var |-> <<>>, value |-> <<>>]),
                       !.part = "var"]
        ELSE IF b = "VALUE" /\ m.part = "var" THEN [m EXCEPT !.part = "value"]
        ELSE Put

(* _environ_telnet.  It wants no ESC at the end, and does not ask whether    *)
(* that is an ESC which was itself escaped.                                 *)
EnvironTelnet(buffer) ==
    IF \/ buffer = <<>>
       \/ buffer[1] \notin {"SEND", "IS", "INFO"}
       \/ Len(buffer) > 1 /\ (buffer[2] \notin EnvironType \/ Last(buffer) = "ESC")
    THEN NoEvent
    ELSE LET begin == [values |-> <<>>, part |-> "var", escaped |-> FALSE]
         IN  [cmd |-> buffer[1],
              values |-> FoldLeft(EnvironByte, begin, Tail(buffer)).values]

\* telnet_begin_newenviron and telnet_newenviron_value, which escape nothing:
\* one variable to a subnegotiation.
SendEnvVar(cmd, env) == <<cmd, env.type>> \o env.var \o <<"VALUE">> \o env.value

(* TELNET_EV_ENVIRON: "send 'em all", each in a subnegotiation of its own; a  *)
(* game that names the variables that it wants gets none.                   *)
AnswerEnviron(event, environment) ==
    IF event.cmd = "SEND" /\ event.values = <<>>
    THEN [k \in DOMAIN environment |-> SendEnvVar("IS", environment[k])]
    ELSE <<>>

(* loci_environment_update: the value of a variable changes; a variable that *)
(* there was not is appended, as a VAR.  The game is told of it if it uses    *)
(* the option.                                                              *)
EnvironmentUpdate(environment, var, value) ==
    LET at == SelectInSeq(environment, LAMBDA e : e.var = var)
    IN  IF at # 0 THEN [environment EXCEPT ![at].value = value]
        ELSE Append(environment, [type |-> "VAR", var |-> var, value |-> value])
TellUpdate(environment, var) ==
    SendEnvVar("INFO", environment[SelectInSeq(environment, LAMBDA e : e.var = var)])

-----------------------------------------------------------------------------
(* TERMINAL-TYPE and ZMP *)

\* _ttype_telnet
TtypeTelnet(buffer) ==
    IF buffer = <<>> \/ buffer[1] \notin {"IS", "SEND"} THEN NoEvent
    ELSE IF buffer[1] = "IS" THEN [cmd |-> "IS", name |-> Tail(buffer)]
    ELSE [cmd |-> "SEND"]

(* send_next_ttype: the types in order; the last again, to say that it was   *)
(* the last; and over.  ttype_state counts those that were sent.            *)
NextTtype(ttypes, state) ==
    IF state = Len(ttypes) THEN [name |-> ttypes[state], state |-> 0]
    ELSE [name |-> ttypes[state + 1], state |-> state + 1]

\* _zmp_telnet: arguments that each end with a NUL.
ZmpTelnet(buffer) ==
    IF buffer = <<>> \/ Last(buffer) # "NUL" THEN NoEvent
    ELSE LET Byte(argv, b) ==
                 IF b = "NUL" THEN Append(argv, <<>>)
                 ELSE [argv EXCEPT ![Len(argv)] = Append(@, b)]
         IN  [cmd |-> "ZMP", argv |-> Front(FoldLeft(Byte, <<<<>>>>, buffer))]

\* telnet_send_zmp
SendZmp(argv) == FlattenSeq([k \in DOMAIN argv |-> Append(argv[k], "NUL")])

=============================================================================
