--------------------------- MODULE MCTelnetStream ---------------------------
(***************************************************************************)
(* TelnetStream with one byte, command, verb and option of each sort.  What  *)
(* the subnegotiations say does not depend on how they were delivered: the   *)
(* assumptions below, which TLC evaluates, compare the parsers of module     *)
(* Subnegotiations with what was composed, for all short contents.          *)
(***************************************************************************)
EXTENDS TelnetStream, Subnegotiations, TLC

CONSTANTS X, GA, WILL, GMCP, MCCPX

PlainBytes == {X}
Codes      == {GA}
Verbs      == {WILL}
Options    == {GMCP, MCCPX}
Switching  == {MCCPX}

-----------------------------------------------------------------------------
Words(bytes, n) == BoundedSeq(bytes, n)

(* MSSP: every name is reported with its last value, and nothing else is,    *)
(* for up to two variables with up to two values each; but an empty value at *)
(* the very end of the subnegotiation is lost.                              *)
Reports ==
    BoundedSeq([var : {<<"n">>, <<"m">>}, values : BoundedSeq(Words({"x", "y"}, 1), 2)], 2)
Mssp(report) ==
    FlattenSeq([k \in DOMAIN report |->
        <<"VAR">> \o report[k].var
          \o FlattenSeq([j \in DOMAIN report[k].values |-> <<"VAL">> \o report[k].values[j]])])
Said(report) ==
    FlattenSeq([k \in DOMAIN report |->
        [j \in DOMAIN report[k].values |-> <<report[k].var, report[k].values[j]>>]])
Kept(report) ==
    IF Last(Mssp(report)) = "VAL" THEN Front(Said(report)) ELSE Said(report)

ASSUME MsspIsRead ==
    \A report \in Reports \ {<<>>} :
        LET json == MsspToJson(MsspTelnet(Mssp(report)).values)
            kept == Kept(report)
        IN  /\ DOMAIN json = {kept[k][1] : k \in DOMAIN kept}
            /\ \A k \in DOMAIN kept :
                 (\A l \in k + 1 .. Len(kept) : kept[l][1] # kept[k][1])
                   => json[kept[k][1]] = kept[k][2]

(* Whatever the payload, at most its last entry is not filled in, and that    *)
(* exactly if it ends with a VAL: the entry that the comment at telnet.c:664 *)
(* says the code should not have to check for.                              *)
ASSUME UnfilledIsLast ==
    \A payload \in BoundedSeq({"VAR", "VAL", "x"}, 6) :
        LET event == MsspTelnet(payload) IN
        event.cmd = "MSSP"
        => \A k \in DOMAIN event.values :
             ~event.values[k].filled <=> (k = Len(event.values) /\ Last(payload) = "VAL")

(* ENVIRON: an escaped list of variables is read as it was meant, unless its  *)
(* last byte is an escaped ESC: then there is no event at all.              *)
Variables(n) ==
    LET text == Words({"x", "VAR", "VALUE", "ESC"}, n)
    IN  [type : EnvironType, var : text, value : text]
EscapeWord(w) ==
    FlattenSeq([k \in DOMAIN w |-> IF w[k] = "x" THEN <<w[k]>> ELSE <<"ESC", w[k]>>])
Environ(list) ==
    FlattenSeq([k \in DOMAIN list |->
        <<list[k].type>> \o EscapeWord(list[k].var)
          \o <<"VALUE">> \o EscapeWord(list[k].value)])

ASSUME EnvironIsRead ==
    \A list \in BoundedSeq(Variables(1), 2) \cup BoundedSeq(Variables(2), 1) :
        EnvironTelnet(<<"IS">> \o Environ(list)) =
            IF list # <<>> /\ Last(Environ(list)) = "ESC" THEN NoEvent
            ELSE [cmd |-> "IS", values |-> list]

(* Asked for all, locid sends each of its variables, as it was last updated,  *)
(* in a subnegotiation that reads as that variable alone; an update, too.    *)
ASSUME EnvironmentIsSent ==
    \A list \in BoundedSeq([type : EnvironType, var : Words({"x"}, 2), value : {<<"y">>}], 2),
       var \in Words({"x"}, 2) :
        LET updated == EnvironmentUpdate(list, var, <<"z">>)
            subs == AnswerEnviron(EnvironTelnet(<<"SEND">>), updated)
        IN  /\ \A k \in DOMAIN list : updated[k] = list[k] \/ list[k].var = var
            /\ \E k \in DOMAIN updated : updated[k].var = var /\ updated[k].value = <<"z">>
            /\ Len(subs) = Len(updated)
            /\ \A k \in DOMAIN subs : EnvironTelnet(subs[k]).values = <<updated[k]>>
            /\ EnvironTelnet(TellUpdate(updated, var)).values[1].value = <<"z">>

(* TERMINAL-TYPE: the types come in order, the last twice, and then again     *)
(* from the first, however often the game asks.                             *)
ASSUME TtypesCycle ==
    \A n \in 1..4 :
        LET ttypes == [k \in 1..n |-> k]
            Ask(s, k) == [state |-> NextTtype(ttypes, s.state).state,
                          names |-> Append(s.names, NextTtype(ttypes, s.state).name)]
            names == FoldLeft(Ask, [state |-> 0, names |-> <<>>], [k \in 1..10 |-> k]).names
        IN  \A k \in 1..10 :
              names[k] = IF k % (n + 1) = 0 THEN n ELSE k % (n + 1)

\* ZMP: what telnet_send_zmp composes is read as the same arguments.
ASSUME ZmpIsRead ==
    \A argv \in BoundedSeq(Words({"x", "y"}, 2), 3) \ {<<>>} :
        ZmpTelnet(SendZmp(argv)) = [cmd |-> "ZMP", argv |-> argv]

=============================================================================
