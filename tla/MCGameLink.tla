----------------------------- MODULE MCGameLink -----------------------------
(***************************************************************************)
(* GameLink with workloads for each kind of traffic.                     *)
(***************************************************************************)
EXTENDS GameLink

CONSTANTS UTF8, BIG5, LATIN1, KOI8U, Few, Foreign, Blanked

Names == {UTF8, BIG5, LATIN1, KOI8U}
Ours6 == {UTF8, BIG5}

\* LATIN1 has no match; the U at the end of KOI8U begins UTF-8.
WholeOf == [n \in Names |-> IF n \in Ours6 THEN n ELSE NoName]
EndingOf == [n \in Names |-> IF n = KOI8U THEN UTF8 ELSE NoName]

\* <<BIG5, UTF8>> with blanks, <<BIG5, LATIN1>> with another separator, and
\* <<LATIN1, KOI8U>> with blanks.
Offers == {Few, Foreign, Blanked}
ListOf == [o \in Offers |-> CASE o = Few -> <<BIG5, UTF8>>
                              [] o = Foreign -> <<BIG5, LATIN1>>
                              [] o = Blanked -> <<LATIN1, KOI8U>>]
BlanksOf == [o \in Offers |-> o # Foreign]

Rest == [check |-> {}, text |-> 0, wish |-> 0, input |-> 0, echo |-> 0, signs |-> {},
         offers |-> {}, picks |-> {}, drops |-> 0, close |-> FALSE]

Compressing == [Rest EXCEPT !.text = 2, !.wish = 2, !.input = 2]
Answering   == [Rest EXCEPT !.wish = 1, !.input = 2, !.signs = {"AYT"}]
Checking(c) == [Rest EXCEPT !.check = c, !.text = 1, !.signs = {"GMCP", "MSSP", "DONT"},
                            !.close = TRUE]
Proving     == [Rest EXCEPT !.check = {"MUD"}, !.text = 1, !.wish = 2]
Echoing     == [Rest EXCEPT !.text = 1, !.echo = 2, !.drops = 1]
Talking     == [Rest EXCEPT !.signs = {"CHARSET"}, !.offers = {Few}, !.picks = {UTF8, BIG5}]
Misheard    == [Rest EXCEPT !.signs = {"CHARSET"}, !.offers = {Foreign, Blanked},
                            !.picks = {BIG5}]
Vetted      == [Rest EXCEPT !.check = {"MUD"}, !.signs = {"CHARSET", "GMCP"},
                            !.offers = {Few}]
Haggling    == [Rest EXCEPT !.wish = 1, !.signs = {"CHARSET", "AYT"}, !.picks = {BIG5}]
Typing      == [Rest EXCEPT !.text = 1, !.wish = 1, !.input = 3, !.drops = 1]
Roaming     == [Rest EXCEPT !.signs = {"CHARSET"}, !.picks = {BIG5}, !.drops = 1]

Workloads ==
    {Compressing, Answering, Proving, Echoing, Talking, Misheard, Roaming,
     Typing, Vetted, Haggling} \cup
    {Checking(c) : c \in {{"TELNET"}, {"MUD"}, {"TELNET", "MSSP"}}}

=============================================================================
