------------------------------ MODULE Charset ------------------------------
(***************************************************************************)
(* What locid makes of a list of charsets offered by a game (charset.c).    *)
(* A name is a value; what the comparison of characters finds in it is      *)
(* given by two functions.                                                 *)
(***************************************************************************)
EXTENDS Sequences, Naturals

CONSTANTS
    Name,           \* names of charsets
    Supported,      \* those of charset_supported
    Default,        \* the first of them, charset_default
    Whole,          \* Whole[n]: the first supported name that begins with n
    Ending,         \* Ending[n]: the first that begins with some end of n
    NoName,         \* there is none
    Offer,          \* the lists a game may send
    Listed,         \* Listed[o]: the names of o, in order
    Blanks          \* Blanks[o]: are they separated by blanks?

ASSUME CharsetAssumption ==
    /\ Supported \subseteq Name
    /\ Default \in Supported
    /\ NoName \notin Name
    /\ Whole \in [Name -> Supported \cup {NoName}]
    /\ Ending \in [Name -> Supported \cup {NoName}]
    /\ Listed \in [Offer -> Seq(Name)]
    /\ Blanks \in [Offer -> BOOLEAN]

\* The first match in the characters of n: from its start, then further on.
Within(n) == IF Whole[n] # NoName THEN Whole[n] ELSE Ending[n]

(* The search looks for the next separator from every character in turn.    *)
(* Where that is a blank and the first name has no match, the blank after   *)
(* it counts as an empty name, which every supported name begins with.  Any *)
(* other separator has been overwritten with blanks before it is looked     *)
(* for: every name then runs to the end of the list, further than any       *)
(* supported name, and only the last can match.                            *)
Accepted(o) ==
    LET names == Listed[o]
        first == Head(names)
        last  == names[Len(names)]
    IN  CASE names = <<>> -> NoName
          [] names # <<>> /\ ~Blanks[o] -> Within(last)
          [] OTHER -> IF Within(first) = NoName /\ Len(names) > 1 THEN Default
                      ELSE Within(first)

=============================================================================
