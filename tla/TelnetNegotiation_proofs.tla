---------------------- MODULE TelnetNegotiation_proofs ----------------------
(***************************************************************************)
(* What each program is told, and the single compression, for any tables   *)
(* of options and whatever the game sends, in turn or out of turn; and that *)
(* the two ends agree on every option once nothing is under way.            *)
(***************************************************************************)
EXTENDS TelnetNegotiation, SequenceTheorems, TLAPS

\* A transition from s tells the program exactly what it changes.
Tells(s, t) ==
    t.state \in On <=> t.tell = "on" \/ (t.tell = "nothing" /\ s \in On)

(* Every transition of the Q method stays among the six states and tells    *)
(* the program whenever the side goes on or off.                           *)
LEMMA HearYesTells ==
    ASSUME NEW s \in QState, NEW supported \in BOOLEAN
    PROVE  /\ HearYes(s, supported) \in Transitions
           /\ Tells(s, HearYes(s, supported))
<1>1. /\ <<>> \in Seq({"yes", "no"})
      /\ <<"yes">> \in Seq({"yes", "no"})
      /\ <<"no">> \in Seq({"yes", "no"})
  OBVIOUS
<1> QED
  BY <1>1 DEF QState, HearYes, Transition, Stay, Transitions, Tells, On

\* The same of the peer's no.
LEMMA HearNoTells ==
    ASSUME NEW s \in QState
    PROVE  HearNo(s) \in Transitions /\ Tells(s, HearNo(s))
<1>1. /\ <<>> \in Seq({"yes", "no"})
      /\ <<"yes">> \in Seq({"yes", "no"})
      /\ <<"no">> \in Seq({"yes", "no"})
  OBVIOUS
<1> QED
  BY <1>1 DEF QState, HearNo, Transition, Stay, Transitions, Tells, On

\* A wish of the program tells it nothing and needs not to.
LEMMA AskTells ==
    ASSUME NEW s \in QState
    PROVE  /\ AskYes(s) \in Transitions /\ Tells(s, AskYes(s)) /\ AskYes(s).tell = "nothing"
           /\ AskNo(s) \in Transitions /\ Tells(s, AskNo(s)) /\ AskNo(s).tell = "nothing"
<1>1. /\ <<>> \in Seq({"yes", "no"})
      /\ <<"yes">> \in Seq({"yes", "no"})
      /\ <<"no">> \in Seq({"yes", "no"})
  OBVIOUS
<1> QED
  BY <1>1 DEF QState, AskYes, AskNo, Transition, Stay, Transitions, Tells, On

\* mccpx_end, called from the handler, only asks.
LEMMA MccpxEndTells ==
    ASSUME NEW e, NEW o, NEW s \in QState, NEW t \in Transitions, Tells(s, t)
    PROVE  /\ MccpxEnd(e, o, t) \in Transitions
           /\ Tells(s, MccpxEnd(e, o, t))
           /\ MccpxEnd(e, o, t).tell = t.tell
<1> DEFINE a == AskNo(t.state)
<1>1. t.state \in QState /\ t.say \in Seq({"yes", "no"}) /\ t.tell \in {"on", "off", "nothing"}
  BY DEF Transitions
<1>2. /\ a \in Transitions /\ a.tell = "nothing"
      /\ a.state \in On <=> t.state \in On
  BY <1>1, AskTells DEF Tells
<1>3. a.state \in QState /\ a.say \in Seq({"yes", "no"})
  BY <1>2 DEF Transitions
<1> HIDE DEF a
<1>4. t.say \o a.say \in Seq({"yes", "no"})
  BY <1>1, <1>3
<1>5. [t EXCEPT !.state = a.state, !.say = @ \o a.say] \in Transitions
  BY <1>1, <1>3, <1>4 DEF Transitions
<1>6. /\ [t EXCEPT !.state = a.state, !.say = @ \o a.say].state = a.state
      /\ [t EXCEPT !.state = a.state, !.say = @ \o a.say].tell = t.tell
  BY DEF Transitions
<1> QED
  BY <1>2, <1>5, <1>6 DEF MccpxEnd, Tells, a

\* OfferBack is a wish or nothing.
LEMMA OfferBackType ==
    ASSUME NEW e \in End, NEW o \in Option, NEW t, TypeOK
    PROVE  OfferBack(e, o, t) \in Transitions
<1>1. us[e][o] \in QState
  BY DEF TypeOK
<1>2. Stay(us[e][o]) \in Transitions
  BY <1>1 DEF Stay, Transition, Transitions
<1> QED
  BY <1>1, <1>2, AskTells DEF OfferBack

\* Answers are commands about the option at hand.
LEMMA SideType ==
    ASSUME NEW o \in Option, NEW say \in Seq({"yes", "no"})
    PROVE  OurSide(o, say) \in Seq(Command) /\ HisSide(o, say) \in Seq(Command)
<1>1. PICK n \in Nat : DOMAIN say = 1 .. n
  OBVIOUS
<1>2. \A i \in 1 .. n :
         /\ [verb |-> IF say[i] = "yes" THEN "WILL" ELSE "WONT", opt |-> o] \in Command
         /\ [verb |-> IF say[i] = "yes" THEN "DO" ELSE "DONT", opt |-> o] \in Command
  BY DEF Command
<1>3. OurSide(o, say) \in [1 .. n -> Command] /\ HisSide(o, say) \in [1 .. n -> Command]
  BY <1>1, <1>2 DEF OurSide, HisSide
<1> QED
  BY <1>3, SeqDef

\* Receiving and answering leaves both channels sequences of commands.
LEMMA AnswerType ==
    ASSUME TypeOK, NEW e \in End, NEW commands \in Seq(Command),
           chan[e] # <<>>, Answer(e, commands)
    PROVE  chan' \in [End -> Seq(Command)]
<1>1. \A x \in End : chan[x] \in Seq(Command)
  BY DEF TypeOK
<1>2. Tail(chan[e]) \in Seq(Command)
  BY <1>1, HeadTailProperties
<1>3. \A x \in End : chan[x] \o commands \in Seq(Command)
  BY <1>1, ConcatProperties
<1> QED
  BY <1>2, <1>3 DEF Answer

\* Sending without receiving.
LEMMA SendType ==
    ASSUME TypeOK, NEW e \in End, NEW commands \in Seq(Command),
           chan' = [chan EXCEPT ![Peer(e)] = @ \o commands]
    PROVE  chan' \in [End -> Seq(Command)]
<1>1. \A x \in End : chan[x] \in Seq(Command)
  BY DEF TypeOK
<1>2. \A x \in End : chan[x] \o commands \in Seq(Command)
  BY <1>1, ConcatProperties
<1> QED
  BY <1>1, <1>2 DEF TypeOK, Peer, End

-----------------------------------------------------------------------------
(* The inductive invariant.  Locid never asks a game to compress, which is  *)
(* what keeps the sides of compressions out of three of the six states, and *)
(* with them the latch in step.                                            *)
NeverAsked ==
    \A o \in Compression : him[Locid][o] \in {"NO", "YES", "WANTNO"}

IInv == TypeOK /\ ToldTheTruth /\ OneCompression /\ NeverAsked

\* A peer's side that was never asked for, across an announcement.
LEMMA UnaskedYes ==
    ASSUME NEW e, NEW o, NEW s \in {"NO", "YES", "WANTNO"}, NEW b \in BOOLEAN
    PROVE  /\ MccpxEnd(e, o, HearYes(s, b)).state \in {"NO", "YES", "WANTNO"}
           /\ s = "NO" /\ ~b => MccpxEnd(e, o, HearYes(s, b)).state = "NO"
  BY DEF MccpxEnd, HearYes, AskNo, Transition, Stay

\* The same for his no, and for a wish of ours to have it off.
LEMMA UnaskedNo ==
    ASSUME NEW e, NEW o, NEW s \in {"NO", "YES", "WANTNO"}
    PROVE  /\ MccpxEnd(e, o, HearNo(s)).state = "NO"
           /\ AskNo(s).state \in {"NO", "YES", "WANTNO"}
           /\ s = "NO" => AskNo(s).state = "NO"
  BY DEF MccpxEnd, HearNo, AskNo, Transition, Stay

\* A program told of the transition of his[e][o] still knows the truth.
LEMMA ToldStep ==
    ASSUME TypeOK, ToldTheTruth, NEW e \in End, NEW o \in Option,
           NEW t \in Transitions, Tells(him[e][o], t),
           Tell(e, o, t.tell), him' = [him EXCEPT ![e][o] = t.state]
    PROVE  /\ told' \in [End -> SUBSET Option] /\ ToldTheTruth'
           /\ him' \in [End -> [Option -> QState]]
<1>1. t.state \in QState /\ t.tell \in {"on", "off", "nothing"}
  BY DEF Transitions
<1>2. him' \in [End -> [Option -> QState]]
  BY <1>1 DEF TypeOK
<1>3. \A x \in End, y \in Option :
         him'[x][y] = IF x = e /\ y = o THEN t.state ELSE him[x][y]
  BY DEF TypeOK
<1>4. told' \in [End -> SUBSET Option]
  BY <1>1 DEF TypeOK, Tell
<1>5. \A x \in End, y \in Option :
         y \in told'[x] <=>
            IF x = e /\ y = o
            THEN t.tell = "on" \/ (t.tell = "nothing" /\ y \in told[x])
            ELSE y \in told[x]
  BY <1>1 DEF TypeOK, Tell
<1>6. ToldTheTruth'
  <2> SUFFICES ASSUME NEW x \in End, NEW y \in Option
               PROVE  y \in told'[x] <=> him'[x][y] \in On
    BY DEF ToldTheTruth, On
  <2>1. y \in told[x] <=> him[x][y] \in On
    BY DEF ToldTheTruth
  <2>2. CASE x = e /\ y = o
    BY <2>1, <2>2, <1>3, <1>5 DEF Tells
  <2>3. CASE ~(x = e /\ y = o)
    BY <2>1, <2>3, <1>3, <1>5
  <2> QED
    BY <2>2, <2>3
<1> QED
  BY <1>2, <1>4, <1>6

-----------------------------------------------------------------------------
(* One lemma per action. *)

\* A command from the peer is about one of the options.
LEMMA HeadType ==
    ASSUME TypeOK, NEW e \in End, chan[e] # <<>>
    PROVE  Head(chan[e]) \in Command /\ Head(chan[e]).opt \in Option
<1>1. chan[e] \in Seq(Command)
  BY DEF TypeOK
<1>2. Head(chan[e]) \in Command
  BY <1>1, HeadTailProperties
<1> QED
  BY <1>2 DEF Command

\* A WILL: the only way to a compression, and it passes the latch.
LEMMA HearWillSafe ==
    ASSUME IInv, NEW e \in End, NEW o \in Option, chan[e] # <<>>,
           HearWill(e, o), UNCHANGED <<asks, game>>
    PROVE  IInv'
<1> DEFINE h == HearYes(him[e][o], Supported(e, o))
           t == MccpxEnd(e, o, h)
           b == OfferBack(e, o, t)
<1>1. TypeOK /\ ToldTheTruth /\ OneCompression /\ NeverAsked
  BY DEF IInv
<1>2. /\ him[e][o] \in QState /\ us[e][o] \in QState /\ Supported(e, o) \in BOOLEAN
      /\ latch[e] \in Compression \cup {NULL}
  BY <1>1 DEF TypeOK, Supported
<1>3. t \in Transitions /\ Tells(him[e][o], t)
  BY <1>2, HearYesTells, MccpxEndTells
<1>4. b \in Transitions
  BY <1>1, OfferBackType
<1>5. /\ t.say \in Seq({"yes", "no"}) /\ b.say \in Seq({"yes", "no"})
      /\ b.state \in QState
  BY <1>3, <1>4 DEF Transitions
<1>6. /\ him' = [him EXCEPT ![e][o] = t.state]
      /\ us' = [us EXCEPT ![e][o] = IF RefusalResets(e, o) THEN "NO" ELSE b.state]
      /\ latch' = [latch EXCEPT ![e] = Latched(e, o)]
      /\ Tell(e, o, t.tell)
      /\ Answer(e, HisSide(o, t.say) \o OurSide(o, b.say))
  BY DEF HearWill
<1> HIDE DEF t, b
<1>7. told' \in [End -> SUBSET Option] /\ ToldTheTruth' /\ him' \in [End -> [Option -> QState]]
  BY <1>1, <1>3, <1>6, ToldStep
<1>8. us' \in [End -> [Option -> QState]]
  BY <1>1, <1>5, <1>6 DEF TypeOK, QState
<1>9. latch' \in [End -> Compression \cup {NULL}]
  BY <1>1, <1>2, <1>6 DEF TypeOK, Latched
<1>10. chan' \in [End -> Seq(Command)]
  <2>1. HisSide(o, t.say) \in Seq(Command) /\ OurSide(o, b.say) \in Seq(Command)
    BY <1>5, SideType
  <2>2. HisSide(o, t.say) \o OurSide(o, b.say) \in Seq(Command)
    BY <2>1, ConcatProperties
  <2> QED
    BY <1>1, <1>6, <2>2, AnswerType
<1>11. asks' \in 0 .. game'.maxAsks /\ game' \in Games
  BY <1>1 DEF TypeOK
<1>12. OneCompression' /\ NeverAsked'
  <2>1. \A x \in Compression : x \in Option /\ x # NULL
    BY OptionAssumption
  <2>2. \A x \in Option : him'[Locid][x] =
           IF e = Locid /\ x = o THEN t.state ELSE him[Locid][x]
    BY <1>1, <1>6 DEF TypeOK, End
  <2>3. latch'[Locid] = IF e = Locid THEN Latched(e, o) ELSE latch[Locid]
    BY <1>1, <1>6 DEF TypeOK, End
  <2>4. e = Locid /\ o \in Compression =>
          /\ t.state \in {"NO", "YES", "WANTNO"}
          /\ him[e][o] = "NO" /\ ~Supported(e, o) => t.state = "NO"
    <3> SUFFICES ASSUME e = Locid, o \in Compression
                 PROVE  /\ t.state \in {"NO", "YES", "WANTNO"}
                        /\ him[e][o] = "NO" /\ ~Supported(e, o) => t.state = "NO"
      OBVIOUS
    <3>1. him[e][o] \in {"NO", "YES", "WANTNO"}
      BY <1>1 DEF NeverAsked
    <3>2. /\ MccpxEnd(e, o, h).state \in {"NO", "YES", "WANTNO"}
          /\ him[e][o] = "NO" /\ ~Supported(e, o) => MccpxEnd(e, o, h).state = "NO"
      BY <1>2, <3>1, UnaskedYes
    <3> QED
      BY <3>2 DEF t
  <2>5. NeverAsked'
    BY <1>1, <2>1, <2>2, <2>4 DEF NeverAsked
  <2>6. OneCompression'
    BY <1>1, <2>1, <2>2, <2>3, <2>4 DEF OneCompression, Latched, Supported
  <2> QED
    BY <2>5, <2>6
<1> QED
  BY <1>7, <1>8, <1>9, <1>10, <1>11, <1>12 DEF IInv, TypeOK

\* A WONT switches the peer's side off, or accepts that it was.
LEMMA HearWontSafe ==
    ASSUME IInv, NEW e \in End, NEW o \in Option, chan[e] # <<>>,
           HearWont(e, o), UNCHANGED <<asks, game>>
    PROVE  IInv'
<1> DEFINE t == MccpxEnd(e, o, HearNo(him[e][o]))
<1>1. TypeOK /\ ToldTheTruth /\ OneCompression /\ NeverAsked
  BY DEF IInv
<1>2. him[e][o] \in QState
  BY <1>1 DEF TypeOK
<1>3. t \in Transitions /\ Tells(him[e][o], t)
  BY <1>2, HearNoTells, MccpxEndTells
<1>4. t.say \in Seq({"yes", "no"})
  BY <1>3 DEF Transitions
<1>5. /\ him' = [him EXCEPT ![e][o] = t.state]
      /\ Tell(e, o, t.tell)
      /\ Answer(e, HisSide(o, t.say))
      /\ UNCHANGED <<us, latch>>
  BY DEF HearWont
<1>6. e = Locid /\ o \in Compression => t.state = "NO"
  BY <1>1, UnaskedNo DEF NeverAsked
<1> HIDE DEF t
<1>7. told' \in [End -> SUBSET Option] /\ ToldTheTruth' /\ him' \in [End -> [Option -> QState]]
  BY <1>1, <1>3, <1>5, ToldStep
<1>8. chan' \in [End -> Seq(Command)]
  BY <1>1, <1>4, <1>5, SideType, AnswerType
<1>9. OneCompression' /\ NeverAsked'
  <2>1. \A x \in Compression : x \in Option
    BY OptionAssumption
  <2>2. \A x \in Option : him'[Locid][x] =
           IF e = Locid /\ x = o THEN t.state ELSE him[Locid][x]
    BY <1>1, <1>5 DEF TypeOK, End
  <2> QED
    BY <1>1, <1>5, <1>6, <2>1, <2>2 DEF OneCompression, NeverAsked
<1> QED
  BY <1>1, <1>5, <1>7, <1>8, <1>9 DEF IInv, TypeOK

(* A command about our own side, a DO or a DONT, is a transition of us that *)
(* leaves the rest of the invariant alone.                                 *)
LEMMA OursSafe ==
    ASSUME IInv, NEW e \in End, NEW o \in Option, NEW t \in Transitions,
           us' = [us EXCEPT ![e][o] = t.state],
           chan' \in [End -> Seq(Command)], asks' \in 0 .. game'.maxAsks /\ game' \in Games,
           UNCHANGED <<him, told, latch>>
    PROVE  IInv'
<1>1. t.state \in QState
  BY DEF Transitions
<1>2. us' \in [End -> [Option -> QState]]
  BY <1>1 DEF IInv, TypeOK
<1>3. ToldTheTruth' /\ OneCompression' /\ NeverAsked'
  BY DEF IInv, ToldTheTruth, OneCompression, NeverAsked
<1> QED
  BY <1>2, <1>3 DEF IInv, TypeOK

\* A DO.
LEMMA HearDoSafe ==
    ASSUME IInv, NEW e \in End, NEW o \in Option, chan[e] # <<>>,
           HearDo(e, o), UNCHANGED <<asks, game>>
    PROVE  IInv'
<1> DEFINE t == MccpxEnd(e, o, HearYes(us[e][o], o \in Wills(e)))
<1>1. TypeOK /\ us[e][o] \in QState
  BY DEF IInv, TypeOK
<1> (o \in Wills(e)) \in BOOLEAN
  OBVIOUS
<1>2. t \in Transitions
  BY <1>1, HearYesTells, MccpxEndTells
<1>3. t.say \in Seq({"yes", "no"})
  BY <1>2 DEF Transitions
<1>4. /\ us' = [us EXCEPT ![e][o] = t.state]
      /\ Answer(e, OurSide(o, t.say))
      /\ UNCHANGED <<him, told, latch>>
  BY DEF HearDo
<1> HIDE DEF t
<1>5. chan' \in [End -> Seq(Command)] /\ asks' \in 0 .. game'.maxAsks /\ game' \in Games
  BY <1>1, <1>3, <1>4, SideType, AnswerType DEF TypeOK
<1> QED
  BY <1>2, <1>4, <1>5, OursSafe

\* A DONT.
LEMMA HearDontSafe ==
    ASSUME IInv, NEW e \in End, NEW o \in Option, chan[e] # <<>>,
           HearDont(e, o), UNCHANGED <<asks, game>>
    PROVE  IInv'
<1> DEFINE t == MccpxEnd(e, o, HearNo(us[e][o]))
<1>1. TypeOK /\ us[e][o] \in QState
  BY DEF IInv, TypeOK
<1>2. t \in Transitions
  BY <1>1, HearNoTells, MccpxEndTells
<1>3. t.say \in Seq({"yes", "no"})
  BY <1>2 DEF Transitions
<1>4. /\ us' = [us EXCEPT ![e][o] = t.state]
      /\ Answer(e, OurSide(o, t.say))
      /\ UNCHANGED <<him, told, latch>>
  BY DEF HearDont
<1> HIDE DEF t
<1>5. chan' \in [End -> Seq(Command)] /\ asks' \in 0 .. game'.maxAsks /\ game' \in Games
  BY <1>1, <1>3, <1>4, SideType, AnswerType DEF TypeOK
<1> QED
  BY <1>2, <1>4, <1>5, OursSafe

\* One of the four commands, whichever it is.
LEMMA ReceiveSafe ==
    ASSUME IInv, NEW e \in End, Receive(e)
    PROVE  IInv'
<1>1. /\ chan[e] # <<>> /\ UNCHANGED <<asks, game>> /\ Head(chan[e]).opt \in Option
  BY HeadType DEF Receive, IInv
<1>2. \/ HearWill(e, Head(chan[e]).opt)
      \/ HearWont(e, Head(chan[e]).opt)
      \/ HearDo(e, Head(chan[e]).opt)
      \/ HearDont(e, Head(chan[e]).opt)
  BY DEF Receive
<1> QED
  BY <1>1, <1>2, HearWillSafe, HearWontSafe, HearDoSafe, HearDontSafe

\* A wish is counted and does not change the game.
LEMMA AskSafe ==
    ASSUME TypeOK, Ask
    PROVE  asks' \in 0 .. game'.maxAsks /\ game' \in Games
<1>1. game.maxAsks \in Nat
  BY GamesAssumption DEF TypeOK
<1> QED
  BY <1>1 DEF TypeOK, Ask

\* A wish about our own side.
LEMMA AskOursSafe ==
    ASSUME IInv, NEW e \in End, NEW o \in Option, NEW t \in Transitions,
           AskOurs(e, o, t), Ask, UNCHANGED latch
    PROVE  IInv'
<1>1. TypeOK
  BY DEF IInv
<1>2. t.say \in Seq({"yes", "no"})
  BY DEF Transitions
<1>3. chan' \in [End -> Seq(Command)]
  BY <1>1, <1>2, SideType, SendType DEF AskOurs
<1>4. asks' \in 0 .. game'.maxAsks /\ game' \in Games
  BY <1>1, AskSafe
<1> QED
  BY <1>3, <1>4, OursSafe DEF AskOurs

\* A wish about the peer's side, which tells the program nothing.
LEMMA AskHisSafe ==
    ASSUME TypeOK, ToldTheTruth, NEW e \in End, NEW o \in Option,
           NEW t \in Transitions, Tells(him[e][o], t), t.tell = "nothing",
           AskHis(e, o, t), Ask, latch' \in [End -> Compression \cup {NULL}]
    PROVE  /\ TypeOK' /\ ToldTheTruth'
           /\ \A x \in Option : him'[Locid][x] =
                 IF e = Locid /\ x = o THEN t.state ELSE him[Locid][x]
<1>1. t.say \in Seq({"yes", "no"}) /\ t.state \in QState
  BY DEF Transitions
<1>2. chan' \in [End -> Seq(Command)]
  BY <1>1, SideType, SendType DEF AskHis
<1>3. asks' \in 0 .. game'.maxAsks /\ game' \in Games
  BY AskSafe
<1>4. /\ him' = [him EXCEPT ![e][o] = t.state]
      /\ UNCHANGED <<us, told>>
  BY DEF AskHis
<1>5. Tell(e, o, t.tell)
  BY <1>4 DEF Tell, TypeOK
<1>6. told' \in [End -> SUBSET Option] /\ ToldTheTruth' /\ him' \in [End -> [Option -> QState]]
  BY <1>4, <1>5, ToldStep
<1>7. TypeOK'
  BY <1>2, <1>3, <1>4, <1>6 DEF TypeOK
<1>8. \A x \in Option : him'[Locid][x] =
         IF e = Locid /\ x = o THEN t.state ELSE him[Locid][x]
  BY <1>4 DEF TypeOK, End
<1> QED
  BY <1>6, <1>7, <1>8

\* locid offers NEW_ENVIRON again.
LEMMA RenegotiateEnvSafe ==
    ASSUME IInv, RenegotiateEnv
    PROVE  IInv'
<1>1. Locid \in End /\ ENVIRON \in Option
  BY OptionAssumption DEF End
<1>2. us[Locid][ENVIRON] \in QState
  BY <1>1 DEF IInv, TypeOK
<1>3. AskYes(us[Locid][ENVIRON]) \in Transitions
  BY <1>2, AskTells
<1> QED
  BY <1>1, <1>3, AskOursSafe DEF RenegotiateEnv

(* An MCCPX subnegotiation takes the latch only if no other compression     *)
(* holds it, so that one agreed to before is MCCPX itself.                  *)
LEMMA MccpxFailsSafe ==
    ASSUME IInv, MccpxFails
    PROVE  IInv'
<1>1. TypeOK /\ ToldTheTruth /\ OneCompression /\ NeverAsked
  BY DEF IInv
<1>2. /\ Locid \in End /\ MCCPX \in Option /\ MCCPX \in Compression
      /\ \A x \in Compression : x \in Option /\ x # NULL
  BY OptionAssumption DEF End
<1>3. latch' \in [End -> Compression \cup {NULL}] /\ latch'[Locid] = MCCPX
  BY <1>1, <1>2 DEF TypeOK, MccpxFails
<1>4. \A x \in Compression : him[Locid][x] # "NO" => x = MCCPX
  BY <1>1, <1>2 DEF OneCompression, MccpxFails
<1>5. us[Locid][MCCPX] \in QState /\ him[Locid][MCCPX] \in QState
  BY <1>1, <1>2 DEF TypeOK
<1>6. CASE AskOurs(Locid, MCCPX, AskNo(us[Locid][MCCPX]))
  <2> DEFINE t == AskNo(us[Locid][MCCPX])
  <2>1. t \in Transitions /\ t.say \in Seq({"yes", "no"}) /\ t.state \in QState
    BY <1>5, AskTells DEF Transitions
  <2>2. /\ us' = [us EXCEPT ![Locid][MCCPX] = t.state]
        /\ chan' = [chan EXCEPT ![Peer(Locid)] = @ \o OurSide(MCCPX, t.say)]
        /\ UNCHANGED <<him, told>>
    BY <1>6 DEF AskOurs
  <2> HIDE DEF t
  <2>3. chan' \in [End -> Seq(Command)]
    BY <1>1, <1>2, <2>1, <2>2, SideType, SendType
  <2>4. us' \in [End -> [Option -> QState]]
    BY <1>1, <2>1, <2>2 DEF TypeOK
  <2>5. asks' \in 0 .. game'.maxAsks /\ game' \in Games
    BY <1>1, AskSafe DEF MccpxFails
  <2>6. TypeOK'
    BY <1>1, <1>3, <2>2, <2>3, <2>4, <2>5 DEF TypeOK
  <2>7. ToldTheTruth' /\ NeverAsked'
    BY <1>1, <2>2 DEF ToldTheTruth, NeverAsked
  <2>8. OneCompression'
    BY <1>3, <1>4, <2>2 DEF OneCompression
  <2> QED
    BY <2>6, <2>7, <2>8 DEF IInv
<1>7. CASE AskHis(Locid, MCCPX, AskNo(him[Locid][MCCPX]))
  <2> DEFINE t == AskNo(him[Locid][MCCPX])
  <2>1. t \in Transitions /\ Tells(him[Locid][MCCPX], t) /\ t.tell = "nothing"
    BY <1>5, AskTells
  <2>2. him[Locid][MCCPX] \in {"NO", "YES", "WANTNO"}
    BY <1>1, <1>2 DEF NeverAsked
  <2>3. t.state \in {"NO", "YES", "WANTNO"}
    BY <2>2, UnaskedNo
  <2>4. Ask /\ AskHis(Locid, MCCPX, t)
    BY <1>7 DEF MccpxFails
  <2> HIDE DEF t
  <2>5. /\ TypeOK' /\ ToldTheTruth'
        /\ \A x \in Option : him'[Locid][x] =
              IF x = MCCPX THEN t.state ELSE him[Locid][x]
    BY <1>1, <1>2, <1>3, <2>1, <2>4, AskHisSafe
  <2>6. NeverAsked'
    BY <1>1, <1>2, <2>3, <2>5 DEF NeverAsked
  <2>7. OneCompression'
    BY <1>2, <1>3, <1>4, <2>5 DEF OneCompression
  <2> QED
    BY <2>5, <2>6, <2>7 DEF IInv
<1> QED
  BY <1>6, <1>7 DEF MccpxFails

\* The game's own wishes do not touch locid's end.
LEMMA GameAsksSafe ==
    ASSUME IInv, NEW o \in Option, GameAsks(o)
    PROVE  IInv'
<1>1. TypeOK /\ ToldTheTruth /\ OneCompression /\ NeverAsked /\ Game \in End
  BY DEF IInv, End
<1>2. us[Game][o] \in QState /\ him[Game][o] \in QState
  BY <1>1 DEF TypeOK
<1>3. Ask /\ UNCHANGED latch
  BY DEF GameAsks
<1>4. ASSUME NEW t \in {AskYes(us[Game][o]), AskNo(us[Game][o])}, AskOurs(Game, o, t)
      PROVE  IInv'
  <2>1. t \in Transitions
    BY <1>2, AskTells
  <2> QED
    BY <1>1, <1>3, <1>4, <2>1, AskOursSafe
<1>5. ASSUME NEW t \in {AskYes(him[Game][o]), AskNo(him[Game][o])}, AskHis(Game, o, t)
      PROVE  IInv'
  <2>1. t \in Transitions /\ Tells(him[Game][o], t) /\ t.tell = "nothing"
    BY <1>2, AskTells
  <2>2. latch' \in [End -> Compression \cup {NULL}] /\ latch' = latch
    BY <1>1, <1>3 DEF TypeOK
  <2>3. /\ TypeOK' /\ ToldTheTruth'
        /\ \A x \in Option : him'[Locid][x] = him[Locid][x]
    BY <1>1, <1>3, <1>5, <2>1, <2>2, AskHisSafe, EndAssumption
  <2>4. \A x \in Compression : x \in Option
    BY OptionAssumption
  <2> QED
    BY <1>1, <2>2, <2>3, <2>4 DEF IInv, OneCompression, NeverAsked
<1> QED
  BY <1>4, <1>5 DEF GameAsks

\* A command out of turn only enters the channel.
LEMMA GameSaysSafe ==
    ASSUME IInv, NEW c \in Command, GameSays(c)
    PROVE  IInv'
<1>1. chan[Locid] \in Seq(Command) /\ Locid \in End
  BY DEF IInv, TypeOK, End
<1>2. Append(chan[Locid], c) \in Seq(Command)
  BY <1>1, AppendProperties
<1>3. chan' \in [End -> Seq(Command)]
  BY <1>1, <1>2 DEF IInv, TypeOK, GameSays
<1>4. asks' \in 0 .. game'.maxAsks /\ game' \in Games
  BY AskSafe DEF IInv, GameSays
<1>5. UNCHANGED <<us, him, told, latch>>
  BY DEF GameSays
<1> QED
  BY <1>3, <1>4, <1>5 DEF IInv, TypeOK, ToldTheTruth, OneCompression, NeverAsked

\* Both ends start with every option off.
LEMMA InitSafe == Init => IInv
<1> SUFFICES ASSUME Init PROVE IInv
  OBVIOUS
<1>1. /\ Locid \in End
      /\ \A o \in Compression : o \in Option
  BY OptionAssumption DEF End
<1>2. TypeOK
  <2>1. game \in Games /\ game.maxAsks \in Nat
    BY GamesAssumption DEF Init
  <2> QED
    BY <2>1 DEF Init, TypeOK, QState
<1>3. ToldTheTruth
  BY DEF Init, ToldTheTruth, On
<1>4. OneCompression /\ NeverAsked
  BY <1>1 DEF Init, OneCompression, NeverAsked
<1> QED
  BY <1>2, <1>3, <1>4 DEF IInv

\* Every step keeps the invariant.
LEMMA NextSafe == IInv /\ [Next]_vars => IInv'
<1> SUFFICES ASSUME IInv, [Next]_vars PROVE IInv'
  OBVIOUS
<1>1. CASE \E e \in End : Receive(e)
  BY <1>1, ReceiveSafe
<1>2. CASE RenegotiateEnv
  BY <1>2, RenegotiateEnvSafe
<1>3. CASE MccpxFails
  BY <1>3, MccpxFailsSafe
<1>4. CASE \E o \in Option : GameAsks(o)
  BY <1>4, GameAsksSafe
<1>5. CASE \E c \in Command : GameSays(c)
  BY <1>5, GameSaysSafe
<1>6. CASE UNCHANGED vars
  BY <1>6 DEF vars, IInv, TypeOK, ToldTheTruth, OneCompression, NeverAsked
<1> QED
  BY <1>1, <1>2, <1>3, <1>4, <1>5, <1>6 DEF Next

\* The invariant of the negotiation, for any tables and any game.
THEOREM Invariant == Spec => []IInv
  BY InitSafe, NextSafe, PTL DEF Spec

\* Every q entry, latch and channel keeps its type.
THEOREM TypeCorrect == Spec => []TypeOK
<1>1. IInv => TypeOK
  BY DEF IInv
<1> QED
  BY <1>1, Invariant, PTL

(* Browser and server are never left with a wrong idea of the game's side  *)
(* of an option, even by a game that breaks the protocol.                  *)
THEOREM ToldTheTruthHolds == Spec => []ToldTheTruth
<1>1. IInv => ToldTheTruth
  BY DEF IInv
<1> QED
  BY <1>1, Invariant, PTL

(* No game can make locid agree to two compressions at a time.             *)
THEOREM OneCompressionHolds == Spec => []OneCompression
<1>1. IInv => OneCompression
  BY DEF IInv
<1> QED
  BY <1>1, Invariant, PTL

-----------------------------------------------------------------------------
(***************************************************************************)
(* The two ends agree when quiet.                                          *)
(*                                                                         *)
(* An option has two sides, and each side is a protocol of its own between *)
(* the end that performs it and the end that watches it: WILL and WONT go   *)
(* one way, DO and DONT the other, and both ends follow the same four      *)
(* transitions of RFC1143.  Linked is the invariant of that protocol, of   *)
(* the two q states and the announcements under way in each direction.     *)
(* The channels carry the commands of all options and sides mixed; Sub     *)
(* picks those of one side out of a channel.                               *)
(*                                                                         *)
(* What breaks the link is the reset of our own side that comes with a     *)
(* refused WILL.  Compatible names the games that never meet it.           *)
(***************************************************************************)

(* l is what is left of c when only the members of S are kept: f gives the *)
(* place in c of each element of l.                                        *)
Sub(c, S, l) ==
    \E f \in [1 .. Len(l) -> 1 .. Len(c)] :
      /\ \A i, j \in 1 .. Len(l) : i < j => f[i] < f[j]
      /\ \A i \in 1 .. Len(l) : l[i] = c[f[i]]
      /\ \A k \in 1 .. Len(c) : c[k] \in S <=> \E i \in 1 .. Len(l) : f[i] = k

\* Nothing is left of nothing.
LEMMA SubEmpty ==
    ASSUME NEW T, NEW S, NEW l \in Seq(T)
    PROVE  Sub(<<>>, S, l) <=> l = <<>>
<1>1. ASSUME Sub(<<>>, S, l) PROVE l = <<>>
  <2>1. PICK f \in [1 .. Len(l) -> 1 .. 0] : TRUE
    BY <1>1 DEF Sub
  <2>2. \A i \in 1 .. Len(l) : f[i] \in 1 .. 0
    BY <2>1
  <2> QED
    BY <2>2, EmptySeq
<1>2. Sub(<<>>, S, <<>>)
  <2>1. Len(<<>>) = 0 /\ \A i : i \notin 1 .. 0
    OBVIOUS
  <2>2. PICK f : f \in [1 .. 0 -> 1 .. 0]
    <3>1. [i \in 1 .. 0 |-> i] \in [1 .. 0 -> 1 .. 0]
      OBVIOUS
    <3> QED
      BY <3>1
  <2> QED
    BY <2>1, <2>2 DEF Sub
<1> QED
  BY <1>1, <1>2

\* Members of S appended to c are appended to what is left of it.
LEMMA SubConcatIn ==
    ASSUME NEW T, NEW S, NEW c \in Seq(T), NEW l \in Seq(T), NEW m \in Seq(T),
           Sub(c, S, l), \A i \in 1 .. Len(m) : m[i] \in S
    PROVE  Sub(c \o m, S, l \o m)
<1>1. PICK f \in [1 .. Len(l) -> 1 .. Len(c)] :
      /\ \A i, j \in 1 .. Len(l) : i < j => f[i] < f[j]
      /\ \A i \in 1 .. Len(l) : l[i] = c[f[i]]
      /\ \A k \in 1 .. Len(c) : c[k] \in S <=> \E i \in 1 .. Len(l) : f[i] = k
  BY DEF Sub
<1> DEFINE n == Len(l)
           u == Len(c)
           v == Len(m)
           C == c \o m
           L == l \o m
           g == [i \in 1 .. n + v |-> IF i <= n THEN f[i] ELSE u + (i - n)]
<1>2. n \in Nat /\ u \in Nat /\ v \in Nat
  OBVIOUS
<1>3. /\ Len(C) = u + v /\ Len(L) = n + v
      /\ \A k \in 1 .. u + v : C[k] = IF k <= u THEN c[k] ELSE m[k - u]
      /\ \A i \in 1 .. n + v : L[i] = IF i <= n THEN l[i] ELSE m[i - n]
  BY ConcatProperties
<1>4. \A i \in 1 .. n : f[i] \in 1 .. u
  OBVIOUS
<1>5. /\ \A i, j \in 1 .. n : i < j => f[i] < f[j]
      /\ \A i \in 1 .. n : l[i] = c[f[i]]
      /\ \A k \in 1 .. u : c[k] \in S <=> \E i \in 1 .. n : f[i] = k
      /\ \A i \in 1 .. v : m[i] \in S
  BY <1>1
<1> HIDE DEF n, u, v, C, L
<1>6. /\ g \in [1 .. n + v -> 1 .. u + v]
      /\ \A i \in 1 .. n + v : g[i] = IF i <= n THEN f[i] ELSE u + (i - n)
  BY <1>2, <1>4
<1> HIDE DEF g
<1>7. ASSUME NEW i \in 1 .. n + v, NEW j \in 1 .. n + v, i < j
      PROVE  g[i] < g[j]
  <2>1. CASE j <= n
    <3>1. i \in 1 .. n /\ j \in 1 .. n
      BY <1>2, <1>7, <2>1
    <3> QED
      BY <1>5, <1>6, <1>7, <2>1, <3>1
  <2>2. CASE i <= n /\ j > n
    <3>1. i \in 1 .. n
      BY <1>2, <2>2
    <3>2. f[i] \in 1 .. u /\ g[i] = f[i] /\ g[j] = u + (j - n)
      BY <1>2, <1>4, <1>6, <2>2, <3>1
    <3> QED
      BY <1>2, <2>2, <3>2
  <2>3. CASE i > n
    <3>1. g[i] = u + (i - n) /\ g[j] = u + (j - n)
      BY <1>2, <1>6, <1>7, <2>3
    <3> QED
      BY <1>2, <1>7, <2>3, <3>1
  <2> QED
    BY <1>2, <2>1, <2>2, <2>3
<1>8. ASSUME NEW i \in 1 .. n + v
      PROVE  L[i] = C[g[i]]
  <2>1. CASE i <= n
    <3>1. i \in 1 .. n
      BY <1>2, <2>1
    <3>2. f[i] \in 1 .. u /\ g[i] = f[i] /\ l[i] = c[f[i]] /\ L[i] = l[i]
      BY <1>3, <1>4, <1>5, <1>6, <2>1, <3>1
    <3>3. f[i] \in 1 .. u + v /\ f[i] <= u
      BY <1>2, <3>2
    <3> QED
      BY <1>3, <3>2, <3>3
  <2>2. CASE i > n
    <3>1. g[i] = u + (i - n) /\ L[i] = m[i - n]
      BY <1>2, <1>3, <1>6, <2>2
    <3>2. u + (i - n) \in 1 .. u + v /\ u + (i - n) > u /\ (u + (i - n)) - u = i - n
      BY <1>2, <2>2
    <3>3. C[u + (i - n)] = m[(u + (i - n)) - u]
      BY <1>2, <1>3, <3>2
    <3> QED
      BY <3>1, <3>2, <3>3
  <2> QED
    BY <1>2, <2>1, <2>2
<1>9. ASSUME NEW k \in 1 .. u + v
      PROVE  C[k] \in S <=> \E i \in 1 .. n + v : g[i] = k
  <2>1. CASE k <= u
    <3>1. k \in 1 .. u /\ C[k] = c[k]
      BY <1>2, <1>3, <2>1
    <3>2. ASSUME NEW i \in 1 .. n + v, g[i] = k
          PROVE  i \in 1 .. n /\ f[i] = k
      BY <1>2, <1>6, <2>1, <3>2
    <3>3. ASSUME NEW i \in 1 .. n, f[i] = k
          PROVE  i \in 1 .. n + v /\ g[i] = k
      BY <1>2, <1>6, <3>3
    <3> QED
      BY <1>5, <3>1, <3>2, <3>3
  <2>2. CASE k > u
    <3>1. k - u \in 1 .. v /\ C[k] = m[k - u]
      BY <1>2, <1>3, <2>2
    <3>2. n + (k - u) \in 1 .. n + v /\ g[n + (k - u)] = k
      BY <1>2, <1>6, <2>2
    <3> QED
      BY <1>5, <3>1, <3>2
  <2> QED
    BY <1>2, <2>1, <2>2
<1>10. Sub(C, S, L)
  <2>1. /\ g \in [1 .. Len(L) -> 1 .. Len(C)]
        /\ \A i, j \in 1 .. Len(L) : i < j => g[i] < g[j]
        /\ \A i \in 1 .. Len(L) : L[i] = C[g[i]]
    BY <1>3, <1>6, <1>7, <1>8
  <2>2. \A k \in 1 .. Len(C) : C[k] \in S <=> \E i \in 1 .. Len(L) : g[i] = k
    BY <1>3, <1>9
  <2> QED
    BY <2>1, <2>2, Zenon DEF Sub
<1> QED
  BY <1>10 DEF C, L

\* What is not in S may be appended without notice.
LEMMA SubConcatOut ==
    ASSUME NEW T, NEW S, NEW c \in Seq(T), NEW l \in Seq(T), NEW m \in Seq(T),
           Sub(c, S, l), \A i \in 1 .. Len(m) : m[i] \notin S
    PROVE  Sub(c \o m, S, l)
<1>1. PICK f \in [1 .. Len(l) -> 1 .. Len(c)] :
      /\ \A i, j \in 1 .. Len(l) : i < j => f[i] < f[j]
      /\ \A i \in 1 .. Len(l) : l[i] = c[f[i]]
      /\ \A k \in 1 .. Len(c) : c[k] \in S <=> \E i \in 1 .. Len(l) : f[i] = k
  BY DEF Sub
<1> DEFINE n == Len(l)
           u == Len(c)
           v == Len(m)
           C == c \o m
<1>2. n \in Nat /\ u \in Nat /\ v \in Nat
  OBVIOUS
<1>3. /\ Len(C) = u + v
      /\ \A k \in 1 .. u + v : C[k] = IF k <= u THEN c[k] ELSE m[k - u]
  BY ConcatProperties
<1>4. f \in [1 .. n -> 1 .. u]
  OBVIOUS
<1>5. /\ \A i, j \in 1 .. n : i < j => f[i] < f[j]
      /\ \A i \in 1 .. n : l[i] = c[f[i]]
      /\ \A k \in 1 .. u : c[k] \in S <=> \E i \in 1 .. n : f[i] = k
      /\ \A i \in 1 .. v : m[i] \notin S
  BY <1>1
<1> HIDE DEF n, u, v, C
<1>6. f \in [1 .. n -> 1 .. u + v]
  BY <1>2, <1>4
<1>7. ASSUME NEW i \in 1 .. n
      PROVE  l[i] = C[f[i]]
  <2>1. f[i] \in 1 .. u + v /\ f[i] <= u
    BY <1>2, <1>4
  <2> QED
    BY <1>3, <1>5, <2>1
<1>8. ASSUME NEW k \in 1 .. u + v
      PROVE  C[k] \in S <=> \E i \in 1 .. n : f[i] = k
  <2>1. CASE k <= u
    <3>1. k \in 1 .. u /\ C[k] = c[k]
      BY <1>2, <1>3, <2>1
    <3> QED
      BY <1>5, <3>1
  <2>2. CASE k > u
    <3>1. k - u \in 1 .. v /\ C[k] = m[k - u]
      BY <1>2, <1>3, <2>2
    <3>2. \A i \in 1 .. n : f[i] # k
      BY <1>2, <1>4, <2>2
    <3> QED
      BY <1>5, <3>1, <3>2
  <2> QED
    BY <1>2, <2>1, <2>2
<1>9. Sub(C, S, l)
  <2>1. n = Len(l)
    BY DEF n
  <2> QED
    <3>1. /\ f \in [1 .. Len(l) -> 1 .. Len(C)]
          /\ \A i, j \in 1 .. Len(l) : i < j => f[i] < f[j]
          /\ \A i \in 1 .. Len(l) : l[i] = C[f[i]]
      BY <1>3, <1>5, <1>6, <1>7, <2>1
    <3>2. \A k \in 1 .. Len(C) : C[k] \in S <=> \E i \in 1 .. Len(l) : f[i] = k
      BY <1>3, <1>8, <2>1
    <3> QED
      BY <3>1, <3>2, Zenon DEF Sub
<1> QED
  BY <1>9 DEF C

\* The head of c goes: it is the head of what is left, or none of it.
LEMMA SubTail ==
    ASSUME NEW T, NEW S, NEW c \in Seq(T), NEW l \in Seq(T), c # <<>>,
           Sub(c, S, l)
    PROVE  /\ Head(c) \in S => l # <<>> /\ Head(l) = Head(c) /\ Sub(Tail(c), S, Tail(l))
           /\ Head(c) \notin S => Sub(Tail(c), S, l)
<1>1. PICK f \in [1 .. Len(l) -> 1 .. Len(c)] :
      /\ \A i, j \in 1 .. Len(l) : i < j => f[i] < f[j]
      /\ \A i \in 1 .. Len(l) : l[i] = c[f[i]]
      /\ \A k \in 1 .. Len(c) : c[k] \in S <=> \E i \in 1 .. Len(l) : f[i] = k
  BY DEF Sub
<1> DEFINE n == Len(l)
           u == Len(c)
           C == Tail(c)
<1>2. n \in Nat /\ u \in Nat /\ u >= 1
  BY EmptySeq
<1>3. /\ Len(C) = u - 1 /\ Head(c) = c[1]
      /\ \A k \in 1 .. u - 1 : C[k] = c[k + 1]
  BY HeadTailProperties
<1>4. f \in [1 .. n -> 1 .. u]
  OBVIOUS
<1>5. /\ \A i, j \in 1 .. n : i < j => f[i] < f[j]
      /\ \A i \in 1 .. n : l[i] = c[f[i]]
      /\ \A k \in 1 .. u : c[k] \in S <=> \E i \in 1 .. n : f[i] = k
  BY <1>1
<1>6. ASSUME Head(c) \in S
      PROVE  l # <<>> /\ Head(l) = Head(c) /\ Sub(C, S, Tail(l))
  <2> DEFINE L == Tail(l)
  <2>1. PICK first \in 1 .. n : f[first] = 1
    BY <1>2, <1>3, <1>5, <1>6
  <2>2. n >= 1 /\ f[1] = 1
    <3> HIDE DEF n, u
    <3> QED
      BY <1>2, <1>4, <1>5, <2>1
  <2>3. l # <<>>
    BY <2>2, EmptySeq
  <2>4. /\ Len(L) = n - 1 /\ Head(l) = l[1]
        /\ \A j \in 1 .. n - 1 : L[j] = l[j + 1]
    BY <2>3, HeadTailProperties
  <2> DEFINE g == [j \in 1 .. n - 1 |-> f[j + 1] - 1]
  <2> HIDE DEF n, u, C, L
  <2>5. \A j \in 1 .. n - 1 : f[j + 1] \in 2 .. u
    BY <1>2, <1>4, <1>5, <2>2
  <2>6. /\ g \in [1 .. n - 1 -> 1 .. u - 1]
        /\ \A j \in 1 .. n - 1 : g[j] = f[j + 1] - 1
    BY <1>2, <2>2, <2>5
  <2> HIDE DEF g
  <2>7. ASSUME NEW j \in 1 .. n - 1, NEW k \in 1 .. n - 1, j < k
        PROVE  g[j] < g[k]
    <3>1. /\ j + 1 \in 1 .. n /\ k + 1 \in 1 .. n /\ j + 1 < k + 1
          /\ f[j + 1] \in 2 .. u /\ f[k + 1] \in 2 .. u
      BY <1>2, <2>2, <2>5, <2>7
    <3>2. f[j + 1] < f[k + 1]
      BY <1>5, <3>1
    <3>3. g[j] = f[j + 1] - 1 /\ g[k] = f[k + 1] - 1
      BY <2>6
    <3> QED
      BY <1>2, <3>1, <3>2, <3>3
  <2>8. ASSUME NEW j \in 1 .. n - 1
        PROVE  L[j] = C[g[j]]
    <3>1. j + 1 \in 1 .. n /\ f[j + 1] \in 2 .. u
      BY <1>2, <2>2, <2>5
    <3>2. L[j] = l[j + 1] /\ l[j + 1] = c[f[j + 1]] /\ g[j] = f[j + 1] - 1
      BY <1>5, <2>4, <2>6, <3>1
    <3>3. f[j + 1] - 1 \in 1 .. u - 1 /\ (f[j + 1] - 1) + 1 = f[j + 1]
      BY <1>2, <3>1
    <3>4. C[f[j + 1] - 1] = c[(f[j + 1] - 1) + 1]
      BY <1>3, <3>3
    <3> QED
      BY <3>2, <3>3, <3>4
  <2>9. ASSUME NEW k \in 1 .. u - 1
        PROVE  C[k] \in S <=> \E j \in 1 .. n - 1 : g[j] = k
    <3>1. k + 1 \in 1 .. u /\ C[k] = c[k + 1]
      BY <1>2, <1>3
    <3>2. (\E j \in 1 .. n : f[j] = k + 1) => \E j \in 1 .. n - 1 : g[j] = k
      <4> SUFFICES ASSUME NEW j \in 1 .. n, f[j] = k + 1
                   PROVE  \E h \in 1 .. n - 1 : g[h] = k
        OBVIOUS
      <4>1. j # 1
        BY <1>2, <2>2
      <4>2. j - 1 \in 1 .. n - 1 /\ g[j - 1] = k
        BY <1>2, <2>2, <2>6, <4>1
      <4> QED
        BY <4>2
    <3>3. ASSUME NEW j \in 1 .. n - 1, g[j] = k
          PROVE  j + 1 \in 1 .. n /\ f[j + 1] = k + 1
      <4>1. f[j + 1] \in 2 .. u /\ f[j + 1] - 1 = k
        BY <2>5, <2>6, <3>3
      <4> QED
        BY <1>2, <2>2, <4>1
    <3> QED
      BY <1>5, <3>1, <3>2, <3>3
  <2>10. Sub(C, S, L)
    <3>1. Len(C) = u - 1 /\ Len(L) = n - 1
      BY <1>3, <2>4
    <3> QED
      <4>1. /\ g \in [1 .. Len(L) -> 1 .. Len(C)]
            /\ \A i, j \in 1 .. Len(L) : i < j => g[i] < g[j]
            /\ \A i \in 1 .. Len(L) : L[i] = C[g[i]]
        BY <2>6, <2>7, <2>8, <3>1
      <4>2. \A k \in 1 .. Len(C) : C[k] \in S <=> \E i \in 1 .. Len(L) : g[i] = k
        BY <2>9, <3>1
      <4> QED
        BY <4>1, <4>2, Zenon DEF Sub
  <2> QED
    BY <1>3, <1>5, <2>2, <2>3, <2>4, <2>10 DEF L
<1>7. ASSUME Head(c) \notin S
      PROVE  Sub(C, S, l)
  <2> DEFINE g == [j \in 1 .. n |-> f[j] - 1]
  <2>1. \A j \in 1 .. n : f[j] # 1
    BY <1>2, <1>3, <1>5, <1>7
  <2> HIDE DEF n, u, C
  <2>2. \A j \in 1 .. n : f[j] \in 2 .. u
    BY <1>2, <1>4, <2>1
  <2>3. /\ g \in [1 .. n -> 1 .. u - 1]
        /\ \A j \in 1 .. n : g[j] = f[j] - 1
    BY <1>2, <2>2
  <2> HIDE DEF g
  <2>4. ASSUME NEW j \in 1 .. n, NEW k \in 1 .. n, j < k
        PROVE  g[j] < g[k]
    <3>1. f[j] < f[k] /\ f[j] \in 2 .. u /\ f[k] \in 2 .. u
      BY <1>5, <2>2, <2>4
    <3>2. g[j] = f[j] - 1 /\ g[k] = f[k] - 1
      BY <2>3
    <3> QED
      BY <1>2, <3>1, <3>2
  <2>5. ASSUME NEW j \in 1 .. n
        PROVE  l[j] = C[g[j]]
    <3>1. /\ f[j] \in 2 .. u /\ l[j] = c[f[j]] /\ g[j] = f[j] - 1
      BY <1>5, <2>2, <2>3
    <3>2. f[j] - 1 \in 1 .. u - 1 /\ (f[j] - 1) + 1 = f[j]
      BY <1>2, <3>1
    <3>3. C[f[j] - 1] = c[(f[j] - 1) + 1]
      BY <1>3, <3>2
    <3> QED
      BY <3>1, <3>2, <3>3
  <2>6. ASSUME NEW k \in 1 .. u - 1
        PROVE  C[k] \in S <=> \E j \in 1 .. n : g[j] = k
    <3>1. k + 1 \in 1 .. u /\ C[k] = c[k + 1]
      BY <1>2, <1>3
    <3>2. ASSUME NEW j \in 1 .. n PROVE g[j] = k <=> f[j] = k + 1
      <4>1. f[j] \in 2 .. u /\ g[j] = f[j] - 1
        BY <2>2, <2>3
      <4> QED
        BY <1>2, <4>1
    <3> QED
      BY <1>5, <3>1, <3>2
  <2>7. Len(C) = u - 1 /\ Len(l) = n
    BY <1>3 DEF n
  <2> QED
    <3>1. /\ g \in [1 .. Len(l) -> 1 .. Len(C)]
          /\ \A i, j \in 1 .. Len(l) : i < j => g[i] < g[j]
          /\ \A i \in 1 .. Len(l) : l[i] = C[g[i]]
      BY <2>3, <2>4, <2>5, <2>7
    <3>2. \A k \in 1 .. Len(C) : C[k] \in S <=> \E i \in 1 .. Len(l) : g[i] = k
      BY <2>6, <2>7
    <3> QED
      BY <3>1, <3>2, Zenon DEF Sub
<1> QED
  BY <1>6, <1>7

-----------------------------------------------------------------------------
(* One side of an option: x is the q state of one end, y that of the other, *)
(* a what x has announced and y not yet heard, b the same from y to x.     *)
WantsYes == {"WANTYES", "WANTYES_OP"}
WantsNo  == {"WANTNO", "WANTNO_OP"}

Says == {<<>>, <<"yes">>, <<"no">>, <<"yes", "no">>, <<"no", "yes">>}

\* s has announced c, and r nothing: a request of s, an answer to r, or the
\* answer and a request after it.
OneWay(s, r, c) ==
    \/ c = <<"yes">> /\ \/ s \in WantsYes /\ r = "NO"
                        \/ s = "YES" /\ r \in WantsYes
    \/ c = <<"no">>  /\ \/ s \in WantsNo /\ r = "YES"
                        \/ s = "NO" /\ r \in WantsYes \cup WantsNo
    \/ c = <<"yes", "no">> /\ s \in WantsNo /\ r \in WantsYes
    \/ c = <<"no", "yes">> /\ s \in WantsYes /\ r \in WantsYes \cup WantsNo

\* Silence, one announces, or two requests for the same thing cross.
Linked(x, y, a, b) ==
    \/ a = <<>> /\ b = <<>> /\ x = y /\ x \in {"NO", "YES"}
    \/ b = <<>> /\ OneWay(x, y, a)
    \/ a = <<>> /\ OneWay(y, x, b)
    \/ a = <<"yes">> /\ b = <<"yes">> /\ x \in WantsYes /\ y \in WantsYes
    \/ a = <<"no">>  /\ b = <<"no">>  /\ x \in WantsNo /\ y \in WantsNo

\* Neither end is distinguished.
LEMMA LinkedSym ==
    ASSUME NEW x, NEW y, NEW a, NEW b, Linked(x, y, a, b)
    PROVE  Linked(y, x, b, a)
  BY DEF Linked

(* A hears-step of x as a whole: what it makes of the head of b.           *)
Heard(x, c, supported) == IF c = "yes" THEN HearYes(x, supported) ELSE HearNo(x)

\* What the sequences of at most two announcements do.
LEMMA SaysFacts ==
    /\ \A a \in Says : a \in Seq({"yes", "no"}) /\ <<>> \o a = a /\ a \o <<>> = a
    /\ <<"yes">> \o <<"no">> = <<"yes", "no">> /\ <<"no">> \o <<"yes">> = <<"no", "yes">>
    /\ Head(<<"yes">>) = "yes" /\ Tail(<<"yes">>) = <<>>
    /\ Head(<<"no">>) = "no" /\ Tail(<<"no">>) = <<>>
    /\ Head(<<"yes", "no">>) = "yes" /\ Tail(<<"yes", "no">>) = <<"no">>
    /\ Head(<<"no", "yes">>) = "no" /\ Tail(<<"no", "yes">>) = <<"yes">>
    /\ <<>> # <<"yes">> /\ <<>> # <<"no">> /\ <<"yes">> # <<"no">>
    /\ \A u, v \in {"yes", "no"} : <<u, v>> \notin {<<>>, <<"yes">>, <<"no">>}
    /\ <<"yes", "no">> # <<"no", "yes">>
<1>1. Says \subseteq Seq({"yes", "no"})
  BY DEF Says
<1>2. \A a \in Says : <<>> \o a = a /\ a \o <<>> = a
  BY <1>1, ConcatEmptySeq
<1>3. ASSUME NEW u \in {"yes", "no"}, NEW v \in {"yes", "no"}
      PROVE  <<u>> \o <<v>> = <<u, v>>
  <2> DEFINE s == <<u>> \o <<v>>
  <2>1. /\ <<u>> \in Seq({"yes", "no"}) /\ Len(<<u>>) = 1 /\ <<u>>[1] = u
        /\ <<v>> \in Seq({"yes", "no"}) /\ Len(<<v>>) = 1 /\ <<v>>[1] = v
        /\ <<u, v>> \in Seq({"yes", "no"}) /\ Len(<<u, v>>) = 2
        /\ <<u, v>>[1] = u /\ <<u, v>>[2] = v
    OBVIOUS
  <2>2. /\ s \in Seq({"yes", "no"}) /\ Len(s) = 2 /\ s[1] = u /\ s[2] = v
    BY <2>1, ConcatProperties
  <2>3. \A i \in 1 .. 2 : i = 1 \/ i = 2
    OBVIOUS
  <2> HIDE DEF s
  <2>4. \A i \in 1 .. Len(s) : s[i] = <<u, v>>[i]
    BY <2>1, <2>2, <2>3
  <2>5. s = <<u, v>>
    BY <2>1, <2>2, <2>4, SeqEqual
  <2> QED
    BY <2>5 DEF s
<1>4. /\ Head(<<"yes">>) = "yes" /\ Tail(<<"yes">>) = <<>>
      /\ Head(<<"no">>) = "no" /\ Tail(<<"no">>) = <<>>
  OBVIOUS
<1>5. /\ Head(<<"yes", "no">>) = "yes" /\ Tail(<<"yes", "no">>) = <<"no">>
      /\ Head(<<"no", "yes">>) = "no" /\ Tail(<<"no", "yes">>) = <<"yes">>
  OBVIOUS
<1>6. /\ <<>> # <<"yes">> /\ <<>> # <<"no">> /\ <<"yes">> # <<"no">>
      /\ \A u, v \in {"yes", "no"} : <<u, v>> \notin {<<>>, <<"yes">>, <<"no">>}
      /\ <<"yes", "no">> # <<"no", "yes">>
  OBVIOUS
<1> QED
  BY <1>1, <1>2, <1>3, <1>4, <1>5, <1>6

\* x hears the first thing y announced.
LEMMA HeardLinked ==
    ASSUME NEW x \in QState, NEW y \in QState, NEW a \in Says, NEW b \in Says,
           Linked(x, y, a, b), b # <<>>, NEW supported \in BOOLEAN
    PROVE  LET t == Heard(x, Head(b), supported) IN
           /\ a \o t.say \in Says /\ Tail(b) \in Says
           /\ Linked(t.state, y, a \o t.say, Tail(b))
<1> DEFINE t == Heard(x, Head(b), supported)
<1>1. CASE a = <<>> /\ b = <<"yes">> /\ x = "NO" /\ y \in WantsYes
  BY <1>1, SaysFacts DEF Heard, HearYes, Transition, Linked, OneWay, WantsYes, WantsNo, Says
<1>2. CASE a = <<>> /\ b = <<"yes">> /\ x \in WantsYes /\ y = "YES"
  BY <1>2, SaysFacts DEF Heard, HearYes, Transition, Linked, OneWay, WantsYes, WantsNo, Says
<1>3. CASE a = <<>> /\ b = <<"no">> /\ x = "YES" /\ y \in WantsNo
  BY <1>3, SaysFacts DEF Heard, HearNo, Transition, Linked, OneWay, WantsYes, WantsNo, Says
<1>4. CASE a = <<>> /\ b = <<"no">> /\ x \in WantsYes \cup WantsNo /\ y = "NO"
  BY <1>4, SaysFacts DEF Heard, HearNo, Transition, Linked, OneWay, WantsYes, WantsNo, Says
<1>5. CASE a = <<>> /\ b = <<"yes", "no">> /\ x \in WantsYes /\ y \in WantsNo
  BY <1>5, SaysFacts DEF Heard, HearYes, Transition, Linked, OneWay, WantsYes, WantsNo, Says
<1>6. CASE a = <<>> /\ b = <<"no", "yes">> /\ x \in WantsYes \cup WantsNo /\ y \in WantsYes
  BY <1>6, SaysFacts DEF Heard, HearNo, Transition, Linked, OneWay, WantsYes, WantsNo, Says
<1>7. CASE a = <<"yes">> /\ b = <<"yes">> /\ x \in WantsYes /\ y \in WantsYes
  BY <1>7, SaysFacts DEF Heard, HearYes, Transition, Linked, OneWay, WantsYes, WantsNo, Says
<1>8. CASE a = <<"no">> /\ b = <<"no">> /\ x \in WantsNo /\ y \in WantsNo
  BY <1>8, SaysFacts DEF Heard, HearNo, Transition, Linked, OneWay, WantsYes, WantsNo, Says
<1> QED
  BY <1>1, <1>2, <1>3, <1>4, <1>5, <1>6, <1>7, <1>8 DEF Linked, OneWay

\* x asks for something new, or for nothing.
LEMMA AskedLinked ==
    ASSUME NEW x \in QState, NEW y \in QState, NEW a \in Says, NEW b \in Says,
           Linked(x, y, a, b), NEW t \in {AskYes(x), AskNo(x), Stay(x)}
    PROVE  a \o t.say \in Says /\ Linked(t.state, y, a \o t.say, b)
<1>1. CASE t = AskYes(x) /\ x = "NO"
  BY <1>1, SaysFacts DEF AskYes, Transition, Linked, OneWay, WantsYes, WantsNo, Says
<1>2. CASE t = AskNo(x) /\ x = "YES"
  BY <1>2, SaysFacts DEF AskNo, Transition, Linked, OneWay, WantsYes, WantsNo, Says
<1>3. CASE ~(t = AskYes(x) /\ x = "NO") /\ ~(t = AskNo(x) /\ x = "YES")
  <2>1. /\ t.say = <<>>
        /\ \/ t.state = x
           \/ x \in WantsYes /\ t.state \in WantsYes
           \/ x \in WantsNo /\ t.state \in WantsNo
    BY <1>3 DEF AskYes, AskNo, Stay, Transition, WantsYes, WantsNo, QState
  <2>2. a \o t.say = a
    BY <2>1, SaysFacts
  <2> HIDE DEF Says
  <2>3. Linked(t.state, y, a, b)
    BY <2>1 DEF Linked, OneWay, WantsYes, WantsNo
  <2> QED
    BY <2>2, <2>3
<1> QED
  BY <1>1, <1>2, <1>3

-----------------------------------------------------------------------------
(* The commands that carry one end's announcements of a side, yes and no,   *)
(* and the announcements found in a channel.                               *)
YesNo == {"yes", "no"}

Encode(say, yes, no) == [i \in DOMAIN say |-> IF say[i] = "yes" THEN yes ELSE no]

Carries(c, yes, no, a) == Sub(c, {yes, no}, Encode(a, yes, no))

\* An encoding has the length of what it encodes, element by element.
LEMMA EncodeFacts ==
    ASSUME NEW yes \in Command, NEW no \in Command, NEW a \in Seq(YesNo)
    PROVE  /\ Encode(a, yes, no) \in Seq(Command)
           /\ Len(Encode(a, yes, no)) = Len(a)
           /\ \A i \in 1 .. Len(a) :
                 Encode(a, yes, no)[i] = IF a[i] = "yes" THEN yes ELSE no
<1> DEFINE e(i) == IF a[i] = "yes" THEN yes ELSE no
<1>1. Len(a) \in Nat /\ DOMAIN a = 1 .. Len(a)
  BY LenProperties
<1>2. \A i \in 1 .. Len(a) : e(i) \in Command
  OBVIOUS
<1>3. [i \in 1 .. Len(a) |-> e(i)] \in Seq(Command)
  BY <1>1, <1>2, IsASeq
<1>4. Encode(a, yes, no) = [i \in 1 .. Len(a) |-> e(i)]
  BY <1>1 DEF Encode
<1>5. Len([i \in 1 .. Len(a) |-> e(i)]) = Len(a)
  BY <1>1
<1> QED
  BY <1>3, <1>4, <1>5

\* It is made of the two commands and of no other.
LEMMA EncodeMembers ==
    ASSUME NEW yes \in Command, NEW no \in Command, NEW s \in Seq(YesNo)
    PROVE  /\ Encode(s, yes, no) \in Seq(Command)
           /\ \A i \in 1 .. Len(Encode(s, yes, no)) : Encode(s, yes, no)[i] \in {yes, no}
<1> DEFINE B == Encode(s, yes, no)
<1>1. /\ B \in Seq(Command) /\ Len(B) = Len(s)
      /\ \A i \in 1 .. Len(s) : B[i] = IF s[i] = "yes" THEN yes ELSE no
  BY EncodeFacts, Zenon
<1> HIDE DEF B
<1>2. \A i \in 1 .. Len(B) : B[i] \in {yes, no}
  BY <1>1
<1> QED
  BY <1>1, <1>2 DEF B

\* Two encodings one after the other are that of the two together.
LEMMA EncodeConcat ==
    ASSUME NEW yes \in Command, NEW no \in Command, NEW a \in Seq(YesNo),
           NEW s \in Seq(YesNo)
    PROVE  Encode(a \o s, yes, no) = Encode(a, yes, no) \o Encode(s, yes, no)
<1>1. PICK w \in Seq(YesNo) : w = a \o s
  BY ConcatProperties
<1> DEFINE A == Encode(a, yes, no)
           B == Encode(s, yes, no)
           C == Encode(w, yes, no)
           n == Len(a)
           k == Len(s)
<1>2. /\ Len(w) = n + k /\ n \in Nat /\ k \in Nat
      /\ \A i \in 1 .. n + k : w[i] = IF i <= n THEN a[i] ELSE s[i - n]
  BY <1>1, ConcatProperties
<1>3. /\ A \in Seq(Command) /\ Len(A) = n
      /\ \A i \in 1 .. n : A[i] = IF a[i] = "yes" THEN yes ELSE no
  BY EncodeFacts, Zenon
<1>4. /\ B \in Seq(Command) /\ Len(B) = k
      /\ \A i \in 1 .. k : B[i] = IF s[i] = "yes" THEN yes ELSE no
  BY EncodeFacts, Zenon
<1>5. /\ C \in Seq(Command) /\ Len(C) = Len(w)
      /\ \A i \in 1 .. Len(w) : C[i] = IF w[i] = "yes" THEN yes ELSE no
  BY EncodeFacts, Zenon
<1> HIDE DEF A, B, C, n, k
<1>6. PICK D : D = A \o B
  OBVIOUS
<1>7. /\ D \in Seq(Command) /\ Len(D) = n + k
      /\ \A i \in 1 .. n + k : D[i] = IF i <= n THEN A[i] ELSE B[i - n]
  BY <1>3, <1>4, <1>6, ConcatProperties
<1>8. ASSUME NEW i \in 1 .. n + k PROVE C[i] = D[i]
  <2>1. CASE i <= n
    <3>1. i \in 1 .. n
      BY <1>2, <2>1
    <3>2. w[i] = a[i] /\ D[i] = A[i]
      BY <1>2, <1>7, <2>1
    <3> QED
      BY <1>2, <1>3, <1>5, <3>1, <3>2
  <2>2. CASE ~(i <= n)
    <3>1. i - n \in 1 .. k
      BY <1>2, <2>2
    <3>2. w[i] = s[i - n] /\ D[i] = B[i - n]
      BY <1>2, <1>7, <2>2
    <3> QED
      BY <1>2, <1>4, <1>5, <3>1, <3>2
  <2> QED
    BY <2>1, <2>2
<1>9. C = D
  <2>1. Len(C) = Len(D) /\ \A i \in 1 .. Len(C) : C[i] = D[i]
    BY <1>2, <1>5, <1>7, <1>8
  <2> QED
    BY <1>5, <1>7, <2>1, SeqEqual, Zenon
<1> QED
  BY <1>1, <1>6, <1>9 DEF A, B, C

\* The first of an encoding is that of the first.
LEMMA EncodeTail ==
    ASSUME NEW yes \in Command, NEW no \in Command, NEW a \in Seq(YesNo)
    PROVE  /\ Encode(a, yes, no) = <<>> <=> a = <<>>
           /\ a # <<>> => /\ Head(Encode(a, yes, no)) = IF Head(a) = "yes" THEN yes ELSE no
                          /\ Tail(Encode(a, yes, no)) = Encode(Tail(a), yes, no)
<1> DEFINE A == Encode(a, yes, no)
<1>1. /\ A \in Seq(Command) /\ Len(A) = Len(a) /\ Len(a) \in Nat
      /\ \A i \in 1 .. Len(a) : A[i] = IF a[i] = "yes" THEN yes ELSE no
  BY EncodeFacts
<1> HIDE DEF A
<1>2. A = <<>> <=> a = <<>>
  BY <1>1, EmptySeq
<1>3. ASSUME a # <<>>
      PROVE  Head(A) = (IF Head(a) = "yes" THEN yes ELSE no)
             /\ Tail(A) = Encode(Tail(a), yes, no)
  <2> DEFINE B == Encode(Tail(a), yes, no)
             n == Len(a)
  <2>1. A # <<>> /\ n >= 1
    BY <1>1, <1>2, <1>3, EmptySeq
  <2>2. /\ Tail(a) \in Seq(YesNo) /\ Len(Tail(a)) = n - 1 /\ Head(a) = a[1]
        /\ \A i \in 1 .. n - 1 : Tail(a)[i] = a[i + 1]
    BY <1>3, HeadTailProperties
  <2>3. /\ Tail(A) \in Seq(Command) /\ Len(Tail(A)) = n - 1 /\ Head(A) = A[1]
        /\ \A i \in 1 .. n - 1 : Tail(A)[i] = A[i + 1]
    BY <1>1, <2>1, HeadTailProperties
  <2>4. /\ B \in Seq(Command) /\ Len(B) = n - 1
        /\ \A i \in 1 .. n - 1 : B[i] = IF Tail(a)[i] = "yes" THEN yes ELSE no
    <3>1. PICK w \in Seq(YesNo) : w = Tail(a)
      BY <2>2
    <3>2. /\ Encode(w, yes, no) \in Seq(Command)
          /\ Len(Encode(w, yes, no)) = Len(w)
          /\ \A i \in 1 .. Len(w) :
                Encode(w, yes, no)[i] = IF w[i] = "yes" THEN yes ELSE no
      BY EncodeFacts, Zenon
    <3> QED
      BY <2>2, <3>1, <3>2, Zenon
  <2> HIDE DEF B, n
  <2>5. \A i \in 1 .. n - 1 : i + 1 \in 1 .. n
    BY <1>1 DEF n
  <2>6. \A i \in 1 .. n - 1 : Tail(A)[i] = B[i]
    BY <1>1, <2>2, <2>3, <2>4, <2>5 DEF n
  <2>7. Tail(A) = B
    BY <2>3, <2>4, <2>6, SeqEqual
  <2>8. 1 \in 1 .. n
    BY <1>1, <2>1 DEF n
  <2> QED
    BY <1>1, <2>2, <2>3, <2>7, <2>8 DEF B, n
<1> QED
  BY <1>2, <1>3 DEF A

\* A channel's head is the first announcement of a side, or none of its own.
LEMMA CarriesTail ==
    ASSUME NEW yes \in Command, NEW no \in Command, yes # no,
           NEW c \in Seq(Command), c # <<>>, NEW a \in Seq(YesNo),
           Carries(c, yes, no, a)
    PROVE  /\ Head(c) \in {yes, no} =>
                /\ a # <<>> /\ Head(a) = (IF Head(c) = yes THEN "yes" ELSE "no")
                /\ Carries(Tail(c), yes, no, Tail(a))
           /\ Head(c) \notin {yes, no} => Carries(Tail(c), yes, no, a)
<1> DEFINE A == Encode(a, yes, no)
<1>1. A \in Seq(Command)
  BY EncodeFacts
<1>2. /\ Head(c) \in {yes, no} => /\ A # <<>> /\ Head(A) = Head(c)
                                  /\ Sub(Tail(c), {yes, no}, Tail(A))
      /\ Head(c) \notin {yes, no} => Sub(Tail(c), {yes, no}, A)
  BY <1>1, SubTail DEF Carries
<1>3. a # <<>> => Head(a) \in YesNo
  BY HeadTailProperties
<1>4. /\ A = <<>> <=> a = <<>>
      /\ a # <<>> => /\ Head(A) = IF Head(a) = "yes" THEN yes ELSE no
                     /\ Tail(A) = Encode(Tail(a), yes, no)
  BY EncodeTail, Zenon
<1> HIDE DEF A
<1>5. ASSUME Head(c) \in {yes, no}
      PROVE  /\ a # <<>> /\ Head(a) = (IF Head(c) = yes THEN "yes" ELSE "no")
             /\ Carries(Tail(c), yes, no, Tail(a))
  <2>1. a # <<>> /\ Head(c) = IF Head(a) = "yes" THEN yes ELSE no
    BY <1>2, <1>4, <1>5
  <2>2. Head(a) = (IF Head(c) = yes THEN "yes" ELSE "no")
    BY <1>3, <2>1 DEF YesNo
  <2>3. Sub(Tail(c), {yes, no}, Encode(Tail(a), yes, no))
    BY <1>2, <1>4, <1>5, <2>1, Zenon
  <2> QED
    BY <2>1, <2>2, <2>3 DEF Carries
<1> QED
  BY <1>2, <1>5, Zenon DEF Carries, A

\* What is announced is carried after what was, and nothing else is carried.
LEMMA CarriesConcat ==
    ASSUME NEW yes \in Command, NEW no \in Command,
           NEW c \in Seq(Command), NEW a \in Seq(YesNo), Carries(c, yes, no, a)
    PROVE  /\ \A s \in Seq(YesNo) :
                 Carries(c \o Encode(s, yes, no), yes, no, a \o s)
           /\ \A m \in Seq(Command) :
                 (\A i \in 1 .. Len(m) : m[i] \notin {yes, no})
                 => Carries(c \o m, yes, no, a)
<1> DEFINE A == Encode(a, yes, no)
<1>1. A \in Seq(Command) /\ Sub(c, {yes, no}, A)
  BY EncodeFacts DEF Carries
<1> HIDE DEF A
<1>2. ASSUME NEW s \in Seq(YesNo)
      PROVE  Carries(c \o Encode(s, yes, no), yes, no, a \o s)
  <2> DEFINE B == Encode(s, yes, no)
  <2>1. B \in Seq(Command) /\ \A i \in 1 .. Len(B) : B[i] \in {yes, no}
    BY EncodeMembers
  <2> HIDE DEF B
  <2>2. Sub(c \o B, {yes, no}, A \o B)
    BY <1>1, <2>1, SubConcatIn
  <2> QED
    BY <2>2, EncodeConcat DEF Carries, A, B
<1>3. ASSUME NEW m \in Seq(Command), \A i \in 1 .. Len(m) : m[i] \notin {yes, no}
      PROVE  Carries(c \o m, yes, no, a)
  BY <1>1, <1>3, SubConcatOut DEF Carries, A
<1> QED
  BY <1>2, <1>3

-----------------------------------------------------------------------------
(* A side as it stands: x announces with yes and no in c, y with Yes and No *)
(* in d.                                                                   *)
Pair(c, yes, no, d, Yes, No, x, y) ==
    \E a \in Says, b \in Says :
      /\ Carries(c, yes, no, a)
      /\ Carries(d, Yes, No, b)
      /\ Linked(x, y, a, b)

\* Neither end is distinguished.
LEMMA PairSym ==
    ASSUME NEW c, NEW yes, NEW no, NEW d, NEW Yes, NEW No, NEW x, NEW y,
           Pair(c, yes, no, d, Yes, No, x, y)
    PROVE  Pair(d, Yes, No, c, yes, no, y, x)
<1>1. PICK a \in Says, b \in Says :
        Carries(c, yes, no, a) /\ Carries(d, Yes, No, b) /\ Linked(x, y, a, b)
  BY DEF Pair
<1>2. Linked(y, x, b, a)
  BY <1>1, LinkedSym
<1> QED
  BY <1>1, <1>2, Zenon DEF Pair

\* At most two announcements are under way.
LEMMA SaysTyped == Says \subseteq Seq(YesNo)
  BY DEF Says, YesNo

\* What the transitions say is a sequence of announcements.
LEMMA SayTyped ==
    ASSUME NEW x \in QState, NEW supported \in BOOLEAN
    PROVE  /\ HearYes(x, supported).say \in Seq(YesNo) /\ HearYes(x, supported).state \in QState
           /\ HearNo(x).say \in Seq(YesNo) /\ HearNo(x).state \in QState
           /\ \A t \in {AskYes(x), AskNo(x), Stay(x)} :
                t.say \in Seq(YesNo) /\ t.state \in QState
<1>1. /\ <<>> \in Seq(YesNo) /\ <<"yes">> \in Seq(YesNo) /\ <<"no">> \in Seq(YesNo)
  BY DEF YesNo
<1> QED
  BY <1>1 DEF HearYes, HearNo, AskYes, AskNo, Stay, Transition, QState

\* x hears the head of d and answers in c.
LEMMA PairHears ==
    ASSUME NEW yes \in Command, NEW no \in Command,
           NEW Yes \in Command, NEW No \in Command, Yes # No,
           NEW c \in Seq(Command), NEW d \in Seq(Command), d # <<>>,
           NEW x \in QState, NEW y \in QState,
           Pair(c, yes, no, d, Yes, No, x, y),
           Head(d) \in {Yes, No}, NEW supported \in BOOLEAN,
           NEW w \in YesNo, w = "yes" <=> Head(d) = Yes,
           NEW t, t = Heard(x, w, supported)
    PROVE  Pair(c \o Encode(t.say, yes, no), yes, no, Tail(d), Yes, No, t.state, y)
<1>1. PICK a \in Says, b \in Says :
        Carries(c, yes, no, a) /\ Carries(d, Yes, No, b) /\ Linked(x, y, a, b)
  BY DEF Pair
<1>2. a \in Seq(YesNo) /\ b \in Seq(YesNo)
  BY SaysTyped
<1>3. /\ b # <<>> /\ Head(b) = (IF Head(d) = Yes THEN "yes" ELSE "no")
      /\ Carries(Tail(d), Yes, No, Tail(b))
  BY <1>1, <1>2, CarriesTail
<1>4. /\ a \o t.say \in Says /\ Tail(b) \in Says
      /\ Linked(t.state, y, a \o t.say, Tail(b))
  <2>1. t = Heard(x, Head(b), supported)
    BY <1>3 DEF YesNo
  <2> QED
    BY <1>1, <1>3, <2>1, HeardLinked, Zenon
<1>5. t.say \in Seq(YesNo)
  BY SayTyped DEF Heard
<1>6. Carries(c \o Encode(t.say, yes, no), yes, no, a \o t.say)
  BY <1>1, <1>2, <1>5, CarriesConcat
<1> QED
  BY <1>3, <1>4, <1>6, Zenon DEF Pair

\* x asks in c.
LEMMA PairAsks ==
    ASSUME NEW yes \in Command, NEW no \in Command, NEW Yes, NEW No,
           NEW c \in Seq(Command), NEW d,
           NEW x \in QState, NEW y \in QState,
           Pair(c, yes, no, d, Yes, No, x, y),
           NEW t \in {AskYes(x), AskNo(x), Stay(x)}
    PROVE  Pair(c \o Encode(t.say, yes, no), yes, no, d, Yes, No, t.state, y)
<1>1. PICK a \in Says, b \in Says :
        Carries(c, yes, no, a) /\ Carries(d, Yes, No, b) /\ Linked(x, y, a, b)
  BY DEF Pair
<1>2. a \in Seq(YesNo) /\ t.say \in Seq(YesNo)
  BY SaysTyped, SayTyped
<1>3. a \o t.say \in Says /\ Linked(t.state, y, a \o t.say, b)
  BY <1>1, AskedLinked, Zenon
<1>4. Carries(c \o Encode(t.say, yes, no), yes, no, a \o t.say)
  BY <1>1, <1>2, CarriesConcat
<1> QED
  BY <1>1, <1>3, <1>4, Zenon DEF Pair

\* The head of d is not about this side.
LEMMA PairSkips ==
    ASSUME NEW yes, NEW no, NEW Yes \in Command, NEW No \in Command, Yes # No,
           NEW c, NEW d \in Seq(Command), d # <<>>, NEW x, NEW y,
           Pair(c, yes, no, d, Yes, No, x, y), Head(d) \notin {Yes, No}
    PROVE  Pair(c, yes, no, Tail(d), Yes, No, x, y)
<1>1. PICK a \in Says, b \in Says :
        Carries(c, yes, no, a) /\ Carries(d, Yes, No, b) /\ Linked(x, y, a, b)
  BY DEF Pair
<1>2. Carries(Tail(d), Yes, No, b)
  BY <1>1, SaysTyped, CarriesTail
<1> QED
  BY <1>1, <1>2, Zenon DEF Pair

\* What enters c is not about this side.
LEMMA PairPasses ==
    ASSUME NEW yes \in Command, NEW no \in Command, NEW Yes, NEW No,
           NEW c \in Seq(Command), NEW d, NEW x, NEW y,
           Pair(c, yes, no, d, Yes, No, x, y),
           NEW yes2 \in Command, NEW no2 \in Command,
           yes2 \notin {yes, no}, no2 \notin {yes, no}, NEW s \in Seq(YesNo)
    PROVE  Pair(c \o Encode(s, yes2, no2), yes, no, d, Yes, No, x, y)
<1> DEFINE m == Encode(s, yes2, no2)
<1>1. PICK a \in Says, b \in Says :
        Carries(c, yes, no, a) /\ Carries(d, Yes, No, b) /\ Linked(x, y, a, b)
  BY DEF Pair
<1>2. m \in Seq(Command) /\ \A i \in 1 .. Len(m) : m[i] \in {yes2, no2}
  BY EncodeMembers
<1> HIDE DEF m
<1>3. \A i \in 1 .. Len(m) : m[i] \notin {yes, no}
  BY <1>2
<1>4. Carries(c \o m, yes, no, a)
  BY <1>1, <1>2, <1>3, SaysTyped, CarriesConcat
<1> QED
  BY <1>1, <1>4, Zenon DEF Pair, m

-----------------------------------------------------------------------------
(* The commands of the two sides of an option.                             *)
Will(o) == [verb |-> "WILL", opt |-> o]
Wont(o) == [verb |-> "WONT", opt |-> o]
Do(o)   == [verb |-> "DO", opt |-> o]
Dont(o) == [verb |-> "DONT", opt |-> o]

\* No two of them are alike, and there are no others.
LEMMA CommandFacts ==
    ASSUME NEW o \in Option
    PROVE  /\ {Will(o), Wont(o), Do(o), Dont(o)} \subseteq Command
           /\ Will(o) # Wont(o) /\ Do(o) # Dont(o)
           /\ \A q \in Option : /\ {Will(o), Wont(o)} \cap {Do(q), Dont(q)} = {}
                                /\ q # o => {Will(o), Wont(o)} \cap {Will(q), Wont(q)} = {}
                                /\ q # o => {Do(o), Dont(o)} \cap {Do(q), Dont(q)} = {}
<1>1. {Will(o), Wont(o), Do(o), Dont(o)} \subseteq Command
  BY DEF Command, Will, Wont, Do, Dont
<1>2. Will(o) # Wont(o) /\ Do(o) # Dont(o)
  BY DEF Will, Wont, Do, Dont
<1>3. ASSUME NEW q \in Option
      PROVE  /\ {Will(o), Wont(o)} \cap {Do(q), Dont(q)} = {}
             /\ q # o => {Will(o), Wont(o)} \cap {Will(q), Wont(q)} = {}
             /\ q # o => {Do(o), Dont(o)} \cap {Do(q), Dont(q)} = {}
  BY DEF Will, Wont, Do, Dont
<1> QED
  BY <1>1, <1>2, <1>3

\* A command is one of the four, by its verb.
LEMMA VerbFacts ==
    ASSUME NEW k \in Command
    PROVE  /\ k.opt \in Option
           /\ k.verb = "WILL" => k = Will(k.opt)
           /\ k.verb = "WONT" => k = Wont(k.opt)
           /\ k.verb = "DO" => k = Do(k.opt)
           /\ k.verb = "DONT" => k = Dont(k.opt)
  BY DEF Command, Will, Wont, Do, Dont

\* _send_negotiate encodes.
LEMMA SideEncodes ==
    ASSUME NEW o \in Option, NEW say \in Seq(YesNo)
    PROVE  /\ OurSide(o, say) = Encode(say, Will(o), Wont(o))
           /\ HisSide(o, say) = Encode(say, Do(o), Dont(o))
  BY DEF OurSide, HisSide, Encode, Will, Wont, Do, Dont

\* A side that the command received and the answers to it are not about.
LEMMA Untouched ==
    ASSUME NEW yes \in Command, NEW no \in Command,
           NEW Yes \in Command, NEW No \in Command, Yes # No,
           NEW c \in Seq(Command), NEW d \in Seq(Command), d # <<>>, NEW x, NEW y,
           Pair(c, yes, no, d, Yes, No, x, y), Head(d) \notin {Yes, No},
           NEW yes2 \in Command, NEW no2 \in Command,
           yes2 \notin {yes, no}, no2 \notin {yes, no}, NEW s \in Seq(YesNo)
    PROVE  Pair(c \o Encode(s, yes2, no2), yes, no, Tail(d), Yes, No, x, y)
<1>1. Pair(c, yes, no, Tail(d), Yes, No, x, y)
  BY PairSkips
<1> QED
  BY <1>1, PairPasses

(* The side of option o that end e performs, and the one it watches.  Each *)
(* is the other end's other.                                               *)
Performed(e, o) == Pair(chan[Peer(e)], Will(o), Wont(o), chan[e], Do(o), Dont(o),
                        us[e][o], him[Peer(e)][o])
Watched(e, o)   == Pair(chan[Peer(e)], Do(o), Dont(o), chan[e], Will(o), Wont(o),
                        him[e][o], us[Peer(e)][o])

Agree == \A e \in End, o \in Option : Performed(e, o)

\* Each end is the other's peer.
LEMMA PeerFacts ==
    ASSUME NEW e \in End
    PROVE  /\ Peer(e) \in End /\ Peer(e) # e /\ Peer(Peer(e)) = e
           /\ \A x \in End : x = e \/ x = Peer(e)
  BY EndAssumption DEF End, Peer

\* An end has a view of both sides, and its view is enough.
LEMMA AgreeView ==
    ASSUME Agree, NEW e \in End, NEW o \in Option
    PROVE  Performed(e, o) /\ Watched(e, o)
<1>1. Performed(e, o) /\ Performed(Peer(e), o)
  BY PeerFacts DEF Agree
<1>2. Pair(chan[e], Will(o), Wont(o), chan[Peer(e)], Do(o), Dont(o),
           us[Peer(e)][o], him[e][o])
  BY <1>1, PeerFacts DEF Performed
<1>3. Watched(e, o)
  BY <1>2, PairSym DEF Watched
<1> QED
  BY <1>1, <1>3

\* After a step of e it is enough to look at both sides from e.
LEMMA AgreeNext ==
    ASSUME NEW e \in End, \A o \in Option : Performed(e, o)' /\ Watched(e, o)'
    PROVE  Agree'
<1> SUFFICES ASSUME NEW x \in End, NEW o \in Option PROVE Performed(x, o)'
  BY DEF Agree
<1>1. CASE x = e
  BY <1>1
<1>2. CASE x = Peer(e)
  <2>1. Pair(chan'[Peer(e)], Do(o), Dont(o), chan'[e], Will(o), Wont(o),
             him'[e][o], us'[Peer(e)][o])
    BY DEF Watched
  <2>2. Pair(chan'[e], Will(o), Wont(o), chan'[Peer(e)], Do(o), Dont(o),
             us'[Peer(e)][o], him'[e][o])
    BY <2>1, PairSym
  <2> QED
    BY <1>2, <2>2, PeerFacts DEF Performed
<1> QED
  BY <1>1, <1>2, PeerFacts

-----------------------------------------------------------------------------
(* The steps.                                                              *)

\* Commands put one after the other.
LEMMA SentInTurn ==
    ASSUME NEW c \in Seq(Command), NEW v \in Seq(Command), NEW w \in Seq(Command)
    PROVE  (c \o v) \o w = c \o (v \o w)
  BY ConcatAssociative

\* What is said in answer, with what mccpx_end adds to it.
LEMMA HeardTyped ==
    ASSUME NEW x \in QState, NEW w, NEW supported \in BOOLEAN
    PROVE  Heard(x, w, supported) \in Transitions
  BY HearYesTells, HearNoTells DEF Heard

\* mccpx_end leaves the transition alone or adds a request to it.
LEMMA EndsTyped ==
    ASSUME NEW h \in Transitions, NEW e, NEW o
    PROVE  /\ MccpxEnd(e, o, h) \in Transitions
           /\ \/ MccpxEnd(e, o, h) = h
              \/ /\ MccpxEnd(e, o, h).say = h.say \o AskNo(h.state).say
                 /\ MccpxEnd(e, o, h).state = AskNo(h.state).state
<1> DEFINE a == AskNo(h.state)
           t == [h EXCEPT !.state = a.state, !.say = @ \o a.say]
<1>1. h.say \in Seq(YesNo) /\ h.state \in QState
  BY DEF Transitions, YesNo
<1>2. a.say \in Seq(YesNo) /\ a.state \in QState
  BY <1>1, SayTyped
<1> HIDE DEF a
<1>3. h.say \o a.say \in Seq(YesNo)
  BY <1>1, <1>2, ConcatProperties
<1>4. t \in Transitions /\ t.say = h.say \o a.say /\ t.state = a.state
  BY <1>2, <1>3 DEF Transitions, YesNo
<1>5. MccpxEnd(e, o, h) = h \/ MccpxEnd(e, o, h) = t
  BY DEF MccpxEnd, a
<1> HIDE DEF t
<1> QED
  BY <1>4, <1>5 DEF a

\* The parts of a transition.
LEMMA TransitionFields ==
    ASSUME NEW t \in Transitions
    PROVE  t.say \in Seq(YesNo) /\ t.state \in QState
  BY DEF Transitions, YesNo

\* A command heard, answered, and followed up by mccpx_end.
LEMMA HearsAndEnds ==
    ASSUME NEW yes \in Command, NEW no \in Command,
           NEW Yes \in Command, NEW No \in Command, Yes # No,
           NEW c \in Seq(Command), NEW d \in Seq(Command), d # <<>>,
           NEW x \in QState, NEW y \in QState,
           Pair(c, yes, no, d, Yes, No, x, y),
           Head(d) \in {Yes, No}, NEW supported \in BOOLEAN,
           NEW w \in YesNo, w = "yes" <=> Head(d) = Yes,
           NEW h, h = Heard(x, w, supported),
           NEW e, NEW o, NEW t, t = MccpxEnd(e, o, h)
    PROVE  Pair(c \o Encode(t.say, yes, no), yes, no, Tail(d), Yes, No, t.state, y)
<1>1. /\ h.say \in Seq(YesNo) /\ h.state \in QState
      /\ \/ t = h
         \/ /\ t.say = h.say \o AskNo(h.state).say
            /\ t.state = AskNo(h.state).state
  <2>1. h \in Transitions
    BY HeardTyped
  <2> QED
    BY <2>1, EndsTyped, TransitionFields
<1>2. Pair(c \o Encode(h.say, yes, no), yes, no, Tail(d), Yes, No, h.state, y)
  BY PairHears
<1>3. CASE t = h
  BY <1>2, <1>3
<1>4. CASE t # h
  <2> DEFINE a == AskNo(h.state)
             C == c \o Encode(h.say, yes, no)
  <2>1. a.say \in Seq(YesNo) /\ a.state \in QState /\ a \in {AskYes(h.state), a, Stay(h.state)}
    BY <1>1, SayTyped
  <2>2. t.say = h.say \o a.say /\ t.state = a.state
    BY <1>1, <1>4
  <2>3. PICK v \in Seq(YesNo), u \in Seq(YesNo) : v = h.say /\ u = a.say
    BY <1>1, <2>1
  <2>4. Encode(u, yes, no) \in Seq(Command) /\ Encode(v, yes, no) \in Seq(Command)
    BY EncodeFacts, Zenon
  <2>5. C \in Seq(Command)
    BY <2>3, <2>4, ConcatProperties
  <2> HIDE DEF C
  <2>6. Pair(C \o Encode(a.say, yes, no), yes, no, Tail(d), Yes, No, a.state, y)
    <3>1. Pair(C, yes, no, Tail(d), Yes, No, h.state, y)
      BY <1>2 DEF C
    <3> QED
      BY <1>1, <2>5, <3>1, PairAsks
  <2>7. C \o Encode(a.say, yes, no) = c \o Encode(t.say, yes, no)
    <3>1. Encode(v \o u, yes, no) = Encode(v, yes, no) \o Encode(u, yes, no)
      BY EncodeConcat, Zenon
    <3>2. PICK V \in Seq(Command), U \in Seq(Command) :
            V = Encode(v, yes, no) /\ U = Encode(u, yes, no)
      BY <2>4
    <3>3. (c \o V) \o U = c \o (V \o U)
      BY SentInTurn, Zenon
    <3>4. C \o Encode(a.say, yes, no) = (c \o V) \o U
      BY <2>3, <3>2 DEF C
    <3>5. c \o Encode(t.say, yes, no) = c \o (V \o U)
      BY <2>2, <2>3, <3>1, <3>2
    <3> QED
      BY <3>3, <3>4, <3>5
  <2> QED
    BY <2>2, <2>6, <2>7
<1> QED
  BY <1>3, <1>4

\* What a step about one side of option o makes of the channels leaves the
\* other sides as they were.
LEMMA OthersKept ==
    ASSUME TypeOK, Agree, NEW e \in End, NEW o \in Option, chan[e] # <<>>,
           NEW s \in Seq(YesNo)
    PROVE  /\ Head(chan[e]) \in {Will(o), Wont(o)} =>
                /\ \A q \in Option :
                     Pair(chan[Peer(e)] \o HisSide(o, s), Will(q), Wont(q), Tail(chan[e]),
                          Do(q), Dont(q), us[e][q], him[Peer(e)][q])
                /\ \A q \in Option \ {o} :
                     Pair(chan[Peer(e)] \o HisSide(o, s), Do(q), Dont(q), Tail(chan[e]),
                          Will(q), Wont(q), him[e][q], us[Peer(e)][q])
           /\ Head(chan[e]) \in {Do(o), Dont(o)} =>
                /\ \A q \in Option :
                     Pair(chan[Peer(e)] \o OurSide(o, s), Do(q), Dont(q), Tail(chan[e]),
                          Will(q), Wont(q), him[e][q], us[Peer(e)][q])
                /\ \A q \in Option \ {o} :
                     Pair(chan[Peer(e)] \o OurSide(o, s), Will(q), Wont(q), Tail(chan[e]),
                          Do(q), Dont(q), us[e][q], him[Peer(e)][q])
<1> DEFINE c == chan[Peer(e)]
           d == chan[e]
<1>1. c \in Seq(Command) /\ d \in Seq(Command)
  BY PeerFacts DEF TypeOK
<1>2. \A q \in Option :
        /\ Pair(c, Will(q), Wont(q), d, Do(q), Dont(q), us[e][q], him[Peer(e)][q])
        /\ Pair(c, Do(q), Dont(q), d, Will(q), Wont(q), him[e][q], us[Peer(e)][q])
  BY AgreeView DEF Performed, Watched
<1>3. /\ HisSide(o, s) = Encode(s, Do(o), Dont(o))
      /\ OurSide(o, s) = Encode(s, Will(o), Wont(o))
  BY SideEncodes
<1> HIDE DEF c, d
<1>4. d # <<>>
  BY DEF d
<1>5. ASSUME Head(d) \in {Will(o), Wont(o)}, NEW q \in Option
      PROVE  /\ Pair(c \o HisSide(o, s), Will(q), Wont(q), Tail(d),
                     Do(q), Dont(q), us[e][q], him[Peer(e)][q])
             /\ q # o => Pair(c \o HisSide(o, s), Do(q), Dont(q), Tail(d),
                              Will(q), Wont(q), him[e][q], us[Peer(e)][q])
  <2>1. /\ {Will(q), Wont(q), Do(q), Dont(q)} \subseteq Command
        /\ {Will(o), Wont(o), Do(o), Dont(o)} \subseteq Command
        /\ Will(q) # Wont(q) /\ Do(q) # Dont(q)
    BY CommandFacts
  <2>2. /\ Head(d) \notin {Do(q), Dont(q)}
        /\ Do(o) \notin {Will(q), Wont(q)} /\ Dont(o) \notin {Will(q), Wont(q)}
    BY <1>5, CommandFacts
  <2>3. q # o => /\ Head(d) \notin {Will(q), Wont(q)}
                 /\ Do(o) \notin {Do(q), Dont(q)} /\ Dont(o) \notin {Do(q), Dont(q)}
    BY <1>5, CommandFacts
  <2>4. Pair(c \o Encode(s, Do(o), Dont(o)), Will(q), Wont(q), Tail(d),
             Do(q), Dont(q), us[e][q], him[Peer(e)][q])
    BY <1>1, <1>2, <1>4, <2>1, <2>2, Untouched
  <2>5. q # o => Pair(c \o Encode(s, Do(o), Dont(o)), Do(q), Dont(q), Tail(d),
                      Will(q), Wont(q), him[e][q], us[Peer(e)][q])
    BY <1>1, <1>2, <1>4, <2>1, <2>3, Untouched
  <2> QED
    BY <1>3, <2>4, <2>5
<1>6. ASSUME Head(d) \in {Do(o), Dont(o)}, NEW q \in Option
      PROVE  /\ Pair(c \o OurSide(o, s), Do(q), Dont(q), Tail(d),
                     Will(q), Wont(q), him[e][q], us[Peer(e)][q])
             /\ q # o => Pair(c \o OurSide(o, s), Will(q), Wont(q), Tail(d),
                              Do(q), Dont(q), us[e][q], him[Peer(e)][q])
  <2>1. /\ {Will(q), Wont(q), Do(q), Dont(q)} \subseteq Command
        /\ {Will(o), Wont(o), Do(o), Dont(o)} \subseteq Command
        /\ Will(q) # Wont(q) /\ Do(q) # Dont(q)
    BY CommandFacts
  <2>2. /\ Head(d) \notin {Will(q), Wont(q)}
        /\ Will(o) \notin {Do(q), Dont(q)} /\ Wont(o) \notin {Do(q), Dont(q)}
    BY <1>6, CommandFacts
  <2>3. q # o => /\ Head(d) \notin {Do(q), Dont(q)}
                 /\ Will(o) \notin {Will(q), Wont(q)} /\ Wont(o) \notin {Will(q), Wont(q)}
    BY <1>6, CommandFacts
  <2>4. Pair(c \o Encode(s, Will(o), Wont(o)), Do(q), Dont(q), Tail(d),
             Will(q), Wont(q), him[e][q], us[Peer(e)][q])
    BY <1>1, <1>2, <1>4, <2>1, <2>2, Untouched
  <2>5. q # o => Pair(c \o Encode(s, Will(o), Wont(o)), Will(q), Wont(q), Tail(d),
                      Do(q), Dont(q), us[e][q], him[Peer(e)][q])
    BY <1>1, <1>2, <1>4, <2>1, <2>3, Untouched
  <2> QED
    BY <1>3, <2>4, <2>5
<1> QED
  BY <1>5, <1>6 DEF c, d

\* What Answer and the updates of one entry do, seen from e.
LEMMA AnswerView ==
    ASSUME NEW e \in End, NEW m, Answer(e, m)
    PROVE  chan'[e] = Tail(chan[e]) /\ chan'[Peer(e)] = chan[Peer(e)] \o m
  BY PeerFacts DEF Answer

\* e hears about the peer's side, answers, and may ask for its own.
LEMMA HisHeardAgrees ==
    ASSUME TypeOK, Agree, NEW e \in End, NEW o \in Option, chan[e] # <<>>,
           Head(chan[e]) \in {Will(o), Wont(o)}, NEW supported \in BOOLEAN,
           NEW w \in YesNo, w = "yes" <=> Head(chan[e]) = Will(o),
           NEW h, h = Heard(him[e][o], w, supported),
           NEW t, t = MccpxEnd(e, o, h),
           NEW b \in {AskYes(us[e][o]), AskNo(us[e][o]), Stay(us[e][o])},
           him' = [him EXCEPT ![e][o] = t.state],
           us' = [us EXCEPT ![e][o] = b.state],
           Answer(e, HisSide(o, t.say) \o OurSide(o, b.say))
    PROVE  Agree'
<1> DEFINE c == chan[Peer(e)] \o HisSide(o, t.say)
           d == Tail(chan[e])
<1>1. /\ chan[Peer(e)] \in Seq(Command) /\ chan[e] \in Seq(Command)
      /\ \A q \in Option : /\ us[e][q] \in QState /\ us[Peer(e)][q] \in QState
                           /\ him[e][q] \in QState /\ him[Peer(e)][q] \in QState
  BY PeerFacts DEF TypeOK
<1>2. /\ Will(o) \in Command /\ Wont(o) \in Command /\ Will(o) # Wont(o)
      /\ Do(o) \in Command /\ Dont(o) \in Command /\ Do(o) # Dont(o)
  BY CommandFacts
<1>3. Pair(chan[Peer(e)], Do(o), Dont(o), chan[e], Will(o), Wont(o),
           him[e][o], us[Peer(e)][o])
  BY AgreeView DEF Watched
<1>4. /\ t.say \in Seq(YesNo) /\ t.state \in QState
      /\ Pair(chan[Peer(e)] \o Encode(t.say, Do(o), Dont(o)), Do(o), Dont(o), d,
              Will(o), Wont(o), t.state, us[Peer(e)][o])
  <2>1. PICK C \in Seq(Command), D \in Seq(Command), x \in QState, y \in QState :
          C = chan[Peer(e)] /\ D = chan[e] /\ x = him[e][o] /\ y = us[Peer(e)][o]
    BY <1>1
  <2>2. PICK yes \in Command, no \in Command, Yes \in Command, No \in Command :
          yes = Do(o) /\ no = Dont(o) /\ Yes = Will(o) /\ No = Wont(o)
    BY <1>2
  <2>3. /\ Yes # No /\ D # <<>> /\ Pair(C, yes, no, D, Yes, No, x, y)
        /\ Head(D) \in {Yes, No} /\ (w = "yes" <=> Head(D) = Yes)
        /\ h = Heard(x, w, supported)
    BY <1>2, <1>3, <2>1, <2>2
  <2>4. Pair(C \o Encode(t.say, yes, no), yes, no, Tail(D), Yes, No, t.state, y)
    BY <2>3, HearsAndEnds
  <2>5. t.say \in Seq(YesNo) /\ t.state \in QState
    <3>1. h \in Transitions
      BY <2>3, HeardTyped
    <3> QED
      BY <3>1, EndsTyped, TransitionFields
  <2> QED
    BY <2>1, <2>2, <2>4, <2>5
<1>5. b.say \in Seq(YesNo) /\ b.state \in QState
  BY <1>1, SayTyped
<1>6. /\ HisSide(o, t.say) = Encode(t.say, Do(o), Dont(o)) /\ HisSide(o, t.say) \in Seq(Command)
      /\ OurSide(o, b.say) = Encode(b.say, Will(o), Wont(o)) /\ OurSide(o, b.say) \in Seq(Command)
  BY <1>4, <1>5, SideEncodes, SideType DEF YesNo
<1>7. c \in Seq(Command) /\ d \in Seq(Command)
  BY <1>1, <1>6, ConcatProperties, HeadTailProperties
<1>8. chan'[e] = d /\ chan'[Peer(e)] = c \o OurSide(o, b.say)
  <2>1. /\ chan'[e] = Tail(chan[e])
        /\ chan'[Peer(e)] = chan[Peer(e)] \o (HisSide(o, t.say) \o OurSide(o, b.say))
    BY AnswerView
  <2>2. PICK A \in Seq(Command), B \in Seq(Command) :
          A = HisSide(o, t.say) /\ B = OurSide(o, b.say)
    BY <1>6
  <2>3. (chan[Peer(e)] \o A) \o B = chan[Peer(e)] \o (A \o B)
    BY <1>1, SentInTurn, Zenon
  <2> QED
    BY <2>1, <2>2, <2>3
<1>9. /\ \A q \in Option : us'[e][q] = IF q = o THEN b.state ELSE us[e][q]
      /\ \A q \in Option : him'[e][q] = IF q = o THEN t.state ELSE him[e][q]
      /\ us'[Peer(e)] = us[Peer(e)] /\ him'[Peer(e)] = him[Peer(e)]
  BY PeerFacts DEF TypeOK
<1>10. ASSUME NEW q \in Option
       PROVE  /\ Pair(c, Will(q), Wont(q), d, Do(q), Dont(q), us[e][q], him[Peer(e)][q])
              /\ Pair(c, Do(q), Dont(q), d, Will(q), Wont(q), him'[e][q], us[Peer(e)][q])
  <2>1. Pair(c, Will(q), Wont(q), d, Do(q), Dont(q), us[e][q], him[Peer(e)][q])
    BY <1>4, OthersKept
  <2>2. CASE q = o
    BY <1>4, <1>6, <1>9, <2>1, <2>2
  <2>3. CASE q # o
    <3>1. Pair(c, Do(q), Dont(q), d, Will(q), Wont(q), him[e][q], us[Peer(e)][q])
      BY <1>4, <2>3, OthersKept
    <3> QED
      BY <1>9, <2>1, <2>3, <3>1
  <2> QED
    BY <2>2, <2>3
<1> HIDE DEF c, d
<1>11. ASSUME NEW q \in Option
       PROVE  Performed(e, q)' /\ Watched(e, q)'
  <2>1. /\ Will(q) \in Command /\ Wont(q) \in Command /\ Do(q) \in Command /\ Dont(q) \in Command
        /\ Will(o) \notin {Do(q), Dont(q)} /\ Wont(o) \notin {Do(q), Dont(q)}
        /\ q # o => Will(o) \notin {Will(q), Wont(q)} /\ Wont(o) \notin {Will(q), Wont(q)}
    BY CommandFacts
  <2>2. Pair(c \o OurSide(o, b.say), Do(q), Dont(q), d, Will(q), Wont(q),
             him'[e][q], us[Peer(e)][q])
    BY <1>2, <1>5, <1>6, <1>7, <1>10, <2>1, PairPasses
  <2>3. Pair(c \o OurSide(o, b.say), Will(q), Wont(q), d, Do(q), Dont(q),
             us'[e][q], him[Peer(e)][q])
    <3>1. CASE q = o
      <4>1. Pair(c, Will(o), Wont(o), d, Do(o), Dont(o), us[e][o], him[Peer(e)][o])
        BY <1>10
      <4>2. us[e][o] \in QState /\ him[Peer(e)][o] \in QState
        BY <1>1
      <4>3. Pair(c \o Encode(b.say, Will(o), Wont(o)), Will(o), Wont(o), d, Do(o), Dont(o),
                 b.state, him[Peer(e)][o])
        BY <1>2, <1>7, <4>1, <4>2, PairAsks
      <4> QED
        BY <1>6, <1>9, <3>1, <4>3
    <3>2. CASE q # o
      <4>1. Pair(c \o Encode(b.say, Will(o), Wont(o)), Will(q), Wont(q), d, Do(q), Dont(q),
                 us[e][q], him[Peer(e)][q])
        BY <1>2, <1>5, <1>7, <1>10, <2>1, <3>2, PairPasses
      <4> QED
        BY <1>6, <1>9, <3>2, <4>1
    <3> QED
      BY <3>1, <3>2
  <2> QED
    BY <1>8, <1>9, <2>2, <2>3 DEF Performed, Watched
<1> QED
  BY <1>11, AgreeNext

\* e hears about its own side, and answers.
LEMMA OursHeardAgrees ==
    ASSUME TypeOK, Agree, NEW e \in End, NEW o \in Option, chan[e] # <<>>,
           Head(chan[e]) \in {Do(o), Dont(o)}, NEW supported \in BOOLEAN,
           NEW w \in YesNo, w = "yes" <=> Head(chan[e]) = Do(o),
           NEW h, h = Heard(us[e][o], w, supported),
           NEW t, t = MccpxEnd(e, o, h),
           us' = [us EXCEPT ![e][o] = t.state], him' = him,
           Answer(e, OurSide(o, t.say))
    PROVE  Agree'
<1> DEFINE c == chan[Peer(e)] \o OurSide(o, t.say)
           d == Tail(chan[e])
<1>1. /\ chan[Peer(e)] \in Seq(Command) /\ chan[e] \in Seq(Command)
      /\ us[e][o] \in QState /\ him[Peer(e)][o] \in QState
  BY PeerFacts DEF TypeOK
<1>2. /\ Will(o) \in Command /\ Wont(o) \in Command
      /\ Do(o) \in Command /\ Dont(o) \in Command /\ Do(o) # Dont(o)
  BY CommandFacts
<1>3. Pair(chan[Peer(e)], Will(o), Wont(o), chan[e], Do(o), Dont(o),
           us[e][o], him[Peer(e)][o])
  BY AgreeView DEF Performed
<1>4. /\ t.say \in Seq(YesNo) /\ t.state \in QState
      /\ Pair(chan[Peer(e)] \o Encode(t.say, Will(o), Wont(o)), Will(o), Wont(o), d,
              Do(o), Dont(o), t.state, him[Peer(e)][o])
  <2>1. PICK C \in Seq(Command), D \in Seq(Command), x \in QState, y \in QState :
          C = chan[Peer(e)] /\ D = chan[e] /\ x = us[e][o] /\ y = him[Peer(e)][o]
    BY <1>1
  <2>2. PICK yes \in Command, no \in Command, Yes \in Command, No \in Command :
          yes = Will(o) /\ no = Wont(o) /\ Yes = Do(o) /\ No = Dont(o)
    BY <1>2
  <2>3. /\ Yes # No /\ D # <<>> /\ Pair(C, yes, no, D, Yes, No, x, y)
        /\ Head(D) \in {Yes, No} /\ (w = "yes" <=> Head(D) = Yes)
        /\ h = Heard(x, w, supported)
    BY <1>2, <1>3, <2>1, <2>2
  <2>4. Pair(C \o Encode(t.say, yes, no), yes, no, Tail(D), Yes, No, t.state, y)
    BY <2>3, HearsAndEnds
  <2>5. t.say \in Seq(YesNo) /\ t.state \in QState
    <3>1. h \in Transitions
      BY <2>3, HeardTyped
    <3> QED
      BY <3>1, EndsTyped, TransitionFields
  <2> QED
    BY <2>1, <2>2, <2>4, <2>5
<1>5. OurSide(o, t.say) = Encode(t.say, Will(o), Wont(o))
  BY <1>4, SideEncodes
<1>6. /\ chan'[e] = d /\ chan'[Peer(e)] = c
      /\ \A q \in Option : us'[e][q] = IF q = o THEN t.state ELSE us[e][q]
      /\ us'[Peer(e)] = us[Peer(e)]
  <2>1. chan'[e] = d /\ chan'[Peer(e)] = c
    BY AnswerView
  <2> QED
    BY <2>1, PeerFacts DEF TypeOK
<1>7. ASSUME NEW q \in Option
      PROVE  Performed(e, q)' /\ Watched(e, q)'
  <2>1. Pair(c, Do(q), Dont(q), d, Will(q), Wont(q), him[e][q], us[Peer(e)][q])
    BY <1>4, OthersKept
  <2>2. Pair(c, Will(q), Wont(q), d, Do(q), Dont(q), us'[e][q], him[Peer(e)][q])
    <3>1. CASE q = o
      BY <1>4, <1>5, <1>6, <3>1
    <3>2. CASE q # o
      <4>1. Pair(c, Will(q), Wont(q), d, Do(q), Dont(q), us[e][q], him[Peer(e)][q])
        BY <1>4, <3>2, OthersKept
      <4> QED
        BY <1>6, <3>2, <4>1
    <3> QED
      BY <3>1, <3>2
  <2> HIDE DEF c, d
  <2> QED
    BY <1>6, <2>1, <2>2 DEF Performed, Watched
<1> QED
  BY <1>7, AgreeNext

\* e asks for its own side, or for the peer's.
LEMMA AskOursAgrees ==
    ASSUME TypeOK, Agree, NEW e \in End, NEW o \in Option,
           NEW t \in {AskYes(us[e][o]), AskNo(us[e][o]), Stay(us[e][o])},
           AskOurs(e, o, t)
    PROVE  Agree'
<1> DEFINE c == chan[Peer(e)] \o OurSide(o, t.say)
<1>1. /\ chan[Peer(e)] \in Seq(Command) /\ us[e][o] \in QState
      /\ him[Peer(e)][o] \in QState
  BY PeerFacts DEF TypeOK
<1>2. /\ chan'[e] = chan[e] /\ chan'[Peer(e)] = c /\ him' = him
      /\ \A q \in Option : us'[e][q] = IF q = o THEN t.state ELSE us[e][q]
      /\ us'[Peer(e)] = us[Peer(e)]
  <2>1. /\ us' = [us EXCEPT ![e][o] = t.state] /\ him' = him
        /\ chan' = [chan EXCEPT ![Peer(e)] = @ \o OurSide(o, t.say)]
    BY DEF AskOurs
  <2> HIDE DEF c
  <2>2. chan'[e] = chan[e] /\ chan'[Peer(e)] = chan[Peer(e)] \o OurSide(o, t.say)
    BY <2>1, PeerFacts DEF TypeOK
  <2>3. /\ \A q \in Option : us'[e][q] = IF q = o THEN t.state ELSE us[e][q]
        /\ us'[Peer(e)] = us[Peer(e)]
    BY <2>1, PeerFacts DEF TypeOK
  <2> QED
    BY <2>1, <2>2, <2>3 DEF c
<1>3. t.say \in Seq(YesNo)
  BY <1>1, SayTyped
<1>4. OurSide(o, t.say) = Encode(t.say, Will(o), Wont(o))
  BY <1>3, SideEncodes
<1>5. Will(o) \in Command /\ Wont(o) \in Command
  BY CommandFacts
<1>6. ASSUME NEW q \in Option
      PROVE  Performed(e, q)' /\ Watched(e, q)'
  <2>1. /\ Pair(chan[Peer(e)], Will(q), Wont(q), chan[e], Do(q), Dont(q),
                us[e][q], him[Peer(e)][q])
        /\ Pair(chan[Peer(e)], Do(q), Dont(q), chan[e], Will(q), Wont(q),
                him[e][q], us[Peer(e)][q])
    BY AgreeView DEF Performed, Watched
  <2>2. /\ Will(q) \in Command /\ Wont(q) \in Command /\ Do(q) \in Command /\ Dont(q) \in Command
        /\ Will(o) \notin {Do(q), Dont(q)} /\ Wont(o) \notin {Do(q), Dont(q)}
        /\ q # o => Will(o) \notin {Will(q), Wont(q)} /\ Wont(o) \notin {Will(q), Wont(q)}
    BY CommandFacts
  <2>3. Pair(c, Do(q), Dont(q), chan[e], Will(q), Wont(q), him[e][q], us[Peer(e)][q])
    BY <1>1, <1>3, <1>4, <1>5, <2>1, <2>2, PairPasses
  <2>4. Pair(c, Will(q), Wont(q), chan[e], Do(q), Dont(q), us'[e][q], him[Peer(e)][q])
    <3>1. CASE q = o
      <4>1. Pair(chan[Peer(e)] \o Encode(t.say, Will(o), Wont(o)), Will(o), Wont(o), chan[e],
                 Do(o), Dont(o), t.state, him[Peer(e)][o])
        BY <1>1, <1>5, <2>1, <3>1, PairAsks
      <4> QED
        BY <1>2, <1>4, <3>1, <4>1
    <3>2. CASE q # o
      <4>1. Pair(c, Will(q), Wont(q), chan[e], Do(q), Dont(q), us[e][q], him[Peer(e)][q])
        BY <1>1, <1>3, <1>4, <1>5, <2>1, <2>2, <3>2, PairPasses
      <4> QED
        BY <1>2, <3>2, <4>1
    <3> QED
      BY <3>1, <3>2
  <2> HIDE DEF c
  <2> QED
    BY <1>2, <2>3, <2>4 DEF Performed, Watched
<1> QED
  BY <1>6, AgreeNext

\* The same for the peer's side.
LEMMA AskHisAgrees ==
    ASSUME TypeOK, Agree, NEW e \in End, NEW o \in Option,
           NEW t \in {AskYes(him[e][o]), AskNo(him[e][o]), Stay(him[e][o])},
           AskHis(e, o, t)
    PROVE  Agree'
<1> DEFINE c == chan[Peer(e)] \o HisSide(o, t.say)
<1>1. /\ chan[Peer(e)] \in Seq(Command) /\ him[e][o] \in QState
      /\ us[Peer(e)][o] \in QState
  BY PeerFacts DEF TypeOK
<1>2. /\ chan'[e] = chan[e] /\ chan'[Peer(e)] = c /\ us' = us
      /\ \A q \in Option : him'[e][q] = IF q = o THEN t.state ELSE him[e][q]
      /\ him'[Peer(e)] = him[Peer(e)]
  <2>1. /\ him' = [him EXCEPT ![e][o] = t.state] /\ us' = us
        /\ chan' = [chan EXCEPT ![Peer(e)] = @ \o HisSide(o, t.say)]
    BY DEF AskHis
  <2> HIDE DEF c
  <2>2. chan'[e] = chan[e] /\ chan'[Peer(e)] = chan[Peer(e)] \o HisSide(o, t.say)
    BY <2>1, PeerFacts DEF TypeOK
  <2>3. /\ \A q \in Option : him'[e][q] = IF q = o THEN t.state ELSE him[e][q]
        /\ him'[Peer(e)] = him[Peer(e)]
    BY <2>1, PeerFacts DEF TypeOK
  <2> QED
    BY <2>1, <2>2, <2>3 DEF c
<1>3. t.say \in Seq(YesNo)
  BY <1>1, SayTyped
<1>4. HisSide(o, t.say) = Encode(t.say, Do(o), Dont(o))
  BY <1>3, SideEncodes
<1>5. Do(o) \in Command /\ Dont(o) \in Command
  BY CommandFacts
<1>6. ASSUME NEW q \in Option
      PROVE  Performed(e, q)' /\ Watched(e, q)'
  <2>1. /\ Pair(chan[Peer(e)], Will(q), Wont(q), chan[e], Do(q), Dont(q),
                us[e][q], him[Peer(e)][q])
        /\ Pair(chan[Peer(e)], Do(q), Dont(q), chan[e], Will(q), Wont(q),
                him[e][q], us[Peer(e)][q])
    BY AgreeView DEF Performed, Watched
  <2>2. /\ Will(q) \in Command /\ Wont(q) \in Command /\ Do(q) \in Command /\ Dont(q) \in Command
        /\ Do(o) \notin {Will(q), Wont(q)} /\ Dont(o) \notin {Will(q), Wont(q)}
        /\ q # o => Do(o) \notin {Do(q), Dont(q)} /\ Dont(o) \notin {Do(q), Dont(q)}
    BY CommandFacts
  <2>3. Pair(c, Will(q), Wont(q), chan[e], Do(q), Dont(q), us[e][q], him[Peer(e)][q])
    BY <1>1, <1>3, <1>4, <1>5, <2>1, <2>2, PairPasses
  <2>4. Pair(c, Do(q), Dont(q), chan[e], Will(q), Wont(q), him'[e][q], us[Peer(e)][q])
    <3>1. CASE q = o
      <4>1. Pair(chan[Peer(e)] \o Encode(t.say, Do(o), Dont(o)), Do(o), Dont(o), chan[e],
                 Will(o), Wont(o), t.state, us[Peer(e)][o])
        BY <1>1, <1>5, <2>1, <3>1, PairAsks
      <4> QED
        BY <1>2, <1>4, <3>1, <4>1
    <3>2. CASE q # o
      <4>1. Pair(c, Do(q), Dont(q), chan[e], Will(q), Wont(q), him[e][q], us[Peer(e)][q])
        BY <1>1, <1>3, <1>4, <1>5, <2>1, <2>2, <3>2, PairPasses
      <4> QED
        BY <1>2, <3>2, <4>1
    <3> QED
      BY <3>1, <3>2
  <2> HIDE DEF c
  <2> QED
    BY <1>2, <2>3, <2>4 DEF Performed, Watched
<1> QED
  BY <1>6, AgreeNext

-----------------------------------------------------------------------------
(* The tables of the two programs, for a game g.                           *)
(* Proposes    what e may ask to perform itself, of its own accord          *)
(* Performs    what it may perform, asked or not                           *)
(* Accepts     what it lets the other end perform                          *)
(* MayLatch    the compressions its latch may name                         *)
Proposes(e, g) == IF e = Locid THEN {ENVIRON, MCCPX} ELSE g.will
Performs(e, g) == Proposes(e, g) \cup IF e = Locid THEN LocidWill ELSE g.will
Accepts(e, g)  == IF e = Locid THEN LocidDo ELSE g.do
MayLatch(e, g) ==
    (Compression \cap Proposes(Peer(e), g) \cap Accepts(e, g))
      \cup IF e = Locid THEN {MCCPX} ELSE {}

(* No end proposes an option that the other performs and would refuse, for *)
(* want of it in the table or for a latch that names another.              *)
Compatible(g) ==
    \A e \in End : \A o \in Proposes(Peer(e), g) \cap Performs(e, g) :
      /\ o \in Accepts(e, g)
      /\ o \in Compression => MayLatch(e, g) \subseteq {o}

Fits(e, o, s) ==
    /\ s # "NO" => o \in Performs(e, game)
    /\ s \in WantsYes \cup WantsNo => o \in Proposes(e, game)

Tables ==
    /\ \A e \in End : latch[e] \in MayLatch(e, game) \cup {NULL}
    /\ \A e \in End, o \in Option : Fits(e, o, us[e][o])

\* The tables are respected after a step that changes us and latch within them.
LEMMA TablesStep ==
    ASSUME Tables, game' = game,
           \A e \in End : latch'[e] \in MayLatch(e, game) \cup {latch[e]},
           \A e \in End, o \in Option : us'[e][o] = us[e][o] \/ Fits(e, o, us'[e][o])
    PROVE  Tables'
<1>1. \A e \in End : latch'[e] \in MayLatch(e, game') \cup {NULL}
  BY DEF Tables
<1>2. \A e \in End, o \in Option : Fits(e, o, us'[e][o])
  BY DEF Tables
<1>3. \A e \in End, o \in Option : Fits(e, o, us[e][o])'
  BY <1>2 DEF Fits
<1> QED
  BY <1>1, <1>3 DEF Tables

\* An option one proposes fits in any state.
LEMMA ProposedFits ==
    ASSUME NEW e, NEW o, NEW s, o \in Proposes(e, game)
    PROVE  Fits(e, o, s)
  BY DEF Fits, Performs

\* What is heard of one's own side fits the table it was looked up in.
LEMMA HeardFits ==
    ASSUME NEW e, NEW o, NEW x \in QState, Fits(e, o, x), NEW w,
           NEW supported \in BOOLEAN, supported => o \in Wills(e)
    PROVE  Fits(e, o, MccpxEnd(e, o, Heard(x, w, supported)).state)
<1> DEFINE h == Heard(x, w, supported)
<1>1. CASE e = Locid /\ o = MCCPX
  BY <1>1, ProposedFits DEF Proposes
<1>2. CASE ~(e = Locid /\ o = MCCPX)
  <2>1. MccpxEnd(e, o, h) = h
    BY <1>2 DEF MccpxEnd
  <2>2. supported => o \in Performs(e, game)
    BY DEF Performs, Wills
  <2>3. Fits(e, o, h.state)
    <3>1. CASE w = "yes"
      BY <2>2, <3>1 DEF Fits, Heard, HearYes, Transition, Stay, WantsYes, WantsNo, QState
    <3>2. CASE w # "yes"
      BY <3>2 DEF Fits, Heard, HearNo, Transition, Stay, WantsYes, WantsNo, QState
    <3> QED
      BY <3>1, <3>2
  <2> HIDE DEF h
  <2> QED
    BY <2>1, <2>3 DEF h
<1> QED
  BY <1>1, <1>2

\* A WILL that is news comes from an end that asks to perform the option.
LEMMA NewsIsAsked ==
    ASSUME TypeOK, Agree, Tables, NEW e \in End, NEW o \in Option, chan[e] # <<>>,
           Head(chan[e]) = Will(o), him[e][o] = "NO"
    PROVE  o \in Proposes(Peer(e), game)
<1>1. chan[e] \in Seq(Command)
  BY DEF TypeOK
<1>2. PICK a \in Says, b \in Says :
        /\ Carries(chan[e], Will(o), Wont(o), b)
        /\ Linked(him[e][o], us[Peer(e)][o], a, b)
  BY AgreeView DEF Watched, Pair
<1>3. Will(o) \in Command /\ Wont(o) \in Command /\ Will(o) # Wont(o)
  BY CommandFacts
<1>4. b # <<>> /\ Head(b) = "yes"
  BY <1>1, <1>2, <1>3, SaysTyped, CarriesTail
<1>5. us[Peer(e)][o] \in WantsYes
  BY <1>2, <1>4, SaysFacts DEF Linked, OneWay, WantsYes, WantsNo, Says
<1> QED
  BY <1>5, PeerFacts DEF Tables, Fits

\* Where the tables are compatible a refusal resets nothing.
LEMMA RefusalHarmless ==
    ASSUME TypeOK, Agree, Tables, Compatible(game),
           NEW e \in End, NEW o \in Option, chan[e] # <<>>,
           Head(chan[e]) = Will(o), RefusalResets(e, o)
    PROVE  us[e][o] = "NO"
<1> SUFFICES ASSUME us[e][o] # "NO" PROVE FALSE
  OBVIOUS
<1>1. o \in Proposes(Peer(e), game)
  BY NewsIsAsked DEF RefusalResets
<1>2. o \in Performs(e, game)
  BY DEF Tables, Fits
<1>3. o \in Accepts(e, game) /\ (o \in Compression => MayLatch(e, game) \subseteq {o})
  BY <1>1, <1>2 DEF Compatible
<1>4. latch[e] \in MayLatch(e, game) \cup {NULL}
  BY DEF Tables
<1> QED
  BY <1>3, <1>4 DEF RefusalResets, Supported, Does, Accepts

-----------------------------------------------------------------------------
(* The actions.                                                            *)
(* The inductive invariant, beside TypeOK.                                 *)
AInv == ~game.unruly => Agree /\ Tables

\* A WILL, refused or not.
LEMMA HearWillAgrees ==
    ASSUME TypeOK, Agree, Tables, Compatible(game),
           NEW e \in End, NEW o \in Option, chan[e] # <<>>,
           Head(chan[e]) = Will(o), HearWill(e, o), game' = game
    PROVE  Agree' /\ Tables'
<1> DEFINE h == Heard(him[e][o], "yes", Supported(e, o))
           t == MccpxEnd(e, o, h)
           b == OfferBack(e, o, t)
<1>1. /\ him' = [him EXCEPT ![e][o] = t.state]
      /\ us' = [us EXCEPT ![e][o] = IF RefusalResets(e, o) THEN "NO" ELSE b.state]
      /\ latch' = [latch EXCEPT ![e] = Latched(e, o)]
      /\ Answer(e, HisSide(o, t.say) \o OurSide(o, b.say))
  BY DEF HearWill, Heard
<1>2. (Supported(e, o)) \in BOOLEAN
  BY DEF Supported
<1>3. RefusalResets(e, o) => b.state = "NO"
  <2> SUFFICES ASSUME RefusalResets(e, o) PROVE b.state = "NO"
    OBVIOUS
  <2>1. us[e][o] = "NO"
    BY RefusalHarmless
  <2>2. t.tell = "nothing"
    BY DEF RefusalResets, Heard, HearYes, MccpxEnd, Transition
  <2> HIDE DEF t
  <2> QED
    BY <2>1, <2>2 DEF OfferBack, Stay, Transition
<1>4. us' = [us EXCEPT ![e][o] = b.state]
  BY <1>1, <1>3
<1>5. b \in {AskYes(us[e][o]), AskNo(us[e][o]), Stay(us[e][o])}
  BY DEF OfferBack
<1>6. Fits(e, o, b.state) \/ b.state = us[e][o]
  <2>1. CASE e = Locid /\ o = MCCPX
    BY <2>1, ProposedFits DEF Proposes
  <2>2. CASE ~(e = Locid /\ o = MCCPX)
    BY <2>2 DEF OfferBack, Stay, Transition
  <2> QED
    BY <2>1, <2>2
<1>7. Latched(e, o) \in MayLatch(e, game) \cup {latch[e]}
  <2>1. CASE him[e][o] = "NO" /\ Supported(e, o) /\ o \in Compression
    <3>1. o \in Proposes(Peer(e), game)
      BY <2>1, NewsIsAsked
    <3> QED
      BY <2>1, <3>1 DEF Latched, MayLatch, Accepts, Supported, Does
  <2>2. CASE ~(him[e][o] = "NO" /\ Supported(e, o) /\ o \in Compression)
    BY <2>2 DEF Latched
  <2> QED
    BY <2>1, <2>2
<1>8. Agree'
  <2>1. PICK supported \in BOOLEAN : supported = Supported(e, o)
    BY <1>2
  <2>2. PICK w \in YesNo : w = "yes"
    BY DEF YesNo
  <2>3. PICK H : H = h
    OBVIOUS
  <2>4. PICK T : T = t
    OBVIOUS
  <2>5. PICK B : B = b
    OBVIOUS
  <2>6. H = Heard(him[e][o], w, supported) /\ T = MccpxEnd(e, o, H)
    BY <2>1, <2>2, <2>3, <2>4
  <2> HIDE DEF h, t, b
  <2>7. /\ B \in {AskYes(us[e][o]), AskNo(us[e][o]), Stay(us[e][o])}
        /\ him' = [him EXCEPT ![e][o] = T.state]
        /\ us' = [us EXCEPT ![e][o] = B.state]
        /\ Answer(e, HisSide(o, T.say) \o OurSide(o, B.say))
    BY <1>1, <1>4, <1>5, <2>4, <2>5
  <2>8. /\ Head(chan[e]) \in {Will(o), Wont(o)}
        /\ w = "yes" <=> Head(chan[e]) = Will(o)
    BY <2>2
  <2> QED
    BY <2>6, <2>7, <2>8, HisHeardAgrees
<1>9. Tables'
  <2> HIDE DEF t, b
  <2>1. \A x \in End : latch'[x] \in MayLatch(x, game) \cup {latch[x]}
    BY <1>1, <1>7 DEF TypeOK
  <2>2. \A x \in End, q \in Option : us'[x][q] = us[x][q] \/ Fits(x, q, us'[x][q])
    BY <1>4, <1>6 DEF TypeOK
  <2> QED
    BY <2>1, <2>2, TablesStep
<1> QED
  BY <1>8, <1>9

\* A WONT.
LEMMA HearWontAgrees ==
    ASSUME TypeOK, Agree, Tables,
           NEW e \in End, NEW o \in Option, chan[e] # <<>>,
           Head(chan[e]) = Wont(o), HearWont(e, o), game' = game
    PROVE  Agree' /\ Tables'
<1>1. PICK w \in YesNo : w = "no"
  BY DEF YesNo
<1>2. PICK H, T, B :
        /\ H = Heard(him[e][o], w, FALSE) /\ T = MccpxEnd(e, o, H)
        /\ B = Stay(us[e][o])
  OBVIOUS
<1>3. /\ him' = [him EXCEPT ![e][o] = T.state]
      /\ Answer(e, HisSide(o, T.say))
      /\ us' = us /\ latch' = latch
  BY <1>1, <1>2 DEF HearWont, Heard
<1>4. us' = [us EXCEPT ![e][o] = B.state]
  BY <1>1, <1>2, <1>3 DEF Stay, Transition, TypeOK
<1>5. him[e][o] \in QState
  BY DEF TypeOK
<1>6. T.say \in Seq(YesNo)
  <2>1. H \in Transitions
    BY <1>1, <1>2, <1>5, HeardTyped
  <2> QED
    BY <1>1, <1>2, <2>1, EndsTyped, TransitionFields
<1>7. HisSide(o, T.say) \o OurSide(o, B.say) = HisSide(o, T.say)
  <2>1. B.say = <<>> /\ OurSide(o, <<>>) = <<>>
    BY <1>1, <1>2 DEF Stay, Transition, OurSide
  <2>2. HisSide(o, T.say) \in Seq(Command)
    BY <1>6, SideType DEF YesNo
  <2> QED
    BY <2>1, <2>2, ConcatEmptySeq
<1>8. Answer(e, HisSide(o, T.say) \o OurSide(o, B.say))
  BY <1>3, <1>7
<1>9. Head(chan[e]) \in {Will(o), Wont(o)} /\ (w = "yes" <=> Head(chan[e]) = Will(o))
  BY <1>1, CommandFacts
<1>10. B \in {AskYes(us[e][o]), AskNo(us[e][o]), Stay(us[e][o])} /\ FALSE \in BOOLEAN
  BY <1>1, <1>2
<1>11. Agree'
  BY <1>1, <1>2, <1>3, <1>4, <1>8, <1>9, <1>10, HisHeardAgrees
<1>12. Tables'
  BY <1>3, TablesStep
<1> QED
  BY <1>11, <1>12

\* A DO or a DONT.
LEMMA HearOursAgrees ==
    ASSUME TypeOK, Agree, Tables,
           NEW e \in End, NEW o \in Option, chan[e] # <<>>,
           NEW w \in YesNo, Head(chan[e]) = IF w = "yes" THEN Do(o) ELSE Dont(o),
           IF w = "yes" THEN HearDo(e, o) ELSE HearDont(e, o), game' = game
    PROVE  Agree' /\ Tables'
<1>1. PICK supported \in BOOLEAN : supported <=> o \in Wills(e)
  OBVIOUS
<1>2. PICK H, T : H = Heard(us[e][o], w, supported) /\ T = MccpxEnd(e, o, H)
  OBVIOUS
<1>3. /\ us' = [us EXCEPT ![e][o] = T.state]
      /\ Answer(e, OurSide(o, T.say))
      /\ him' = him /\ latch' = latch
  <2>1. CASE w = "yes"
    <3>1. H = HearYes(us[e][o], o \in Wills(e))
      BY <1>1, <1>2, <2>1 DEF Heard, HearYes
    <3> QED
      BY <1>2, <2>1, <3>1 DEF HearDo
  <2>2. CASE w # "yes"
    BY <1>2, <2>2 DEF HearDont, Heard
  <2> QED
    BY <2>1, <2>2
<1>4. Head(chan[e]) \in {Do(o), Dont(o)} /\ (w = "yes" <=> Head(chan[e]) = Do(o))
  BY CommandFacts
<1>5. Agree'
  BY <1>2, <1>3, <1>4, OursHeardAgrees
<1>6. us[e][o] \in QState /\ Fits(e, o, us[e][o])
  BY DEF TypeOK, Tables
<1>7. Fits(e, o, T.state)
  BY <1>1, <1>2, <1>6, HeardFits
<1>8. Tables'
  <2>1. \A x \in End, q \in Option : us'[x][q] = us[x][q] \/ Fits(x, q, us'[x][q])
    BY <1>3, <1>7 DEF TypeOK
  <2> QED
    BY <1>3, <2>1, TablesStep
<1> QED
  BY <1>5, <1>8

\* One of the four commands, whichever it is.
LEMMA ReceiveAgrees ==
    ASSUME TypeOK, Agree, Tables, Compatible(game), NEW e \in End, Receive(e)
    PROVE  Agree' /\ Tables'
<1>1. PICK k \in Command : k = Head(chan[e]) /\ chan[e] # <<>>
  BY HeadType DEF Receive
<1>2. game' = game
  BY DEF Receive
<1>3. k.opt \in Option
  BY VerbFacts
<1>4. CASE k.verb = "WILL" /\ HearWill(e, k.opt)
  BY <1>1, <1>2, <1>3, <1>4, VerbFacts, HearWillAgrees
<1>5. CASE k.verb = "WONT" /\ HearWont(e, k.opt)
  BY <1>1, <1>2, <1>3, <1>5, VerbFacts, HearWontAgrees
<1>6. CASE k.verb = "DO" /\ HearDo(e, k.opt)
  <2>1. PICK w \in YesNo : w = "yes"
    BY DEF YesNo
  <2>2. /\ Head(chan[e]) = IF w = "yes" THEN Do(k.opt) ELSE Dont(k.opt)
        /\ IF w = "yes" THEN HearDo(e, k.opt) ELSE HearDont(e, k.opt)
    BY <1>1, <1>6, <2>1, VerbFacts
  <2> QED
    BY <1>1, <1>2, <1>3, <2>2, HearOursAgrees
<1>7. CASE k.verb = "DONT" /\ HearDont(e, k.opt)
  <2>1. PICK w \in YesNo : w = "no"
    BY DEF YesNo
  <2>2. /\ Head(chan[e]) = IF w = "yes" THEN Do(k.opt) ELSE Dont(k.opt)
        /\ IF w = "yes" THEN HearDo(e, k.opt) ELSE HearDont(e, k.opt)
    BY <1>1, <1>7, <2>1, VerbFacts
  <2> QED
    BY <1>1, <1>2, <1>3, <2>2, HearOursAgrees
<1> QED
  BY <1>1, <1>4, <1>5, <1>6, <1>7 DEF Receive

\* A wish for one's own side is for what one proposes.
LEMMA AskOursTables ==
    ASSUME TypeOK, Tables, NEW e \in End, NEW o \in Option, NEW t,
           o \in Proposes(e, game), AskOurs(e, o, t), game' = game,
           \A x \in End : latch'[x] \in MayLatch(x, game) \cup {latch[x]}
    PROVE  Tables'
<1>1. us' = [us EXCEPT ![e][o] = t.state]
  BY DEF AskOurs
<1>2. Fits(e, o, t.state)
  BY ProposedFits
<1>3. \A x \in End, q \in Option : us'[x][q] = us[x][q] \/ Fits(x, q, us'[x][q])
  BY <1>1, <1>2 DEF TypeOK
<1> QED
  BY <1>3, TablesStep

\* A wish for the peer's side does not touch one's own.
LEMMA AskHisTables ==
    ASSUME TypeOK, Tables, NEW e \in End, NEW o \in Option, NEW t,
           AskHis(e, o, t), game' = game,
           \A x \in End : latch'[x] \in MayLatch(x, game) \cup {latch[x]}
    PROVE  Tables'
<1>1. us' = us
  BY DEF AskHis
<1> QED
  BY <1>1, TablesStep

\* The programs' own wishes.
LEMMA WishesAgree ==
    ASSUME TypeOK, Agree, Tables,
           RenegotiateEnv \/ MccpxFails \/ \E o \in Option : GameAsks(o)
    PROVE  Agree' /\ Tables'
<1>1. Locid \in End /\ Game \in End /\ MCCPX \in Option /\ ENVIRON \in Option
  BY OptionAssumption DEF End
<1>2. game' = game
  BY DEF RenegotiateEnv, MccpxFails, GameAsks, Ask
<1>3. CASE RenegotiateEnv
  <2>1. PICK t : t = AskYes(us[Locid][ENVIRON])
    OBVIOUS
  <2>2. AskOurs(Locid, ENVIRON, t) /\ latch' = latch
    BY <1>3, <2>1 DEF RenegotiateEnv
  <2>3. Agree'
    BY <1>1, <2>1, <2>2, AskOursAgrees
  <2>4. ENVIRON \in Proposes(Locid, game)
    BY DEF Proposes
  <2> QED
    BY <1>1, <1>2, <2>2, <2>3, <2>4, AskOursTables
<1>4. CASE MccpxFails
  <2>1. \A x \in End : latch'[x] \in MayLatch(x, game) \cup {latch[x]}
    BY <1>4, EndAssumption DEF MccpxFails, MayLatch, TypeOK, End
  <2>2. MCCPX \in Proposes(Locid, game)
    BY DEF Proposes
  <2>3. PICK t, r : t = AskNo(us[Locid][MCCPX]) /\ r = AskNo(him[Locid][MCCPX])
    OBVIOUS
  <2>4. AskOurs(Locid, MCCPX, t) \/ AskHis(Locid, MCCPX, r)
    BY <1>4, <2>3 DEF MccpxFails
  <2>5. CASE AskOurs(Locid, MCCPX, t)
    <3>1. Agree'
      BY <1>1, <2>3, <2>5, AskOursAgrees
    <3> QED
      BY <1>1, <1>2, <2>1, <2>2, <2>5, <3>1, AskOursTables
  <2>6. CASE AskHis(Locid, MCCPX, r)
    <3>1. Agree'
      BY <1>1, <2>3, <2>6, AskHisAgrees
    <3> QED
      BY <1>1, <1>2, <2>1, <2>6, <3>1, AskHisTables
  <2> QED
    BY <2>4, <2>5, <2>6
<1>5. ASSUME NEW o \in Option, GameAsks(o) PROVE Agree' /\ Tables'
  <2>1. latch' = latch
    BY <1>5 DEF GameAsks
  <2>2. CASE o \in game.will /\
             \E t \in {AskYes(us[Game][o]), AskNo(us[Game][o])} : AskOurs(Game, o, t)
    <3>1. PICK t \in {AskYes(us[Game][o]), AskNo(us[Game][o])} : AskOurs(Game, o, t)
      BY <2>2
    <3>2. Agree'
      BY <1>1, <3>1, AskOursAgrees
    <3>3. o \in Proposes(Game, game)
      BY <2>2, EndAssumption DEF Proposes
    <3> QED
      BY <1>1, <1>2, <2>1, <3>1, <3>2, <3>3, AskOursTables
  <2>3. CASE o \in game.do /\
             \E t \in {AskYes(him[Game][o]), AskNo(him[Game][o])} : AskHis(Game, o, t)
    <3>1. PICK t \in {AskYes(him[Game][o]), AskNo(him[Game][o])} : AskHis(Game, o, t)
      BY <2>3
    <3>2. Agree'
      BY <1>1, <3>1, AskHisAgrees
    <3> QED
      BY <1>1, <1>2, <2>1, <3>1, <3>2, AskHisTables
  <2> QED
    BY <1>5, <2>2, <2>3 DEF GameAsks
<1> QED
  BY <1>3, <1>4, <1>5

\* Nothing is said, nothing is on.
LEMMA InitAgrees ==
    ASSUME Init
    PROVE  Agree /\ Tables
<1>1. \A e \in End : /\ latch[e] = NULL /\ chan[e] = <<>>
                     /\ \A o \in Option : us[e][o] = "NO" /\ him[e][o] = "NO"
  BY DEF Init
<1>2. Tables
  BY <1>1 DEF Tables, Fits, WantsYes, WantsNo
<1>3. ASSUME NEW e \in End, NEW o \in Option PROVE Performed(e, o)
  <2>1. <<>> \in Says /\ <<>> \in Seq(YesNo) /\ <<>> \in Seq(Command)
    BY DEF Says
  <2>2. ASSUME NEW yes \in Command, NEW no \in Command
        PROVE  Carries(<<>>, yes, no, <<>>)
    <3>1. Encode(<<>>, yes, no) = <<>>
      BY <2>1, EncodeTail
    <3>2. Sub(<<>>, {yes, no}, <<>>)
      BY <2>1, SubEmpty
    <3> QED
      BY <3>1, <3>2 DEF Carries
  <2>3. Will(o) \in Command /\ Wont(o) \in Command /\ Do(o) \in Command /\ Dont(o) \in Command
    BY CommandFacts
  <2>4. Carries(<<>>, Will(o), Wont(o), <<>>) /\ Carries(<<>>, Do(o), Dont(o), <<>>)
    BY <2>2, <2>3
  <2>5. Linked("NO", "NO", <<>>, <<>>)
    BY DEF Linked
  <2> QED
    BY <1>1, <2>1, <2>4, <2>5, PeerFacts DEF Performed, Pair
<1> QED
  BY <1>2, <1>3 DEF Agree

\* When nothing is under way the link is silence.
LEMMA QuietMeans ==
    ASSUME TypeOK, Agree
    PROVE  QuietAgree
<1> SUFFICES ASSUME Quiet, NEW e \in End, NEW o \in Option
             PROVE  us[e][o] = him[Peer(e)][o] /\ us[e][o] \in {"NO", "YES"}
  BY DEF QuietAgree
<1>1. chan[e] = <<>> /\ chan[Peer(e)] = <<>>
  BY PeerFacts DEF Quiet
<1>2. PICK a \in Says, b \in Says :
        /\ Carries(chan[Peer(e)], Will(o), Wont(o), a)
        /\ Carries(chan[e], Do(o), Dont(o), b)
        /\ Linked(us[e][o], him[Peer(e)][o], a, b)
  BY DEF Agree, Performed, Pair
<1>3. Will(o) \in Command /\ Wont(o) \in Command /\ Do(o) \in Command /\ Dont(o) \in Command
  BY CommandFacts
<1>4. ASSUME NEW yes \in Command, NEW no \in Command, NEW s \in Says,
             Carries(<<>>, yes, no, s)
      PROVE  s = <<>>
  <2>1. s \in Seq(YesNo)
    BY SaysTyped
  <2>2. PICK S \in Seq(Command) : S = Encode(s, yes, no)
    BY <2>1, EncodeMembers
  <2>3. S = <<>>
    BY <1>4, <2>2, SubEmpty DEF Carries
  <2>4. Encode(s, yes, no) = <<>> <=> s = <<>>
    BY <2>1, EncodeTail, Zenon
  <2> QED
    BY <2>2, <2>3, <2>4
<1>5. a = <<>> /\ b = <<>>
  BY <1>1, <1>2, <1>3, <1>4
<1> QED
  BY <1>2, <1>5, SaysFacts DEF Linked, OneWay

\* It starts true, every step keeps it, and it says enough.
LEMMA AgreementInductive ==
    ASSUME \A g \in Games : ~g.unruly => Compatible(g)
    PROVE  /\ Init => AInv
           /\ AInv /\ TypeOK /\ [Next]_vars => AInv'
           /\ AInv /\ TypeOK => QuietAgree
<1>1. Init => AInv
  BY InitAgrees DEF AInv
<1>2. ASSUME AInv, TypeOK, [Next]_vars PROVE AInv'
  <2>1. CASE UNCHANGED vars
    BY <1>2, <2>1 DEF vars, AInv, Agree, Performed, Tables, Fits, Proposes, Performs,
                      MayLatch, Accepts
  <2>2. CASE Next
    <3>1. game' = game
      BY <2>2 DEF Next, Receive, RenegotiateEnv, MccpxFails, GameAsks, GameSays, Ask
    <3> SUFFICES ASSUME ~game.unruly PROVE Agree' /\ Tables'
      BY <3>1 DEF AInv
    <3>2. Agree /\ Tables /\ Compatible(game)
      BY <1>2 DEF AInv, TypeOK
    <3>3. ASSUME NEW e \in End, Receive(e) PROVE Agree' /\ Tables'
      BY <1>2, <3>2, <3>3, ReceiveAgrees
    <3>4. CASE RenegotiateEnv \/ MccpxFails \/ \E o \in Option : GameAsks(o)
      BY <1>2, <3>2, <3>4, WishesAgree
    <3>5. ~ \E c \in Command : GameSays(c)
      BY DEF GameSays
    <3> QED
      BY <2>2, <3>3, <3>4, <3>5 DEF Next
  <2> QED
    BY <1>2, <2>1, <2>2
<1>3. AInv /\ TypeOK => QuietAgree
  BY QuietMeans DEF AInv, QuietAgree
<1> QED
  BY <1>1, <1>2, <1>3

(* When no command is under way the two ends agree on every option, with    *)
(* any game that follows the Q method and whose tables are compatible with  *)
(* those of telnet.c.                                                      *)
THEOREM QuietAgreeHolds ==
    ASSUME \A g \in Games : ~g.unruly => Compatible(g)
    PROVE  Spec => []QuietAgree
<1>1. /\ Init => AInv
      /\ AInv /\ TypeOK /\ [Next]_vars => AInv'
      /\ AInv /\ TypeOK => QuietAgree
  BY AgreementInductive
<1>2. Spec => []TypeOK
  BY TypeCorrect
<1> QED
  BY <1>1, <1>2, PTL DEF Spec

=============================================================================
