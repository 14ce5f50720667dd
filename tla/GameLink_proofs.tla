--------------------------- MODULE GameLink_proofs ---------------------------
(***************************************************************************)
(* Proofs about module GameLink, for any workloads, however long, and any   *)
(* charsets: type correctness, the security gate, what a game must have     *)
(* shown to pass it, that the browser learns the game's ECHO, and that its  *)
(* queue is attended to.                                                   *)
(*                                                                         *)
(* Every handler of an item ends alike (Done), so each is shown once to     *)
(* hand on a session that is in order (InOrder), and the invariant is shown *)
(* for all of them together.                                               *)
(***************************************************************************)
EXTENDS GameLink, SequenceTheorems, TLAPS

\* What locid tells a browser, and a browser locid.
Tidings == {m \in Message : /\ m.cmd = "ECHO" => m.arg \in {0, 1}
                            /\ m.cmd = "CHARSET" => m.arg \in Name}
Wishes == {m \in [cmd : {"TERM", "CHARSET", "DISCONNECT"}, arg : Nat \cup Name] :
              /\ m.cmd = "TERM" => m.arg \in Nat
              /\ m.cmd = "CHARSET" => m.arg \in Name}

\* What may be on its way to end e.
Arg == Nat \cup Name \cup Offer \cup {NoName}
Wording(e) ==
    {i \in [enc : Nat, say : Said, arg : Arg] :
        /\ i.say \in {"TEXT", "BEGIN"} => i.arg \in Nat
        /\ i.say = "ECHO" => i.arg \in {0, 1}
        /\ i.say = "REQUEST" => i.arg \in (IF e = Locid THEN Offer ELSE Name)
        /\ i.say = "ACCEPTED" => i.arg \in Name}

\* An end that still has something to send to e.
Speaking(e) == [us : QState, him : QState, enc : Nat, dec : Nat, made : Nat,
                out : Seq(Wording(e))]

Session == [st : {"BLOCKING", "UP", "CLOSING", "DOWN"}, check : SUBSET Check,
            due : BOOLEAN, q : Seq(Tidings), want : BOOLEAN, spoken : BOOLEAN,
            echo : {0, 1}, cs : BOOLEAN, charset : Name]
PageType == [ws : BOOLEAN, mode : {0, 1}, charset : Name, shown : Seq(Nat \cup Name)]
History == [sent : [End -> Nat], got : [End -> Seq(Nat)], spoke : SUBSET Check,
            failed : BOOLEAN, strayed : BOOLEAN, spanned : BOOLEAN,
            bypassed : BOOLEAN, hushed : BOOLEAN, refed : BOOLEAN, stalled : BOOLEAN,
            unsettled : BOOLEAN, disputed : BOOLEAN, dropped : BOOLEAN,
            closed : BOOLEAN]

TypeInv ==
    /\ lib \in [End -> EndType]
    /\ wire \in [End -> UNION {Seq(Wording(e)) : e \in End}]
    /\ \A e \in End : wire[e] \in Seq(Wording(e))
    /\ rx \in [left : 0 .. Len(wire[Locid]), dec : Nat, freed : BOOLEAN]
    /\ sess \in Session
    /\ page \in PageType
    /\ down \in Seq(Tidings)
    /\ up \in Seq(Wishes)
    /\ charset \in Name
    /\ plan \in PlanType
    /\ hist \in History

Without(c, q) == \A i \in DOMAIN q : q[i].cmd # c

(* While the checks are open, and for ever if they fail, no text has        *)
(* reached the browser or is on its way there.                             *)
GateInv ==
    /\ sess.st = "BLOCKING" => page.shown = <<>> /\ Without("TERM", down)
    /\ hist.failed => /\ sess.st \in {"CLOSING", "DOWN"}
                      /\ rx.left = 0
                      /\ page.shown = <<>>
                      /\ Without("TERM", down) /\ Without("TERM", sess.q)

\* Whatever is no longer asked for was shown.
Shown(s, h) == h.strayed \/ plan.check \ s.check \subseteq h.spoke
CheckInv ==
    /\ Shown(sess, hist)
    /\ sess.st = "UP" => sess.check = {}

\* The last message c of q says v.
Ends(c, q, v) ==
    \E i \in DOMAIN q :
        /\ q[i].cmd = c /\ q[i].arg = v
        /\ \A j \in DOMAIN q : j > i => q[j].cmd # c

(* What the browser will end up with, if q follows d: the last of q, or of  *)
(* d, or what it has.                                                      *)
Settles(c, q, d, has, v) ==
    \/ Ends(c, q, v)
    \/ Without(c, q) /\ Ends(c, d, v)
    \/ Without(c, q) /\ Without(c, d) /\ has = v
Learns(s) == s.spoken => Settles("ECHO", s.q, down, page.mode, s.echo)
EchoInv == page.ws /\ ~hist.failed => Learns(sess)

Inv == TypeInv /\ GateInv /\ CheckInv /\ EchoInv

-----------------------------------------------------------------------------
(* Compression *)

LEMMA HearingTypes ==
    ASSUME NEW s \in QState
    PROVE  /\ HearYes(s, TRUE) \in Transitions
           /\ HearNo(s) \in Transitions
           /\ AskYes(s) \in Transitions
           /\ AskNo(s) \in Transitions
<1>1. /\ <<>> \in Seq({"yes", "no"})
      /\ <<"yes">> \in Seq({"yes", "no"})
      /\ <<"no">> \in Seq({"yes", "no"})
  OBVIOUS
<1> QED
  BY <1>1 DEF QState, HearYes, HearNo, AskYes, AskNo, Transition, Stay, Transitions

LEMMA ItemType ==
    ASSUME NEW e, NEW enc \in Nat, NEW arg \in Nat, NEW say \in About
    PROVE  Item(enc, say, arg) \in Wording(e)
  BY DEF Item, Wording, About, Said, Arg

LEMMA SendType ==
    ASSUME NEW e, NEW s \in Speaking(e), NEW say, NEW arg,
           Item(s.enc, say, arg) \in Wording(e)
    PROVE  Send(s, say, arg) \in Speaking(e) /\ Send(s, say, arg).enc = s.enc
  BY AppendProperties DEF Send, Speaking

\* The answers of a transition, written through the encoder.
LEMMA AnswersType ==
    ASSUME NEW e, NEW out \in Seq(Wording(e)), NEW enc \in Nat,
           NEW say \in Seq({"yes", "no"}), NEW yes \in About, NEW no \in About
    PROVE  out \o [i \in DOMAIN say |-> Item(enc, IF say[i] = "yes" THEN yes ELSE no, 0)]
             \in Seq(Wording(e))
<1> DEFINE new == [i \in DOMAIN say |-> Item(enc, IF say[i] = "yes" THEN yes ELSE no, 0)]
<1>1. \A i \in DOMAIN say : Item(enc, IF say[i] = "yes" THEN yes ELSE no, 0) \in Wording(e)
  BY ItemType
<1>2. DOMAIN say = 1 .. Len(say) /\ Len(say) \in Nat
  OBVIOUS
<1>3. new \in Seq(Wording(e))
  BY <1>1, <1>2, IsASeq
<1> QED
  BY <1>3, ConcatProperties

LEMMA OursType ==
    ASSUME NEW e, NEW s \in Speaking(e), NEW t \in Transitions
    PROVE  Ours(s, t) \in Speaking(e)
<1>1. /\ s.out \in Seq(Wording(e)) /\ s.enc \in Nat
      /\ t.say \in Seq({"yes", "no"}) /\ t.state \in QState
  BY DEF Speaking, Transitions
<1>2. s.out \o [i \in DOMAIN t.say |-> Item(s.enc, IF t.say[i] = "yes" THEN "WILL" ELSE "WONT", 0)]
        \in Seq(Wording(e))
  BY <1>1, AnswersType DEF About
<1> QED
  BY <1>1, <1>2 DEF Ours, Speaking

LEMMA HisType ==
    ASSUME NEW e, NEW s \in Speaking(e), NEW t \in Transitions
    PROVE  His(s, t) \in Speaking(e)
<1>1. /\ s.out \in Seq(Wording(e)) /\ s.enc \in Nat
      /\ t.say \in Seq({"yes", "no"}) /\ t.state \in QState
  BY DEF Speaking, Transitions
<1>2. s.out \o [i \in DOMAIN t.say |-> Item(s.enc, IF t.say[i] = "yes" THEN "DO" ELSE "DONT", 0)]
        \in Seq(Wording(e))
  BY <1>1, AnswersType DEF About
<1> QED
  BY <1>1, <1>2 DEF His, Speaking

LEMMA EndSendType ==
    ASSUME NEW e, NEW s \in Speaking(e)
    PROVE  EndSend(s) \in Speaking(e)
<1>1. Ours(s, AskNo(s.us)) \in Speaking(e)
  BY HearingTypes, OursType DEF Speaking
<1> QED
  BY <1>1 DEF EndSend, Speaking

LEMMA EndRecvType ==
    ASSUME NEW e, NEW s \in Speaking(e)
    PROVE  EndRecv(s) \in Speaking(e)
<1>1. [s EXCEPT !.dec = 0] \in Speaking(e) /\ s.him \in QState
  BY DEF Speaking
<1>2. [s EXCEPT !.dec = 0].him = s.him
  BY DEF Speaking
<1> QED
  BY <1>1, <1>2, HearingTypes, HisType DEF EndRecv

LEMMA ChokeType ==
    ASSUME NEW e, NEW s \in Speaking(e), NEW c \in Choke(s)
    PROVE  c \in Speaking(e)
<1>1. [s EXCEPT !.dec = Garbled] \in Speaking(e)
  BY DEF Speaking, Garbled
<1> QED
  BY <1>1, EndRecvType DEF Choke

\* Whatever it hears, an end answers in words of MCCPX.
LEMMA HearType ==
    ASSUME NEW e, NEW s \in Speaking(e), NEW item, item.say \in About,
           item.say = "BEGIN" => item.arg \in Nat
    PROVE  Hear(s, item) \in Speaking(e)
<1>1. s.us \in QState /\ s.him \in QState /\ s.enc \in Nat /\ s.made \in Nat
  BY DEF Speaking
<1>2. ASSUME NEW t \in Transitions
      PROVE  HisSide(s, t) \in Speaking(e)
  <2>1. His(s, t) \in Speaking(e)
    BY HisType
  <2>2. His(s, t).us \in QState /\ His(s, t).enc \in Nat
    BY <2>1 DEF Speaking
  <2>3. Send(His(s, t), "ACCEPT", 0) \in Speaking(e)
    BY <2>1, <2>2, SendType, ItemType DEF About
  <2>4. Ours(Send(His(s, t), "ACCEPT", 0), AskYes(His(s, t).us)) \in Speaking(e)
    BY <2>2, <2>3, HearingTypes, OursType
  <2>5. EndRecv(His(s, t)) \in Speaking(e)
    BY <2>1, EndRecvType
  <2> QED
    BY <2>1, <2>4, <2>5 DEF HisSide
<1>3. ASSUME NEW t \in Transitions
      PROVE  OurSide(s, t) \in Speaking(e)
  <2>1. Ours(s, t) \in Speaking(e)
    BY OursType
  <2> QED
    BY <2>1, EndSendType DEF OurSide
<1>4. HearAccept(s) \in Speaking(e)
  <2>1. Send(s, "BEGIN", s.made + 1) \in Speaking(e) /\ Send(s, "BEGIN", s.enc) \in Speaking(e)
    BY <1>1, SendType, ItemType DEF About
  <2>2. ASSUME NEW b \in Speaking(e)
        PROVE  [b EXCEPT !.enc = s.made + 1, !.made = @ + 1] \in Speaking(e)
    <3>1. s.made + 1 \in Nat /\ b.made + 1 \in Nat
      BY <1>1 DEF Speaking
    <3>2. ASSUME NEW x \in Nat, NEW y \in Nat
          PROVE  [b EXCEPT !.enc = x, !.made = y] \in Speaking(e)
      BY DEF Speaking
    <3> QED
      BY <3>1, <3>2
  <2>3. [Send(s, "BEGIN", s.made + 1) EXCEPT !.enc = s.made + 1, !.made = @ + 1] \in Speaking(e)
    BY <2>1, <2>2
  <2> QED
    BY <2>1, <2>3 DEF HearAccept
<1>5. item.say = "BEGIN" => HearBegin(s, item.arg) \in Speaking(e)
  BY DEF HearBegin, Speaking
<1> QED
  BY <1>1, <1>2, <1>3, <1>4, <1>5, HearingTypes DEF Hear, About

\* Between two callbacks nothing is left to be sent.
LEMMA EndSpeaks ==
    ASSUME NEW e
    PROVE  /\ \A l \in EndType : l \in Speaking(e) /\ l.out = <<>>
           /\ \A l \in Speaking(e) : [l EXCEPT !.out = <<>>] \in EndType
<1>1. ASSUME NEW l \in EndType
      PROVE  l \in Speaking(e) /\ l.out = <<>>
  <2>1. l.out = <<>> /\ <<>> \in Seq(Wording(e))
    BY DEF EndType
  <2> QED
    BY <2>1 DEF EndType, Speaking
<1>2. ASSUME NEW l \in Speaking(e)
      PROVE  [l EXCEPT !.out = <<>>] \in EndType
  BY DEF EndType, Speaking
<1> QED
  BY <1>1, <1>2

-----------------------------------------------------------------------------
(* Queues *)

LEMMA RestType ==
    ASSUME NEW S, NEW q \in Seq(S), NEW n \in 1 .. Len(q)
    PROVE  /\ SubSeq(q, n + 1, Len(q)) \in Seq(S)
           /\ Len(SubSeq(q, n + 1, Len(q))) = Len(q) - n
<1>1. \A i \in n + 1 .. Len(q) : q[i] \in S
  OBVIOUS
<1>2. n + 1 \in Int /\ Len(q) \in Int
  OBVIOUS
<1> QED
  BY <1>1, <1>2, SubSeqProperties

\* Another message changes nothing, one that is c settles it.
LEMMA AppendEnds ==
    ASSUME NEW S, NEW q \in Seq(S), NEW m \in S, NEW c, NEW v
    PROVE  /\ m.cmd # c /\ Ends(c, q, v) => Ends(c, Append(q, m), v)
           /\ m.cmd = c /\ m.arg = v => Ends(c, Append(q, m), v)
           /\ \A x : m.cmd # x /\ Without(x, q) => Without(x, Append(q, m))
<1> DEFINE a == Append(q, m)
<1>1. /\ a \in Seq(S) /\ Len(a) = Len(q) + 1
      /\ \A i \in 1 .. Len(q) : a[i] = q[i]
      /\ a[Len(q) + 1] = m
  BY AppendProperties
<1>2. DOMAIN a = 1 .. Len(q) + 1 /\ DOMAIN q = 1 .. Len(q) /\ Len(q) \in Nat
  BY <1>1
<1> HIDE DEF a
<1>3. ASSUME m.cmd # c, Ends(c, q, v)
      PROVE  Ends(c, a, v)
  <2>1. PICK i \in DOMAIN q : /\ q[i].cmd = c /\ q[i].arg = v
                              /\ \A j \in DOMAIN q : j > i => q[j].cmd # c
    BY <1>3 DEF Ends
  <2>2. i \in DOMAIN a /\ a[i].cmd = c /\ a[i].arg = v
    BY <1>1, <1>2, <2>1
  <2>3. \A j \in DOMAIN a : j > i => a[j].cmd # c
    BY <1>1, <1>2, <1>3, <2>1
  <2> QED
    BY <2>2, <2>3 DEF Ends
<1>4. ASSUME m.cmd = c, m.arg = v
      PROVE  Ends(c, a, v)
  <2>1. Len(q) + 1 \in DOMAIN a /\ \A j \in DOMAIN a : ~(j > Len(q) + 1)
    BY <1>2
  <2> QED
    BY <1>1, <1>4, <2>1 DEF Ends
<1>5. ASSUME NEW x, m.cmd # x, Without(x, q)
      PROVE  Without(x, a)
  BY <1>1, <1>2, <1>5 DEF Without
<1> QED
  BY <1>3, <1>4, <1>5 DEF a

\* The first of a queue, and the rest.
LEMMA TailEnds ==
    ASSUME NEW S, NEW q \in Seq(S), q # <<>>, NEW c, NEW v
    PROVE  /\ Ends(c, q, v) => \/ Ends(c, Tail(q), v)
                            \/ /\ Head(q).cmd = c /\ Head(q).arg = v
                               /\ Without(c, Tail(q))
           /\ \A x : Without(x, q) => Head(q).cmd # x /\ Without(x, Tail(q))
<1> DEFINE t == Tail(q)
<1>1. /\ t \in Seq(S) /\ Len(t) = Len(q) - 1
      /\ \A i \in 1 .. Len(t) : t[i] = q[i + 1]
  BY HeadTailProperties
<1>2. /\ DOMAIN t = 1 .. Len(t) /\ DOMAIN q = 1 .. Len(q)
      /\ Len(q) \in Nat /\ Len(t) \in Nat /\ 1 \in DOMAIN q /\ Head(q) = q[1]
  BY <1>1
<1> HIDE DEF t
<1>3. ASSUME Ends(c, q, v)
      PROVE  \/ Ends(c, t, v)
             \/ /\ Head(q).cmd = c /\ Head(q).arg = v /\ Without(c, t)
  <2>1. PICK i \in DOMAIN q : /\ q[i].cmd = c /\ q[i].arg = v
                              /\ \A j \in DOMAIN q : j > i => q[j].cmd # c
    BY <1>3 DEF Ends
  <2>2. \A j \in DOMAIN t : j + 1 > i => t[j].cmd # c
    BY <1>1, <1>2, <2>1
  <2>3. CASE i = 1
    <3>1. Without(c, t)
      BY <1>2, <2>2, <2>3 DEF Without
    <3> QED
      BY <1>2, <2>1, <2>3, <3>1
  <2>4. CASE i # 1
    <3>1. i - 1 \in DOMAIN t /\ t[i - 1] = q[i]
      BY <1>1, <1>2, <2>4
    <3>2. \A j \in DOMAIN t : j > i - 1 => t[j].cmd # c
      BY <1>2, <2>2
    <3> QED
      BY <2>1, <3>1, <3>2 DEF Ends
  <2> QED
    BY <2>3, <2>4
<1>4. ASSUME NEW x, Without(x, q)
      PROVE  Head(q).cmd # x /\ Without(x, t)
  <2>1. \A i \in DOMAIN t : i + 1 \in DOMAIN q /\ t[i] = q[i + 1]
    BY <1>1, <1>2
  <2> QED
    BY <1>2, <1>4, <2>1 DEF Without
<1> QED
  BY <1>3, <1>4 DEF t

\* A message goes over to the browser, or is read there: all the same.
LEMMA MoveSettles ==
    ASSUME NEW q \in Seq(Tidings), q # <<>>, NEW d \in Seq(Tidings), NEW c, NEW has, NEW v,
           Settles(c, q, d, has, v)
    PROVE  Settles(c, Tail(q), Append(d, Head(q)), has, v)
<1>1. Head(q) \in Tidings
  BY HeadTailProperties
<1>2. CASE Ends(c, q, v)
  BY <1>1, <1>2, TailEnds, AppendEnds DEF Settles
<1>3. CASE Without(c, q)
  <2>1. Head(q).cmd # c /\ Without(c, Tail(q))
    BY <1>3, TailEnds
  <2>2. Ends(c, q, v) => Ends(c, Tail(q), v)
    BY <2>1, TailEnds
  <2>3. /\ Ends(c, d, v) => Ends(c, Append(d, Head(q)), v)
        /\ Without(c, d) => Without(c, Append(d, Head(q)))
    BY <1>1, <2>1, AppendEnds
  <2> QED
    BY <2>1, <2>2, <2>3 DEF Settles
<1> QED
  BY <1>2, <1>3 DEF Settles

LEMMA ReadSettles ==
    ASSUME NEW q, NEW d \in Seq(Tidings), d # <<>>, NEW c, NEW has, NEW v,
           Settles(c, q, d, has, v)
    PROVE  Settles(c, q, Tail(d), IF Head(d).cmd = c THEN Head(d).arg ELSE has, v)
<1>1. /\ Ends(c, d, v) => \/ Ends(c, Tail(d), v)
                       \/ /\ Head(d).cmd = c /\ Head(d).arg = v
                          /\ Without(c, Tail(d))
      /\ Without(c, d) => Head(d).cmd # c /\ Without(c, Tail(d))
  BY TailEnds
<1> QED
  BY <1>1 DEF Settles

-----------------------------------------------------------------------------
(* The session, as a handler makes it *)

\* t is what a handler may make of s.
Follows(s, t) ==
    /\ t \in Session
    /\ t.st = s.st
    /\ t.check \subseteq s.check
    /\ Learns(s) => Learns(t)

LEMMA FollowsTrans ==
    ASSUME NEW s, NEW t, NEW u, Follows(s, t), Follows(t, u)
    PROVE  Follows(s, u)
  BY DEF Follows

LEMMA PushFields ==
    ASSUME TypeInv, NEW s \in Session, NEW cmd, NEW arg, Msg(cmd, arg) \in Tidings
    PROVE  /\ Push(s, cmd, arg) \in Session
           /\ Push(s, cmd, arg).q = Append(s.q, Msg(cmd, arg))
           /\ Push(s, cmd, arg).st = s.st
           /\ Push(s, cmd, arg).check = s.check
           /\ Push(s, cmd, arg).spoken = s.spoken
           /\ Push(s, cmd, arg).echo = s.echo
<1>1. page.ws \in BOOLEAN
  BY DEF TypeInv, PageType
<1>2. Append(s.q, Msg(cmd, arg)) \in Seq(Tidings)
  BY AppendProperties DEF Session
<1>3. (s.want \/ page.ws) \in BOOLEAN
  OBVIOUS
<1>4. ASSUME NEW q \in Seq(Tidings), NEW w \in BOOLEAN
      PROVE  LET t == [s EXCEPT !.q = q, !.want = w]
             IN  /\ t \in Session /\ t.q = q
                 /\ t.st = s.st /\ t.check = s.check
                 /\ t.spoken = s.spoken /\ t.echo = s.echo
  BY DEF Session
<1> QED
  BY <1>2, <1>3, <1>4 DEF Push

LEMMA PushFollows ==
    ASSUME TypeInv, NEW s \in Session, NEW cmd, NEW arg, Msg(cmd, arg) \in Tidings,
           cmd # "ECHO"
    PROVE  Follows(s, Push(s, cmd, arg))
<1> DEFINE t == Push(s, cmd, arg)
<1>1. /\ t \in Session /\ t.q = Append(s.q, Msg(cmd, arg))
      /\ t.st = s.st /\ t.check = s.check /\ t.spoken = s.spoken /\ t.echo = s.echo
  BY PushFields
<1>2. s.q \in Seq(Tidings) /\ Msg(cmd, arg).cmd = cmd
  BY DEF Session, Msg
<1> HIDE DEF t
<1>3. Learns(s) => Learns(t)
  BY <1>1, <1>2, AppendEnds DEF Learns, Settles
<1> QED
  BY <1>1, <1>3 DEF Follows, t

\* Told of the mode, the browser learns it.
LEMMA PushEchoFollows ==
    ASSUME TypeInv, NEW s \in Session
    PROVE  Follows(s, PushEcho(s)) /\ Learns(PushEcho(s)) /\ PushEcho(s).check = s.check
<1>1. CASE s.spoken
  <2> DEFINE t == Push(s, "ECHO", s.echo)
  <2>1. s.q \in Seq(Tidings) /\ s.echo \in {0, 1}
    BY DEF Session
  <2>2. Msg("ECHO", s.echo) \in Tidings
    BY <2>1 DEF Msg, Tidings, Message
  <2>3. /\ t \in Session /\ t.q = Append(s.q, Msg("ECHO", s.echo))
        /\ t.st = s.st /\ t.check = s.check /\ t.echo = s.echo
    BY <2>2, PushFields
  <2>4. Ends("ECHO", Append(s.q, Msg("ECHO", s.echo)), s.echo)
    BY <2>1, <2>2, AppendEnds DEF Msg
  <2> HIDE DEF t
  <2>5. Learns(t)
    BY <2>3, <2>4 DEF Learns, Settles
  <2> QED
    BY <1>1, <2>3, <2>5 DEF PushEcho, Follows, t
<1>2. CASE ~s.spoken
  BY <1>2 DEF PushEcho, Follows, Learns
<1> QED
  BY <1>1, <1>2

LEMMA ShowFollows ==
    ASSUME TypeInv, NEW s \in Session, NEW n \in Nat
    PROVE  Follows(s, Show(s, n)) /\ Show(s, n).check = s.check
<1> DEFINE t == [s EXCEPT !.spoken = TRUE]
           u == IF s.spoken THEN s ELSE PushEcho(t)
<1>1. t \in Session /\ t.st = s.st /\ t.check = s.check
  BY DEF Session
<1> HIDE DEF t
<1>2. Follows(s, u) /\ u.check = s.check
  <2>1. Follows(t, PushEcho(t)) /\ Learns(PushEcho(t)) /\ PushEcho(t).check = t.check
    BY <1>1, PushEchoFollows
  <2> QED
    BY <1>1, <2>1 DEF Follows
<1>3. Msg("TERM", n) \in Tidings
  BY DEF Msg, Tidings, Message
<1>4. Follows(u, Push(u, "TERM", n)) /\ Push(u, "TERM", n).check = u.check
  BY <1>2, <1>3, PushFollows, PushFields DEF Follows
<1> QED
  BY <1>2, <1>4, FollowsTrans DEF Show, t

LEMMA CheckedFollows ==
    ASSUME NEW s \in Session, NEW flags
    PROVE  /\ Follows(s, Checked(s, flags))
           /\ Checked(s, flags).check = s.check \ flags
<1>1. s.check \ flags \in SUBSET Check
  BY DEF Session
<1>2. ASSUME NEW c \in SUBSET Check
      PROVE  LET t == [s EXCEPT !.check = c]
             IN  /\ t \in Session /\ t.check = c /\ t.st = s.st
                 /\ t.q = s.q /\ t.spoken = s.spoken /\ t.echo = s.echo
  BY DEF Session
<1> QED
  BY <1>1, <1>2 DEF Checked, Follows, Learns

\* What a subnegotiation read by mistake does.
LEMMA StrayFollows ==
    ASSUME TypeInv, NEW s \in Session, NEW opt
    PROVE  Follows(s, Stray(s, opt)) /\ (opt = "none" => Stray(s, opt) = s)
<1>1. Follows(s, Checked(s, {"MUD"})) /\ Follows(s, Checked(s, {"MSSP"})) /\ Follows(s, s)
  BY CheckedFollows DEF Follows
<1>2. Msg("GMCP", 0) \in Tidings
  BY DEF Msg, Tidings, Message
<1>3. Follows(Checked(s, {"MUD"}), Push(Checked(s, {"MUD"}), "GMCP", 0))
  BY <1>1, <1>2, PushFollows DEF Follows
<1> QED
  BY <1>1, <1>3, FollowsTrans DEF Stray

LEMMA CharsetFollows ==
    ASSUME NEW s \in Session, NEW c \in Name, NEW b \in BOOLEAN
    PROVE  /\ Follows(s, [s EXCEPT !.charset = c])
           /\ Follows(s, [s EXCEPT !.cs = b])
           /\ [s EXCEPT !.charset = c].check = s.check
           /\ [s EXCEPT !.cs = b].check = s.check
           /\ [s EXCEPT !.cs = b].charset = s.charset
  BY DEF Session, Follows, Learns

-----------------------------------------------------------------------------
(* The end of a handler *)

\* The running call goes on with what is left.
Calls == [left : {rx.left}, dec : Nat, freed : BOOLEAN]

LEMMA UnblockedFields ==
    ASSUME NEW s \in Session
    PROVE  LET t == Unblocked(s) IN
           /\ t \in Session
           /\ t.st = s.st \/ (t.st = "UP" /\ t.check = {})
           /\ t.check = s.check /\ t.q = s.q /\ t.spoken = s.spoken /\ t.echo = s.echo
  BY DEF Unblocked, Session

\* However the item was handled, the invariant holds when it is done with.
LEMMA DoneInv ==
    ASSUME Inv,
           NEW n \in 1 .. rx.left, NEW l \in Speaking(Game), NEW s, Follows(sess, s),
           NEW r \in Calls,
           Done(n, l, s, r), hist' \in History, hist'.failed = hist.failed,
           Shown(s, hist')
    PROVE  Inv'
<1>1. /\ lib \in [End -> EndType] /\ wire \in [End -> UNION {Seq(Wording(e)) : e \in End}]
      /\ wire[Locid] \in Seq(Wording(Locid)) /\ wire[Game] \in Seq(Wording(Game))
      /\ Locid \in End /\ Game \in End /\ End = {Locid, Game}
      /\ rx.left \in 0 .. Len(wire[Locid])
  BY DEF Inv, TypeInv, End
<1>2. /\ lib' = [lib EXCEPT ![Locid] = [l EXCEPT !.out = <<>>]]
      /\ wire' = [wire EXCEPT ![Locid] = SubSeq(@, n + 1, Len(@)), ![Game] = @ \o l.out]
      /\ sess' = IF r.left = n THEN Unblocked(s) ELSE s
      /\ rx' = IF r.left = n THEN NotReading ELSE [r EXCEPT !.left = @ - n]
      /\ page' = page /\ down' = down /\ up' = up /\ charset' = charset /\ plan' = plan
  BY DEF Done
<1>3. lib' \in [End -> EndType]
  BY <1>1, <1>2, EndSpeaks
<1>4. n \in 1 .. Len(wire[Locid])
  BY <1>1
<1>5. /\ SubSeq(wire[Locid], n + 1, Len(wire[Locid])) \in Seq(Wording(Locid))
      /\ Len(SubSeq(wire[Locid], n + 1, Len(wire[Locid]))) = Len(wire[Locid]) - n
  BY <1>1, <1>4, RestType
<1>6. wire[Game] \o l.out \in Seq(Wording(Game))
  BY <1>1, ConcatProperties DEF Speaking
<1>7. /\ wire'[Locid] = SubSeq(wire[Locid], n + 1, Len(wire[Locid]))
      /\ wire'[Game] = wire[Game] \o l.out
  BY <1>1, <1>2, EndsAssumption
<1>8. wire' \in [End -> UNION {Seq(Wording(e)) : e \in End}]
  BY <1>1, <1>2, <1>5, <1>6
<1>9. \A e \in End : wire'[e] \in Seq(Wording(e))
  BY <1>1, <1>5, <1>6, <1>7
<1>10. rx' \in [left : 0 .. Len(wire'[Locid]), dec : Nat, freed : BOOLEAN]
  <2>1. Len(wire'[Locid]) = Len(wire[Locid]) - n /\ Len(wire[Locid]) \in Nat
    BY <1>1, <1>5, <1>7
  <2>2. r.left = rx.left /\ r.dec \in Nat /\ r.freed \in BOOLEAN
    BY DEF Calls
  <2>3. rx.left - n \in 0 .. Len(wire'[Locid]) /\ 0 \in 0 .. Len(wire'[Locid])
    BY <1>1, <2>1
  <2>4. [r EXCEPT !.left = @ - n] = [left |-> rx.left - n, dec |-> r.dec, freed |-> r.freed]
    BY <2>2 DEF Calls
  <2> QED
    BY <1>2, <2>2, <2>3, <2>4 DEF NotReading
<1>11. /\ sess' \in Session
       /\ sess'.st = s.st \/ (sess'.st = "UP" /\ sess'.check = {})
       /\ sess'.check = s.check /\ sess'.q = s.q
       /\ sess'.spoken = s.spoken /\ sess'.echo = s.echo
  BY <1>2, UnblockedFields DEF Follows
<1>12. s.st = sess.st /\ s.check \subseteq sess.check /\ (Learns(sess) => Learns(s))
  BY DEF Follows
<1>13. TypeInv'
  BY <1>2, <1>3, <1>8, <1>9, <1>10, <1>11 DEF Inv, TypeInv, PageType
<1>14. ~hist'.failed
  BY <1>1 DEF Inv, GateInv
<1>15. GateInv'
  BY <1>2, <1>11, <1>12, <1>14 DEF Inv, GateInv, Without
<1>16. CheckInv'
  BY <1>2, <1>11, <1>12 DEF Inv, CheckInv, Shown
<1>17. EchoInv'
  BY <1>2, <1>11, <1>12, <1>14 DEF Inv, EchoInv, Learns
<1> QED
  BY <1>13, <1>15, <1>16, <1>17 DEF Inv

-----------------------------------------------------------------------------
(* The handlers *)

LEMMA ReadFacts ==
    ASSUME TypeInv, rx.left > 0
    PROVE  /\ It \in Wording(Locid)
           /\ 1 \in 1 .. rx.left /\ rx.left \in 1 .. rx.left /\ rx \in Calls
           /\ lib[Locid] \in Speaking(Game)
           /\ sess \in Session /\ Follows(sess, sess)
<1>1. wire[Locid] \in Seq(Wording(Locid)) /\ Locid \in End /\ rx.left \in 0 .. Len(wire[Locid])
  BY DEF TypeInv, End
<1>2. wire[Locid] # <<>> /\ Len(wire[Locid]) \in Nat
  BY <1>1
<1>3. It \in Wording(Locid)
  BY <1>1, <1>2, HeadTailProperties DEF It
<1>4. lib[Locid] \in Speaking(Game)
  BY <1>1, EndSpeaks DEF TypeInv
<1> QED
  BY <1>1, <1>2, <1>3, <1>4 DEF TypeInv, Calls, Follows

\* A game that showed what it is no longer asked for.
LEMMA Witnessed ==
    ASSUME Shown(sess, hist), NEW s, NEW h, NEW flags,
           s.check = sess.check \ flags, h.strayed = hist.strayed,
           h.spoke = hist.spoke \cup flags
    PROVE  Shown(s, h)
  BY DEF Shown

LEMMA SpokeFields ==
    ASSUME TypeInv, NEW flags \in SUBSET Check
    PROVE  LET h == [hist EXCEPT !.spoke = @ \cup flags] IN
           /\ h \in History /\ h.failed = hist.failed
           /\ h.strayed = hist.strayed /\ h.spoke = hist.spoke \cup flags
<1>1. hist.spoke \cup flags \in SUBSET Check /\ hist \in History
  BY DEF TypeInv, History
<1> QED
  BY <1>1 DEF History

LEMMA RxTextInv ==
    ASSUME Inv, RxText
    PROVE  Inv'
<1>1. rx.left > 0 /\ It.say = "TEXT" /\ TypeInv
  BY DEF Inv, RxText, Reads
<1>2. It.arg \in Nat
  BY <1>1, ReadFacts DEF Wording
<1>3. Follows(sess, Show(sess, It.arg)) /\ Show(sess, It.arg).check = sess.check
  BY <1>1, <1>2, ReadFacts, ShowFollows
<1>4. /\ hist' \in History /\ hist'.failed = hist.failed
      /\ hist'.strayed = hist.strayed /\ hist'.spoke = hist.spoke
  <2>1. hist \in History /\ Locid \in End
    BY <1>1 DEF TypeInv, End
  <2>2. Append(hist.got[Locid], It.arg) \in Seq(Nat)
    BY <1>2, <2>1, AppendProperties DEF History
  <2>3. ASSUME NEW g \in Seq(Nat)
        PROVE  LET h == [hist EXCEPT !.got[Locid] = g] IN
               /\ h \in History /\ h.failed = hist.failed
               /\ h.strayed = hist.strayed /\ h.spoke = hist.spoke
    BY <2>1 DEF History
  <2> QED
    BY <2>2, <2>3 DEF RxText
<1>5. Shown(Show(sess, It.arg), hist')
  BY <1>3, <1>4 DEF Inv, CheckInv, Shown
<1> QED
  BY <1>1, <1>3, <1>4, <1>5, ReadFacts, DoneInv DEF RxText

\* A handler that ticks off flags, and shows the browser something or nothing.
LEMMA ProvedInv ==
    ASSUME Inv, rx.left > 0, NEW flags \in SUBSET Check, NEW l \in Speaking(Game), NEW s,
           Follows(sess, s), s.check = sess.check \ flags,
           Done(1, l, s, rx), hist' = [hist EXCEPT !.spoke = @ \cup flags]
    PROVE  Inv'
<1>1. TypeInv /\ Shown(sess, hist)
  BY DEF Inv, CheckInv
<1>2. /\ hist' \in History /\ hist'.failed = hist.failed
      /\ hist'.strayed = hist.strayed /\ hist'.spoke = hist.spoke \cup flags
  BY <1>1, SpokeFields
<1>3. Shown(s, hist')
  BY <1>1, <1>2 DEF Shown
<1> QED
  BY <1>1, <1>2, <1>3, ReadFacts, DoneInv

LEMMA CheckedReads ==
    ASSUME TypeInv, rx.left > 0, NEW flags
    PROVE  /\ Follows(sess, Checked(sess, flags)) /\ Checked(sess, flags) \in Session
           /\ Checked(sess, flags).check = sess.check \ flags
  BY ReadFacts, CheckedFollows DEF Follows

LEMMA RxMccpxInv ==
    ASSUME Inv, NEW stray, RxMccpx(stray)
    PROVE  Inv'
<1> DEFINE l == Hear(lib[Locid], It)
           flags == Proves(lib[Locid], It)
           s == Stray(Checked(sess, flags), stray)
<1>1. rx.left > 0 /\ It.say \in About /\ TypeInv /\ Shown(sess, hist)
  BY DEF Inv, CheckInv, RxMccpx, Reads
<1>2. It.say = "BEGIN" => It.arg \in Nat
  BY <1>1, ReadFacts DEF Wording
<1>3. l \in Speaking(Game)
  BY <1>1, <1>2, ReadFacts, HearType
<1>4. /\ Follows(sess, Checked(sess, flags)) /\ Checked(sess, flags) \in Session
      /\ Checked(sess, flags).check = sess.check \ flags
  BY <1>1, CheckedReads
<1>5. Follows(sess, s) /\ (stray = "none" => s.check = sess.check \ flags)
  BY <1>1, <1>4, StrayFollows, FollowsTrans
<1>6. CallOn(l) \in Calls
  <2>1. l.dec \in Nat
    BY <1>3 DEF Speaking
  <2> HIDE DEF l
  <2> QED
    BY <1>1, <2>1, ReadFacts DEF CallOn, Calls
<1>7. flags \in SUBSET Check
  BY DEF Proves, Check
<1>8. /\ Done(1, l, s, CallOn(l))
      /\ hist' = [hist EXCEPT !.spoke = @ \cup flags,
                              !.strayed = @ \/ stray # "none",
                              !.hushed = @ \/ Hushed(lib[Locid], l)]
  BY DEF RxMccpx
<1>9. /\ hist' \in History /\ hist'.failed = hist.failed
      /\ hist'.strayed = (hist.strayed \/ stray # "none")
      /\ hist'.spoke = hist.spoke \cup flags
  <2>1. hist.spoke \cup flags \in SUBSET Check
    BY <1>1, <1>7 DEF TypeInv, History
  <2> DEFINE strayed == hist.strayed \/ stray # "none"
             hushed == hist.hushed \/ Hushed(lib[Locid], l)
  <2>2. strayed \in BOOLEAN /\ hushed \in BOOLEAN
    OBVIOUS
  <2>3. hist' = [hist EXCEPT !.spoke = hist.spoke \cup flags, !.strayed = strayed,
                             !.hushed = hushed]
    BY <1>8
  <2>4. strayed = (hist.strayed \/ stray # "none")
    OBVIOUS
  <2> DEFINE spoke == hist.spoke \cup flags
  <2> HIDE DEF flags, strayed, hushed
  <2>5. spoke \in SUBSET Check /\ hist' = [hist EXCEPT !.spoke = spoke, !.strayed = strayed,
                                                      !.hushed = hushed]
    BY <2>1, <2>3
  <2>6. spoke = hist.spoke \cup flags
    OBVIOUS
  <2> HIDE DEF spoke
  <2>7. /\ hist' \in History /\ hist'.failed = hist.failed
        /\ hist'.strayed = strayed /\ hist'.spoke = spoke
    BY <1>1, <2>2, <2>5 DEF TypeInv, History
  <2> QED
    BY <2>4, <2>6, <2>7
<1> HIDE DEF l, s, flags
<1>10. Shown(s, hist')
  BY <1>1, <1>5, <1>9 DEF Shown
<1> QED
  BY <1>1, <1>3, <1>5, <1>6, <1>8, <1>9, <1>10, ReadFacts, DoneInv

LEMMA RxAcceptInv ==
    ASSUME Inv, RxAccept
    PROVE  Inv'
<1> DEFINE l == Hear(lib[Locid], It)
           flags == Proves(lib[Locid], It)
           s == Checked(sess, flags)
<1>1. rx.left > 0 /\ It.say \in About /\ It.say # "BEGIN" /\ TypeInv /\ Shown(sess, hist)
  BY DEF Inv, CheckInv, RxAccept, Reads, About
<1>2. l \in Speaking(Game)
  BY <1>1, ReadFacts, HearType
<1>3. Follows(sess, s) /\ s.check = sess.check \ flags
  BY <1>1, CheckedReads
<1>4. flags \in SUBSET Check
  BY DEF Proves, Check
<1>5. PICK c \in Choke(l) : Done(rx.left, c, s, rx)
  BY DEF RxAccept
<1>6. hist' = [hist EXCEPT !.spoke = @ \cup flags, !.refed = TRUE]
  BY DEF RxAccept
<1> HIDE DEF l, s, flags
<1>7. c \in Speaking(Game)
  BY <1>2, <1>5, ChokeType
<1>8. /\ hist' \in History /\ hist'.failed = hist.failed
      /\ hist'.strayed = hist.strayed /\ hist'.spoke = hist.spoke \cup flags
  <2>1. hist.spoke \cup flags \in SUBSET Check /\ hist \in History
    BY <1>1, <1>4 DEF TypeInv, History
  <2> QED
    BY <1>6, <2>1 DEF History
<1>9. Shown(s, hist')
  BY <1>1, <1>3, <1>8 DEF Shown
<1> QED
  BY <1>1, <1>3, <1>5, <1>7, <1>8, <1>9, ReadFacts, DoneInv

LEMMA RxEchoInv ==
    ASSUME Inv, RxEcho
    PROVE  Inv'
<1> DEFINE e == [sess EXCEPT !.echo = It.arg]
           s == Checked(e, {"TELNET"})
<1>1. rx.left > 0 /\ It.say = "ECHO" /\ TypeInv
  BY DEF Inv, RxEcho, Reads
<1>2. It.arg \in {0, 1} /\ sess \in Session
  BY <1>1, ReadFacts DEF Wording
<1>3. e \in Session /\ e.st = sess.st /\ e.check = sess.check
  BY <1>2 DEF Session
<1> HIDE DEF e
<1>4. s \in Session /\ s.st = sess.st /\ s.check = sess.check \ {"TELNET"}
  BY <1>3, CheckedFollows DEF Follows
<1> HIDE DEF s
<1>5. Follows(s, PushEcho(s)) /\ Learns(PushEcho(s)) /\ PushEcho(s).check = s.check
  BY <1>1, <1>4, PushEchoFollows
<1>6. Follows(sess, PushEcho(s)) /\ PushEcho(s).check = sess.check \ {"TELNET"}
  BY <1>4, <1>5 DEF Follows
<1>7. /\ Done(1, lib[Locid], PushEcho(s), rx)
      /\ hist' = [hist EXCEPT !.spoke = @ \cup {"TELNET"}]
  BY DEF RxEcho, s, e
<1>8. {"TELNET"} \in SUBSET Check
  BY DEF Check
<1> QED
  BY <1>1, <1>6, <1>7, <1>8, ReadFacts, ProvedInv

LEMMA RxGmcpInv ==
    ASSUME Inv, RxGmcp
    PROVE  Inv'
<1> DEFINE s == Checked(sess, {"TELNET", "MUD"})
<1>1. rx.left > 0 /\ TypeInv /\ {"TELNET", "MUD"} \in SUBSET Check
  BY DEF Inv, RxGmcp, Reads, Check
<1>2. Follows(sess, s) /\ s \in Session /\ s.check = sess.check \ {"TELNET", "MUD"}
  BY <1>1, CheckedReads
<1>3. Msg("GMCP", 1) \in Tidings
  BY DEF Msg, Tidings, Message
<1>4. Follows(s, Push(s, "GMCP", 1)) /\ Push(s, "GMCP", 1).check = s.check
  BY <1>1, <1>2, <1>3, PushFollows, PushFields
<1>5. Follows(sess, Push(s, "GMCP", 1))
  BY <1>2, <1>4, FollowsTrans
<1> QED
  BY <1>1, <1>2, <1>4, <1>5, ReadFacts, ProvedInv DEF RxGmcp

LEMMA RxMsspInv ==
    ASSUME Inv, RxMssp
    PROVE  Inv'
<1>1. rx.left > 0 /\ TypeInv /\ hist.spoke \subseteq Check
  BY DEF Inv, TypeInv, History, RxMssp, Reads
<1>2. /\ Follows(sess, Checked(sess, Check))
      /\ Checked(sess, Check).check = sess.check \ Check
  BY <1>1, CheckedReads
<1>3. hist' = [hist EXCEPT !.spoke = @ \cup Check]
  BY <1>1 DEF RxMssp
<1> QED
  BY <1>1, <1>2, <1>3, ReadFacts, ProvedInv DEF RxMssp

LEMMA RxDontInv ==
    ASSUME Inv, NEW stray, RxDont(stray)
    PROVE  Inv'
<1> DEFINE c == Checked(sess, {"TELNET"})
           s == Stray(c, stray)
<1>1. rx.left > 0 /\ TypeInv /\ Shown(sess, hist)
  BY DEF Inv, CheckInv, RxDont, Reads
<1>2. Follows(sess, c) /\ c \in Session /\ c.check = sess.check \ {"TELNET"}
  BY <1>1, CheckedReads
<1> HIDE DEF c
<1>3. Follows(sess, s) /\ (stray = "none" => s.check = sess.check \ {"TELNET"})
  BY <1>1, <1>2, StrayFollows, FollowsTrans
<1>4. /\ Done(1, lib[Locid], s, rx)
      /\ hist' = [hist EXCEPT !.spoke = @ \cup {"TELNET"}, !.strayed = @ \/ stray # "none"]
  BY DEF RxDont, c
<1>5. /\ hist' \in History /\ hist'.failed = hist.failed
      /\ hist'.strayed = (hist.strayed \/ stray # "none")
      /\ hist'.spoke = hist.spoke \cup {"TELNET"}
  <2>1. ASSUME NEW sp \in SUBSET Check, NEW b \in BOOLEAN
        PROVE  LET h == [hist EXCEPT !.spoke = sp, !.strayed = b] IN
               /\ h \in History /\ h.failed = hist.failed /\ h.strayed = b /\ h.spoke = sp
    BY <1>1 DEF TypeInv, History
  <2>2. hist.spoke \cup {"TELNET"} \in SUBSET Check
    BY <1>1 DEF TypeInv, History, Check
  <2>3. (hist.strayed \/ stray # "none") \in BOOLEAN
    OBVIOUS
  <2> QED
    BY <1>4, <2>1, <2>2, <2>3
<1> HIDE DEF s
<1>6. Shown(s, hist')
  BY <1>1, <1>3, <1>5 DEF Shown
<1> QED
  BY <1>1, <1>3, <1>4, <1>5, <1>6, ReadFacts, DoneInv

LEMMA RxAytInv ==
    ASSUME Inv, RxAyt
    PROVE  Inv'
<1>1. rx.left > 0 /\ TypeInv /\ Shown(sess, hist)
  BY DEF Inv, CheckInv, RxAyt, Reads
<1>2. lib[Locid] \in Speaking(Game) /\ Item(0, "YES", 0) \in Wording(Game)
  BY <1>1, ReadFacts DEF Item, Wording, Said, Arg
<1>3. [lib[Locid] EXCEPT !.out = Append(@, Item(0, "YES", 0))] \in Speaking(Game)
  <2>1. Append(lib[Locid].out, Item(0, "YES", 0)) \in Seq(Wording(Game))
    BY <1>2, AppendProperties DEF Speaking
  <2> QED
    BY <1>2, <2>1 DEF Speaking
<1>4. /\ hist' \in History /\ hist'.failed = hist.failed
      /\ hist'.strayed = hist.strayed /\ hist'.spoke = hist.spoke
  <2>1. ASSUME NEW b \in BOOLEAN
        PROVE  LET h == [hist EXCEPT !.bypassed = b] IN
               /\ h \in History /\ h.failed = hist.failed
               /\ h.strayed = hist.strayed /\ h.spoke = hist.spoke
    BY <1>1 DEF TypeInv, History
  <2>2. (hist.bypassed \/ lib[Locid].enc # 0) \in BOOLEAN
    OBVIOUS
  <2> QED
    BY <2>1, <2>2 DEF RxAyt
<1>5. Shown(sess, hist')
  BY <1>1, <1>4 DEF Shown
<1> QED
  BY <1>1, <1>3, <1>4, <1>5, ReadFacts, DoneInv DEF RxAyt

LEMMA RequestType ==
    ASSUME NEW l \in Speaking(Game), NEW s \in Session
    PROVE  SendRequest(l, s) \in Speaking(Game)
<1>1. l.enc \in Nat /\ s.charset \in Name
  BY DEF Speaking, Session
<1>2. Item(l.enc, "REQUEST", s.charset) \in Wording(Game)
  BY <1>1, EndsAssumption DEF Item, Wording, Said, Arg
<1> QED
  BY <1>2, SendType DEF SendRequest

LEMMA RxDoCharsetInv ==
    ASSUME Inv, RxDoCharset
    PROVE  Inv'
<1> DEFINE c == [sess EXCEPT !.cs = TRUE]
           s == Checked(c, {"TELNET"})
<1>1. rx.left > 0 /\ TypeInv /\ {"TELNET"} \in SUBSET Check
  BY DEF Inv, RxDoCharset, Reads, Check
<1>2. sess \in Session /\ sess.charset \in Name
  BY <1>1 DEF TypeInv, Session
<1>3. Follows(sess, c) /\ c \in Session /\ c.check = sess.check
  BY <1>2, CharsetFollows DEF Follows
<1> HIDE DEF c
<1>4. Follows(sess, s) /\ s \in Session /\ s.check = sess.check \ {"TELNET"}
  BY <1>3, CheckedFollows, FollowsTrans DEF Follows
<1>5. SendRequest(lib[Locid], s) \in Speaking(Game)
  BY <1>1, <1>4, ReadFacts, RequestType
<1> QED
  BY <1>1, <1>4, <1>5, ProvedInv DEF RxDoCharset, c

\* A charset of ours is found, or none.
LEMMA AcceptedType ==
    ASSUME NEW o \in Offer
    PROVE  Accepted(o) \in Name \cup {NoName}
<1>1. Listed[o] \in Seq(Name) /\ Default \in Name
  BY CharsetAssumption
<1>2. ASSUME NEW n \in Name
      PROVE  Within(n) \in Name \cup {NoName}
  BY CharsetAssumption DEF Within
<1>3. CASE Listed[o] = <<>>
  BY <1>3 DEF Accepted
<1>4. CASE Listed[o] # <<>>
  <2>1. Head(Listed[o]) \in Name
    BY <1>1, <1>4, HeadTailProperties
  <2>2. Listed[o][Len(Listed[o])] \in Name
    BY <1>1, <1>4
  <2> QED
    BY <1>1, <1>2, <1>4, <2>1, <2>2 DEF Accepted
<1> QED
  BY <1>3, <1>4

LEMMA RxOfferInv ==
    ASSUME Inv, RxOffer
    PROVE  Inv'
<1> DEFINE c == Accepted(It.arg)
           s == Checked(sess, {"TELNET"})
           l == Send(lib[Locid], IF c = NoName THEN "REJECTED" ELSE "ACCEPTED", c)
           w == [s EXCEPT !.charset = c]
           t == IF c = NoName THEN s ELSE Push(w, "CHARSET", c)
<1>1. rx.left > 0 /\ It.say = "REQUEST" /\ TypeInv /\ {"TELNET"} \in SUBSET Check
  BY DEF Inv, RxOffer, Reads, Check
<1>2. c \in Name \cup {NoName}
  <2>1. It.arg \in Offer
    BY <1>1, ReadFacts DEF Wording
  <2> QED
    BY <2>1, AcceptedType
<1>3. Follows(sess, s) /\ s \in Session /\ s.check = sess.check \ {"TELNET"}
  BY <1>1, CheckedReads
<1>4. /\ Done(1, l, t, rx)
      /\ hist' = [hist EXCEPT !.spoke = @ \cup {"TELNET"}]
  BY DEF RxOffer
<1>5. l \in Speaking(Game)
  <2>1. lib[Locid] \in Speaking(Game) /\ lib[Locid].enc \in Nat
    BY <1>1, ReadFacts DEF Speaking
  <2>2. Item(lib[Locid].enc, IF c = NoName THEN "REJECTED" ELSE "ACCEPTED", c) \in Wording(Game)
    BY <1>2, <2>1 DEF Item, Wording, Said, Arg
  <2> QED
    BY <2>1, <2>2, SendType
<1> HIDE DEF s, c
<1>6. Follows(sess, t) /\ t.check = sess.check \ {"TELNET"}
  <2>1. CASE c = NoName
    BY <1>3, <2>1
  <2>2. CASE c # NoName
    <3>1. c \in Name /\ Msg("CHARSET", c) \in Tidings
      BY <1>2, <2>2 DEF Msg, Tidings, Message
    <3>2. Follows(s, w) /\ w \in Session /\ w.check = s.check
      BY <1>3, <3>1, CharsetFollows DEF Follows
    <3> HIDE DEF w
    <3>3. Follows(w, Push(w, "CHARSET", c)) /\ Push(w, "CHARSET", c).check = w.check
      BY <1>1, <3>1, <3>2, PushFollows, PushFields
    <3> QED
      BY <1>3, <2>2, <3>2, <3>3, FollowsTrans
  <2> QED
    BY <2>1, <2>2
<1> HIDE DEF l, t
<1> QED
  BY <1>1, <1>4, <1>5, <1>6, ProvedInv

LEMMA RxAnswerInv ==
    ASSUME Inv, RxAnswer
    PROVE  Inv'
<1>1. rx.left > 0 /\ TypeInv /\ {"TELNET"} \in SUBSET Check
  BY DEF Inv, RxAnswer, Reads, Check
<1>2. /\ Follows(sess, Checked(sess, {"TELNET"}))
      /\ Checked(sess, {"TELNET"}).check = sess.check \ {"TELNET"}
  BY <1>1, CheckedReads
<1> QED
  BY <1>1, <1>2, ReadFacts, ProvedInv DEF RxAnswer

LEMMA RxUnreadableInv ==
    ASSUME Inv, RxUnreadable
    PROVE  Inv'
<1>1. rx.left > 0 /\ TypeInv /\ hist' = hist
  BY DEF Inv, RxUnreadable
<1>2. hist' \in History /\ Shown(sess, hist')
  BY <1>1 DEF Inv, TypeInv, CheckInv
<1>3. \A c \in Choke(lib[Locid]) : c \in Speaking(Game)
  BY <1>1, ReadFacts, ChokeType
<1>4. \/ Done(1, lib[Locid], sess, rx)
      \/ \E c \in Choke(lib[Locid]) : Done(rx.left, c, sess, rx)
  BY DEF RxUnreadable
<1> QED
  BY <1>1, <1>2, <1>3, <1>4, ReadFacts, DoneInv

LEMMA RxSpoiltInv ==
    ASSUME Inv, RxSpoilt
    PROVE  Inv'
<1>1. rx.left > 0 /\ TypeInv /\ Shown(sess, hist)
  BY DEF Inv, CheckInv, RxSpoilt
<1>2. /\ hist' \in History /\ hist'.failed = hist.failed
      /\ hist'.strayed = hist.strayed /\ hist'.spoke = hist.spoke
  BY <1>1 DEF RxSpoilt, TypeInv, History
<1>3. Shown(sess, hist')
  BY <1>1, <1>2 DEF Shown
<1>4. EndRecv(lib[Locid]) \in Speaking(Game)
  BY <1>1, ReadFacts, EndRecvType
<1> QED
  BY <1>1, <1>2, <1>3, <1>4, ReadFacts, DoneInv DEF RxSpoilt

LEMMA RxFreedInv ==
    ASSUME Inv, RxFreed
    PROVE  Inv'
<1>1. rx.left > 0 /\ TypeInv /\ Shown(sess, hist)
  BY DEF Inv, CheckInv, RxFreed
<1>2. /\ hist' \in History /\ hist'.failed = hist.failed
      /\ hist'.strayed = hist.strayed /\ hist'.spoke = hist.spoke
  BY <1>1 DEF RxFreed, TypeInv, History
<1>3. Shown(sess, hist')
  BY <1>1, <1>2 DEF Shown
<1> QED
  BY <1>1, <1>2, <1>3, ReadFacts, DoneInv DEF RxFreed

-----------------------------------------------------------------------------
(* The gate *)

\* A session that a callback may leave behind, f telling whether it failed.
Sound(s, f) ==
    /\ s \in Session
    /\ s.check = sess.check
    /\ s.st = "BLOCKING" => page.shown = <<>> /\ Without("TERM", down)
    /\ s.st = "UP" => s.check = {}
    /\ f => /\ s.st \in {"CLOSING", "DOWN"} /\ page.shown = <<>>
            /\ Without("TERM", down) /\ Without("TERM", s.q)
    /\ page.ws /\ ~f => Learns(s)

LEMMA SoundInv ==
    ASSUME Inv, TypeInv', Idle, Sound(sess', hist'.failed),
           UNCHANGED <<rx, page, down, plan>>,
           hist'.spoke = hist.spoke, hist'.strayed = hist.strayed
    PROVE  Inv'
<1>1. GateInv'
  BY DEF Sound, GateInv, Idle, Without
<1>2. CheckInv'
  BY DEF Inv, Sound, CheckInv, Shown
<1>3. EchoInv'
  BY DEF Sound, EchoInv, Learns
<1> QED
  BY <1>1, <1>2, <1>3 DEF Inv

LEMMA EnforcedFields ==
    ASSUME NEW s \in Session
    PROVE  LET t == Enforced(s) IN
           /\ t \in Session /\ t.check = s.check
           /\ Failed(s) => t.st = "CLOSING" /\ t.q = <<>>
           /\ ~Failed(s) => t = s
<1>1. <<>> \in Seq(Tidings)
  OBVIOUS
<1> QED
  BY <1>1 DEF Enforced, Session

\* Nothing of a failed game is shown: its queue goes with it.
LEMMA EnforcedSound ==
    ASSUME Inv
    PROVE  Sound(Enforced(sess), hist.failed \/ Failed(sess))
<1>1. sess \in Session
  BY DEF Inv, TypeInv
<1> DEFINE t == Enforced(sess)
<1>2. /\ t \in Session /\ t.check = sess.check
      /\ Failed(sess) => t.st = "CLOSING" /\ t.q = <<>>
      /\ ~Failed(sess) => t = sess
  BY <1>1, EnforcedFields
<1> HIDE DEF t
<1>3. CASE Failed(sess)
  <2>1. page.shown = <<>> /\ Without("TERM", down)
    BY <1>3 DEF Inv, GateInv, Failed
  <2>2. Without("TERM", t.q)
    BY <1>2, <1>3 DEF Without
  <2> QED
    BY <1>2, <1>3, <2>1, <2>2 DEF Sound, t
<1>4. CASE ~Failed(sess)
  BY <1>2, <1>4 DEF Inv, GateInv, CheckInv, EchoInv, Sound, t
<1> QED
  BY <1>3, <1>4

LEMMA PushSound ==
    ASSUME TypeInv, NEW s, NEW f \in BOOLEAN, Sound(s, f), NEW cmd, NEW arg,
           Msg(cmd, arg) \in Tidings, cmd \notin {"ECHO", "TERM"}
    PROVE  Sound(Push(s, cmd, arg), f)
<1> DEFINE t == Push(s, cmd, arg)
<1>1. s \in Session /\ s.q \in Seq(Tidings) /\ Msg(cmd, arg).cmd = cmd
  BY DEF Sound, Session, Msg
<1>2. /\ t \in Session /\ t.q = Append(s.q, Msg(cmd, arg))
      /\ t.st = s.st /\ t.check = s.check
  BY <1>1, PushFields
<1>3. Learns(s) => Learns(t)
  BY <1>1, PushFollows DEF Follows
<1>4. Without("TERM", s.q) => Without("TERM", t.q)
  <2>1. \A c : cmd # c /\ Without(c, s.q) => Without(c, Append(s.q, Msg(cmd, arg)))
    BY <1>1, AppendEnds
  <2> QED
    BY <1>2, <2>1
<1> HIDE DEF t
<1> QED
  BY <1>2, <1>3, <1>4 DEF Sound, t

LEMMA FailedFields ==
    ASSUME TypeInv
    PROVE  LET h == [hist EXCEPT !.failed = @ \/ Failed(sess)] IN
           /\ h \in History /\ h.failed = (hist.failed \/ Failed(sess))
           /\ h.spoke = hist.spoke /\ h.strayed = hist.strayed
<1>1. ASSUME NEW b \in BOOLEAN
      PROVE  LET h == [hist EXCEPT !.failed = b] IN
             /\ h \in History /\ h.failed = b
             /\ h.spoke = hist.spoke /\ h.strayed = hist.strayed
  BY DEF TypeInv, History
<1>2. (hist.failed \/ Failed(sess)) \in BOOLEAN
  OBVIOUS
<1> QED
  BY <1>1, <1>2

-----------------------------------------------------------------------------
(* The other callbacks *)

LEMMA RawRxInv ==
    ASSUME Inv, NEW k \in 1 .. Len(wire[Locid]), RawRx(k)
    PROVE  Inv'
<1> DEFINE t == Enforced(sess)
<1>1. /\ TypeInv /\ Idle /\ sess' = t
      /\ hist' = [hist EXCEPT !.failed = @ \/ Failed(sess)]
      /\ UNCHANGED <<lib, page, down, up, charset, plan>>
  BY DEF Inv, RawRx
<1>2. Sound(t, hist'.failed) /\ hist' \in History
      /\ hist'.spoke = hist.spoke /\ hist'.strayed = hist.strayed
  BY <1>1, FailedFields, EnforcedSound
<1>3. /\ wire \in [End -> UNION {Seq(Wording(e)) : e \in End}]
      /\ \A e \in End : wire[e] \in Seq(Wording(e))
      /\ Locid \in End
  BY <1>1 DEF TypeInv, End
<1>4. t \in Session
  BY <1>2 DEF Sound
<1> HIDE DEF t
<1>5. CASE t.st = "CLOSING"
  <2>1. wire' = [wire EXCEPT ![Locid] = SubSeq(@, k + 1, Len(@))] /\ rx' = rx
    BY <1>1, <1>5 DEF RawRx
  <2>2. SubSeq(wire[Locid], k + 1, Len(wire[Locid])) \in Seq(Wording(Locid))
    BY <1>3, RestType
  <2>3. wire' \in [End -> UNION {Seq(Wording(e)) : e \in End}]
    BY <1>3, <2>1, <2>2
  <2>4. \A e \in End : wire'[e] \in Seq(Wording(e))
    BY <1>3, <2>1, <2>2
  <2>5. wire'[Locid] \in Seq(Wording(Locid)) /\ rx.left = 0
    BY <1>1, <1>3, <2>4 DEF Idle
  <2>6. rx' \in [left : 0 .. Len(wire'[Locid]), dec : Nat, freed : BOOLEAN]
    BY <1>1, <2>1, <2>5 DEF TypeInv
  <2>7. TypeInv'
    BY <1>1, <1>2, <1>4, <2>3, <2>4, <2>6 DEF TypeInv
  <2> QED
    BY <1>1, <1>2, <2>1, <2>7, SoundInv
<1>6. CASE t.st # "CLOSING"
  <2>1. rx' = [left |-> k, dec |-> lib[Locid].dec, freed |-> FALSE] /\ wire' = wire
    BY <1>1, <1>6 DEF RawRx
  <2>2. lib[Locid].dec \in Nat /\ Len(wire[Locid]) \in Nat
    <3>1. wire[Locid] \in Seq(Wording(Locid)) /\ lib[Locid] \in EndType
      BY <1>1, <1>3 DEF TypeInv
    <3>2. lib[Locid].dec \in Nat
      BY <3>1 DEF EndType
    <3> QED
      BY <3>1, <3>2
  <2>3. TypeInv'
    BY <1>1, <1>2, <1>4, <2>1, <2>2 DEF TypeInv
  <2>4. t = sess /\ ~Failed(sess)
    BY <1>1, <1>4, <1>6, EnforcedFields DEF TypeInv, t
  <2>5. sess.st # "DOWN"
    BY DEF RawRx
  <2>6. ~hist'.failed
    BY <1>2, <1>6, <2>4, <2>5 DEF Sound
  <2>7. GateInv'
    BY <1>1, <2>4, <2>6 DEF Inv, GateInv, Without
  <2>8. CheckInv'
    BY <1>1, <1>2, <2>4 DEF Inv, CheckInv, Shown
  <2>9. EchoInv'
    BY <1>1, <1>2, <2>6 DEF Sound, EchoInv, Learns
  <2> QED
    BY <2>3, <2>7, <2>8, <2>9 DEF Inv
<1> QED
  BY <1>5, <1>6

LEMMA RxInv ==
    ASSUME Inv, Rx
    PROVE  Inv'
  BY RawRxInv, RxTextInv, RxMccpxInv, RxDontInv, RxEchoInv, RxGmcpInv, RxMsspInv, RxAytInv,
     RxDoCharsetInv, RxOfferInv, RxAnswerInv, RxAcceptInv, RxUnreadableInv, RxSpoiltInv,
     RxFreedInv DEF Rx

LEMMA DeadlinePassesInv ==
    ASSUME Inv, DeadlinePasses
    PROVE  Inv'
<1>1. /\ sess \in Session /\ sess' = [sess EXCEPT !.due = TRUE] /\ Idle
      /\ UNCHANGED <<lib, wire, rx, page, down, up, charset, plan, hist>>
  BY DEF Inv, TypeInv, DeadlinePasses
<1>2. /\ sess' \in Session /\ sess'.st = sess.st /\ sess'.check = sess.check
      /\ sess'.q = sess.q /\ sess'.spoken = sess.spoken /\ sess'.echo = sess.echo
  BY <1>1 DEF Session
<1>3. TypeInv'
  BY <1>1, <1>2 DEF Inv, TypeInv
<1>4. Sound(sess', hist'.failed)
  BY <1>1, <1>2 DEF Inv, GateInv, CheckInv, EchoInv, Learns, Sound
<1> QED
  BY <1>1, <1>3, <1>4, SoundInv

LEMMA TimerInv ==
    ASSUME Inv, Timer
    PROVE  Inv'
<1>1. /\ TypeInv /\ Idle /\ Failed(sess) /\ sess' = Enforced(sess)
      /\ hist' = [hist EXCEPT !.failed = TRUE]
      /\ UNCHANGED <<lib, wire, rx, page, down, up, charset, plan>>
  BY DEF Inv, Timer
<1>2. /\ hist' \in History /\ hist'.failed = TRUE
      /\ hist'.spoke = hist.spoke /\ hist'.strayed = hist.strayed
  BY <1>1 DEF TypeInv, History
<1>3. Sound(sess', hist'.failed)
  BY <1>1, <1>2, EnforcedSound
<1>4. TypeInv'
  BY <1>1, <1>2, <1>3 DEF TypeInv, Sound
<1> QED
  BY <1>1, <1>2, <1>3, <1>4, SoundInv

\* Nothing asks for the websocket while it waits, and nothing is lost on the way.
LEMMA WriteableInv ==
    ASSUME Inv, Writeable
    PROVE  Inv'
<1> DEFINE e == Enforced(sess)
           s == [e EXCEPT !.want = FALSE]
           f == hist.failed \/ Failed(sess)
<1>1. /\ TypeInv /\ Idle /\ sess \in Session /\ page.ws
      /\ UNCHANGED <<lib, wire, rx, page, up, charset, plan>>
  BY DEF Inv, TypeInv, Writeable
<1>2. /\ hist' \in History /\ hist'.failed = f
      /\ hist'.spoke = hist.spoke /\ hist'.strayed = hist.strayed
  <2>1. ASSUME NEW b \in BOOLEAN, NEW c \in BOOLEAN
        PROVE  LET h == [hist EXCEPT !.failed = b, !.stalled = c] IN
               /\ h \in History /\ h.failed = b
               /\ h.spoke = hist.spoke /\ h.strayed = hist.strayed
    BY <1>1 DEF TypeInv, History
  <2>2. /\ f \in BOOLEAN
        /\ (hist.stalled \/ (Waits(sess) /\ sess.q # <<>>)) \in BOOLEAN
    OBVIOUS
  <2> QED
    BY <2>1, <2>2 DEF Writeable
<1>3. Sound(e, f)
  BY EnforcedSound
<1>4. /\ s \in Session /\ s.st = e.st /\ s.check = e.check /\ s.q = e.q
      /\ s.spoken = e.spoken /\ s.echo = e.echo /\ s.due = e.due
  BY <1>3 DEF Sound, Session
<1>5. Sound(s, f)
  BY <1>3, <1>4 DEF Sound, Learns
<1>6. s.st = "BLOCKING" => Waits(s)
  <2>1. ~Failed(sess) => e = sess
    BY <1>1, EnforcedFields
  <2>2. Failed(sess) => e.st = "CLOSING"
    BY <1>1, EnforcedFields
  <2> HIDE DEF e, s
  <2> QED
    BY <1>4, <2>1, <2>2 DEF Waits, Failed
<1>7. \/ (Waits(s) \/ s.q = <<>>) /\ sess' = s /\ down' = down
      \/ /\ ~Waits(s) /\ s.q # <<>>
         /\ down' = Append(down, Head(s.q))
         /\ sess' = [s EXCEPT !.q = Tail(@), !.want = Tail(s.q) # <<>>]
  BY DEF Writeable
<1> HIDE DEF e, s, f
<1>8. CASE sess' = s /\ down' = down
  <2>1. TypeInv'
    BY <1>1, <1>2, <1>4, <1>8 DEF TypeInv
  <2> QED
    BY <1>1, <1>2, <1>5, <1>8, <2>1, SoundInv
<1>9. CASE /\ ~Waits(s) /\ s.q # <<>>
           /\ down' = Append(down, Head(s.q))
           /\ sess' = [s EXCEPT !.q = Tail(@), !.want = Tail(s.q) # <<>>]
  <2>1. s.q \in Seq(Tidings) /\ down \in Seq(Tidings)
    BY <1>1, <1>4 DEF TypeInv, Session
  <2>2. Head(s.q) \in Tidings /\ Tail(s.q) \in Seq(Tidings)
    BY <1>9, <2>1, HeadTailProperties
  <2>3. down' \in Seq(Tidings)
    BY <1>9, <2>1, <2>2, AppendProperties
  <2>4. /\ sess' \in Session /\ sess'.q = Tail(s.q) /\ sess'.st = s.st
        /\ sess'.check = s.check /\ sess'.spoken = s.spoken /\ sess'.echo = s.echo
    <3>1. ASSUME NEW t \in Seq(Tidings), NEW w \in BOOLEAN
          PROVE  LET u == [s EXCEPT !.q = t, !.want = w] IN
                 /\ u \in Session /\ u.q = t /\ u.st = s.st
                 /\ u.check = s.check /\ u.spoken = s.spoken /\ u.echo = s.echo
      BY <1>4 DEF Session
    <3>2. (Tail(s.q) # <<>>) \in BOOLEAN
      OBVIOUS
    <3> QED
      BY <1>9, <2>2, <3>1, <3>2
  <2>5. TypeInv'
    BY <1>1, <1>2, <2>3, <2>4 DEF TypeInv
  <2>6. GateInv'
    <3>1. sess'.st # "BLOCKING"
      BY <1>6, <1>9, <2>4
    <3>2. ASSUME f
          PROVE  Without("TERM", sess'.q) /\ Without("TERM", down')
      <4>1. Without("TERM", s.q) /\ Without("TERM", down)
        BY <1>5, <3>2 DEF Sound
      <4>2. Head(s.q).cmd # "TERM" /\ Without("TERM", Tail(s.q))
        BY <1>9, <2>1, <4>1, TailEnds
      <4> QED
        BY <1>9, <2>1, <2>2, <2>4, <4>1, <4>2, AppendEnds
    <3>3. Without("TERM", sess.q)' = Without("TERM", sess'.q)
          /\ Without("TERM", down)' = Without("TERM", down')
      BY DEF Without
    <3> QED
      BY <1>1, <1>2, <1>5, <2>4, <3>1, <3>2, <3>3 DEF GateInv, Sound, Idle
  <2>7. CheckInv'
    BY <1>1, <1>2, <1>5, <2>4 DEF Inv, CheckInv, Shown, Sound
  <2>8. EchoInv'
    <3>1. SUFFICES ASSUME ~f, s.spoken
                   PROVE  Settles("ECHO", Tail(s.q), Append(down, Head(s.q)), page.mode, s.echo)
      BY <1>1, <1>2, <1>9, <2>4 DEF EchoInv, Learns, Settles, Ends, Without
    <3>2. Settles("ECHO", s.q, down, page.mode, s.echo)
      BY <1>1, <1>5, <3>1 DEF Sound, Learns
    <3> QED
      BY <1>9, <2>1, <3>2, MoveSettles
  <2> QED
    BY <2>5, <2>6, <2>7, <2>8 DEF Inv
<1> QED
  BY <1>7, <1>8, <1>9

LEMMA ReceiveInv ==
    ASSUME Inv, Receive
    PROVE  Inv'
<1> DEFINE m == Head(up)
           s == Enforced(sess)
           f == hist.failed \/ Failed(sess)
           c == [s EXCEPT !.charset = m.arg]
           d == [s EXCEPT !.st = "CLOSING"]
           t == CASE m.cmd = "CHARSET" -> c
                  [] m.cmd = "DISCONNECT" /\ s.st # "DOWN" -> Push(d, "CONNECT", 0)
                  [] OTHER -> s
           l == CASE m.cmd = "TERM"    -> Send(lib[Locid], "TEXT", m.arg)
                  [] m.cmd = "CHARSET" -> SendRequest(lib[Locid], t)
                  [] OTHER             -> lib[Locid]
<1>1. /\ TypeInv /\ Idle /\ up # <<>> /\ sess' = t
      /\ lib' = [lib EXCEPT ![Locid] = [l EXCEPT !.out = <<>>]]
      /\ wire' = [wire EXCEPT ![Game] = @ \o (IF t.st = "DOWN" THEN <<>> ELSE l.out)]
      /\ up' = Tail(up)
      /\ hist' = [hist EXCEPT !.failed = @ \/ Failed(sess)]
      /\ UNCHANGED <<rx, page, down, charset, plan>>
  BY DEF Inv, Receive
<1>2. hist' \in History /\ hist'.failed = f /\ f \in BOOLEAN
      /\ hist'.spoke = hist.spoke /\ hist'.strayed = hist.strayed
  BY <1>1, FailedFields
<1>3. Sound(s, f) /\ s \in Session
  BY EnforcedSound DEF Sound
<1>4. m \in Wishes /\ Tail(up) \in Seq(Wishes)
  BY <1>1, HeadTailProperties DEF TypeInv
<1>5. lib[Locid] \in Speaking(Game) /\ Locid \in End /\ Game \in End
  BY <1>1, EndSpeaks DEF TypeInv, End
<1> HIDE DEF s, f, m
<1>6. m.cmd = "CHARSET" => m.arg \in Name
  BY <1>4 DEF Wishes
<1>7. m.cmd = "CHARSET" => Sound(c, f)
  <2>1. ASSUME NEW n \in Name
        PROVE  LET u == [s EXCEPT !.charset = n] IN
               /\ u \in Session /\ u.st = s.st /\ u.check = s.check
               /\ u.q = s.q /\ u.spoken = s.spoken /\ u.echo = s.echo
    BY <1>3 DEF Session
  <2> QED
    BY <1>3, <1>6, <2>1 DEF Sound, Learns
<1>8. Sound(Push(d, "CONNECT", 0), f)
  <2>1. /\ d \in Session /\ d.st = "CLOSING" /\ d.check = s.check
        /\ d.q = s.q /\ d.spoken = s.spoken /\ d.echo = s.echo
    BY <1>3 DEF Session
  <2>2. Sound(d, f)
    BY <1>3, <2>1 DEF Sound, Learns
  <2>3. Msg("CONNECT", 0) \in Tidings
    BY DEF Msg, Tidings, Message
  <2> QED
    BY <1>1, <1>2, <2>2, <2>3, PushSound
<1> HIDE DEF c, d
<1>9. Sound(t, f) /\ t \in Session
  BY <1>3, <1>7, <1>8 DEF Sound
<1> HIDE DEF t
<1>10. l \in Speaking(Game)
  <2>1. m.cmd = "TERM" => Send(lib[Locid], "TEXT", m.arg) \in Speaking(Game)
    <3>1. lib[Locid].enc \in Nat
      BY <1>5 DEF Speaking
    <3>2. m.cmd = "TERM" => Item(lib[Locid].enc, "TEXT", m.arg) \in Wording(Game)
      BY <1>4, <3>1 DEF Wishes, Item, Wording, Said, Arg
    <3> QED
      BY <1>5, <3>2, SendType
  <2>2. SendRequest(lib[Locid], t) \in Speaking(Game)
    BY <1>5, <1>9, RequestType
  <2> QED
    BY <1>5, <2>1, <2>2
<1> HIDE DEF l
<1>11. lib' \in [End -> EndType]
  BY <1>1, <1>5, <1>10, EndSpeaks DEF TypeInv
<1>12. /\ wire' \in [End -> UNION {Seq(Wording(e)) : e \in End}]
       /\ \A e \in End : wire'[e] \in Seq(Wording(e))
       /\ wire'[Locid] = wire[Locid]
  <2>1. /\ wire \in [End -> UNION {Seq(Wording(e)) : e \in End}]
        /\ \A e \in End : wire[e] \in Seq(Wording(e))
    BY <1>1 DEF TypeInv
  <2>2. (IF t.st = "DOWN" THEN <<>> ELSE l.out) \in Seq(Wording(Game))
    BY <1>10 DEF Speaking
  <2>3. wire[Game] \o (IF t.st = "DOWN" THEN <<>> ELSE l.out) \in Seq(Wording(Game))
    BY <1>5, <2>1, <2>2, ConcatProperties
  <2> QED
    BY <1>1, <1>5, <2>1, <2>3, EndsAssumption
<1>13. TypeInv'
  BY <1>1, <1>2, <1>4, <1>9, <1>11, <1>12 DEF TypeInv
<1> QED
  BY <1>1, <1>2, <1>9, <1>13, SoundInv

\* The wires are cut.
LEMMA CutWires ==
    ASSUME TypeInv, Idle, wire' = [e \in End |-> <<>>], rx' = rx
    PROVE  /\ wire' \in [End -> UNION {Seq(Wording(e)) : e \in End}]
           /\ \A e \in End : wire'[e] \in Seq(Wording(e))
           /\ rx' \in [left : 0 .. Len(wire'[Locid]), dec : Nat, freed : BOOLEAN]
<1>1. \A e \in End : <<>> \in Seq(Wording(e))
  OBVIOUS
<1>2. Locid \in End /\ rx.left = 0 /\ rx.dec \in Nat /\ rx.freed \in BOOLEAN
  BY DEF End, Idle, TypeInv
<1>3. wire'[Locid] = <<>> /\ 0 \in 0 .. Len(wire'[Locid])
  BY <1>2
<1>4. rx' \in [left : {0}, dec : Nat, freed : BOOLEAN]
  BY <1>2 DEF TypeInv
<1> QED
  BY <1>1, <1>3, <1>4

LEMMA RawCloseInv ==
    ASSUME Inv, RawClose
    PROVE  Inv'
<1> DEFINE e == Enforced(sess)
           s == [e EXCEPT !.st = "DOWN"]
           f == hist.failed \/ Failed(sess)
<1>1. /\ TypeInv /\ Idle /\ wire' = [x \in End |-> <<>>]
      /\ sess' = IF page.ws THEN Push(s, "CONNECT", 0) ELSE s
      /\ UNCHANGED <<lib, rx, page, down, up, charset, plan>>
  BY DEF Inv, RawClose
<1>2. /\ hist' \in History /\ hist'.failed = f /\ f \in BOOLEAN
      /\ hist'.spoke = hist.spoke /\ hist'.strayed = hist.strayed
  <2>1. ASSUME NEW b \in BOOLEAN
        PROVE  LET h == [hist EXCEPT !.failed = b, !.closed = TRUE] IN
               /\ h \in History /\ h.failed = b
               /\ h.spoke = hist.spoke /\ h.strayed = hist.strayed
    BY <1>1 DEF TypeInv, History
  <2>2. f \in BOOLEAN
    OBVIOUS
  <2> QED
    BY <2>1, <2>2 DEF RawClose
<1>3. Sound(e, f) /\ e \in Session
  BY EnforcedSound DEF Sound
<1> HIDE DEF e, f
<1>4. /\ s \in Session /\ s.st = "DOWN" /\ s.check = e.check
      /\ s.q = e.q /\ s.spoken = e.spoken /\ s.echo = e.echo
  BY <1>3 DEF Session
<1> HIDE DEF s
<1>5. Sound(s, f)
  BY <1>3, <1>4 DEF Sound, Learns
<1>6. Msg("CONNECT", 0) \in Tidings
  BY DEF Msg, Tidings, Message
<1>7. Sound(sess', f)
  BY <1>1, <1>2, <1>5, <1>6, PushSound
<1>8. TypeInv'
  BY <1>1, <1>2, <1>7, CutWires DEF TypeInv, Sound
<1> QED
  BY <1>1, <1>2, <1>7, <1>8, SoundInv

LEMMA LostInv ==
    ASSUME Inv, Lost
    PROVE  Inv'
<1>1. /\ TypeInv /\ sess \in Session /\ page \in PageType /\ plan \in PlanType
      /\ hist \in History /\ plan.drops > 0
      /\ down' = <<>> /\ up' = <<>>
      /\ sess' = [sess EXCEPT !.want = FALSE]
      /\ plan' = [plan EXCEPT !.drops = @ - 1]
      /\ hist' = [hist EXCEPT !.dropped = TRUE, !.unsettled = TRUE]
      /\ UNCHANGED <<lib, wire, rx, charset>>
  BY DEF Inv, TypeInv, Lost
<1>2. page' \in PageType /\ page'.ws = FALSE /\ page'.shown = page.shown
  BY <1>1, CharsetAssumption DEF Lost, PageType
<1>3. /\ sess' \in Session /\ sess'.st = sess.st /\ sess'.check = sess.check
      /\ sess'.q = sess.q
  BY <1>1 DEF Session
<1>4. plan' \in PlanType /\ plan'.check = plan.check
  <2>1. plan.drops - 1 \in Nat
    BY <1>1 DEF PlanType
  <2> QED
    BY <1>1, <2>1 DEF PlanType
<1>5. /\ hist' \in History /\ hist'.failed = hist.failed
      /\ hist'.spoke = hist.spoke /\ hist'.strayed = hist.strayed
  BY <1>1 DEF History
<1>6. down' \in Seq(Tidings) /\ up' \in Seq(Wishes)
  BY <1>1
<1>7. TypeInv'
  BY <1>1, <1>2, <1>3, <1>4, <1>5, <1>6 DEF TypeInv
<1>8. GateInv'
  BY <1>1, <1>2, <1>3, <1>5 DEF Inv, GateInv, Without
<1>9. CheckInv'
  BY <1>3, <1>4, <1>5 DEF Inv, CheckInv, Shown
<1>10. EchoInv'
  BY <1>2 DEF EchoInv
<1> QED
  BY <1>7, <1>8, <1>9, <1>10 DEF Inv

\* The browser that takes over is told of the mode, whatever it had before.
LEMMA RoamInv ==
    ASSUME Inv, Roam
    PROVE  Inv'
<1> DEFINE e == Enforced(sess)
           q == Append(e.q, Msg("CONNECT", 1))
           s == [e EXCEPT !.charset = Default, !.want = TRUE, !.q = Append(@, Msg("CONNECT", 1))]
           f == hist.failed \/ Failed(sess)
<1>1. /\ TypeInv /\ Idle /\ page \in PageType
      /\ page' = [page EXCEPT !.ws = TRUE] /\ sess' = PushEcho(s)
      /\ hist' = [hist EXCEPT !.failed = @ \/ Failed(sess)]
      /\ UNCHANGED <<lib, wire, rx, down, up, charset, plan>>
  BY DEF Inv, TypeInv, Roam
<1>2. page' \in PageType /\ page'.shown = page.shown /\ page'.mode = page.mode
  BY <1>1 DEF PageType
<1>3. hist' \in History /\ hist'.failed = f
      /\ hist'.spoke = hist.spoke /\ hist'.strayed = hist.strayed
  BY <1>1, FailedFields
<1>4. Sound(e, f) /\ e \in Session
  BY EnforcedSound DEF Sound
<1>5. Msg("CONNECT", 1) \in Tidings /\ Msg("CONNECT", 1).cmd = "CONNECT"
  BY DEF Msg, Tidings, Message
<1> HIDE DEF e, f
<1>6. /\ q \in Seq(Tidings) /\ (Without("TERM", e.q) => Without("TERM", q))
  <2>1. e.q \in Seq(Tidings)
    BY <1>4 DEF Session
  <2>2. \A c : c # "CONNECT" /\ Without(c, e.q) => Without(c, q)
    BY <1>5, <2>1, AppendEnds
  <2> QED
    BY <1>5, <2>1, <2>2, AppendProperties
<1>7. /\ s \in Session /\ s.st = e.st /\ s.check = e.check /\ s.q = q
  <2>1. Default \in Name
    BY CharsetAssumption
  <2> HIDE DEF q
  <2>2. s = [e EXCEPT !.charset = Default, !.want = TRUE, !.q = q]
    BY DEF q
  <2> HIDE DEF s
  <2> QED
    BY <1>4, <1>6, <2>1, <2>2 DEF Session
<1> HIDE DEF s, q
<1>8. /\ sess' \in Session /\ sess'.st = s.st /\ sess'.check = s.check /\ Learns(sess')
  BY <1>1, <1>7, PushEchoFollows DEF Follows
<1>9. Without("TERM", s.q) => Without("TERM", sess'.q)
  <2>1. CASE s.spoken
    <3>1. s.q \in Seq(Tidings) /\ Msg("ECHO", s.echo) \in Tidings
          /\ Msg("ECHO", s.echo).cmd = "ECHO"
      BY <1>7 DEF Session, Msg, Tidings, Message
    <3>2. sess'.q = Append(s.q, Msg("ECHO", s.echo))
      BY <1>1, <1>7, <2>1, <3>1, PushFields DEF PushEcho
    <3>3. \A c : c # "ECHO" /\ Without(c, s.q) => Without(c, Append(s.q, Msg("ECHO", s.echo)))
      BY <3>1, AppendEnds
    <3> QED
      BY <3>2, <3>3
  <2>2. CASE ~s.spoken
    BY <1>1, <2>2 DEF PushEcho
  <2> QED
    BY <2>1, <2>2
<1>10. TypeInv'
  BY <1>1, <1>2, <1>3, <1>8 DEF TypeInv
<1>11. GateInv'
  <2>1. f => Without("TERM", sess'.q)
    BY <1>4, <1>6, <1>7, <1>9 DEF Sound
  <2>2. Without("TERM", sess.q)' = Without("TERM", sess'.q)
    BY DEF Without
  <2>3. Without("TERM", down)' = Without("TERM", down)
    BY <1>1 DEF Without
  <2> QED
    BY <1>1, <1>2, <1>3, <1>4, <1>7, <1>8, <2>1, <2>2, <2>3 DEF GateInv, Sound, Idle
<1>12. CheckInv'
  BY <1>1, <1>3, <1>4, <1>7, <1>8 DEF Inv, CheckInv, Shown, Sound
<1>13. EchoInv'
  BY <1>1, <1>2, <1>8 DEF EchoInv, Learns
<1> QED
  BY <1>10, <1>11, <1>12, <1>13 DEF Inv

LEMMA WebsocketClosesInv ==
    ASSUME Inv, WebsocketCloses
    PROVE  Inv'
<1>1. /\ TypeInv /\ sess \in Session /\ page \in PageType
      /\ page' = [page EXCEPT !.ws = FALSE]
      /\ sess' = [sess EXCEPT !.want = FALSE, !.q = <<>>]
      /\ up' = <<>>
      /\ UNCHANGED <<lib, wire, rx, down, charset, plan, hist>>
  BY DEF Inv, TypeInv, WebsocketCloses
<1>2. page' \in PageType /\ page'.ws = FALSE /\ page'.shown = page.shown
  BY <1>1 DEF PageType
<1>3. up' \in Seq(Wishes) /\ <<>> \in Seq(Tidings)
  BY <1>1
<1>4. /\ sess' \in Session /\ sess'.st = sess.st /\ sess'.check = sess.check
      /\ sess'.q = <<>>
  BY <1>1, <1>3 DEF Session
<1>5. TypeInv'
  BY <1>1, <1>2, <1>3, <1>4 DEF TypeInv
<1>6. GateInv'
  BY <1>1, <1>2, <1>4 DEF Inv, GateInv, Without
<1>7. CheckInv'
  BY <1>1, <1>4 DEF Inv, CheckInv, Shown
<1>8. EchoInv'
  BY <1>2 DEF EchoInv
<1> QED
  BY <1>5, <1>6, <1>7, <1>8 DEF Inv

-----------------------------------------------------------------------------
(* The browser and the game *)

\* What neither the session nor the screen notices.
LEMMA ElsewhereInv ==
    ASSUME Inv, TypeInv', UNCHANGED <<sess, down>>, rx'.left = rx.left,
           page'.ws = page.ws, page'.mode = page.mode, page'.shown = page.shown,
           plan'.check = plan.check,
           hist'.failed = hist.failed, hist'.spoke = hist.spoke,
           hist'.strayed = hist.strayed
    PROVE  Inv'
<1>1. GateInv'
  BY DEF Inv, GateInv, Without
<1>2. CheckInv'
  BY DEF Inv, CheckInv, Shown
<1>3. EchoInv'
  BY DEF Inv, EchoInv, Learns
<1> QED
  BY <1>1, <1>2, <1>3 DEF Inv

LEMMA PageReadsInv ==
    ASSUME Inv, PageReads
    PROVE  Inv'
<1> DEFINE m == Head(down)
<1>1. /\ TypeInv /\ down # <<>> /\ down \in Seq(Tidings) /\ page \in PageType
      /\ down' = Tail(down)
      /\ UNCHANGED <<lib, wire, rx, sess, up, charset, plan, hist>>
  BY DEF Inv, TypeInv, PageReads
<1>2. m \in Tidings /\ Tail(down) \in Seq(Tidings)
  BY <1>1, HeadTailProperties
<1>3. page' = CASE m.cmd = "TERM"    -> [page EXCEPT !.shown = Append(@, m.arg)]
                [] m.cmd = "ECHO"    -> [page EXCEPT !.mode = m.arg]
                [] m.cmd = "CHARSET" -> [page EXCEPT !.charset = m.arg]
                [] OTHER             -> page
  BY DEF PageReads
<1> HIDE DEF m
<1>4. /\ page' \in PageType /\ page'.ws = page.ws
      /\ page'.mode = IF m.cmd = "ECHO" THEN m.arg ELSE page.mode
      /\ m.cmd # "TERM" => page'.shown = page.shown
  <2>1. CASE m.cmd = "TERM"
    <3>1. Append(page.shown, m.arg) \in Seq(Nat \cup Name)
      BY <1>1, <1>2, AppendProperties DEF PageType, Tidings, Message
    <3>2. page' = [page EXCEPT !.shown = Append(page.shown, m.arg)]
      BY <1>3, <2>1
    <3> QED
      BY <1>1, <2>1, <3>1, <3>2 DEF PageType
  <2>2. CASE m.cmd = "ECHO"
    BY <1>1, <1>2, <1>3, <2>2 DEF PageType, Tidings
  <2>3. CASE m.cmd = "CHARSET"
    BY <1>1, <1>2, <1>3, <2>3 DEF PageType, Tidings
  <2>4. CASE m.cmd \notin {"TERM", "ECHO", "CHARSET"}
    BY <1>1, <1>3, <2>4
  <2> QED
    BY <2>1, <2>2, <2>3, <2>4
<1>5. TypeInv'
  BY <1>1, <1>2, <1>4 DEF TypeInv
<1>6. Without("TERM", down) => m.cmd # "TERM" /\ Without("TERM", Tail(down))
  BY <1>1, TailEnds DEF m
<1>7. Without("TERM", down)' = Without("TERM", Tail(down))
  BY <1>1 DEF Without
<1>8. GateInv'
  BY <1>1, <1>4, <1>6, <1>7 DEF Inv, GateInv, Without
<1>9. CheckInv'
  BY <1>1 DEF Inv, CheckInv, Shown
<1>10. EchoInv'
  <2>1. SUFFICES ASSUME page.ws, ~hist.failed, sess.spoken
                 PROVE  Settles("ECHO", sess.q, Tail(down), page'.mode, sess.echo)
    BY <1>1, <1>4 DEF EchoInv, Learns, Settles, Ends, Without
  <2>2. Settles("ECHO", sess.q, down, page.mode, sess.echo)
    BY <2>1 DEF Inv, EchoInv, Learns
  <2> QED
    BY <1>1, <1>4, <2>2, ReadSettles DEF m
<1> QED
  BY <1>5, <1>8, <1>9, <1>10 DEF Inv

LEMMA InputInv ==
    ASSUME Inv, Input
    PROVE  Inv'
<1>1. /\ TypeInv /\ plan \in PlanType /\ hist \in History /\ up \in Seq(Wishes)
      /\ plan.input > 0 /\ Game \in End
      /\ plan' = [plan EXCEPT !.input = @ - 1]
      /\ up' = Append(up, Msg("TERM", hist.sent[Game] + 1))
      /\ hist' = [hist EXCEPT !.sent[Game] = @ + 1]
      /\ UNCHANGED <<lib, wire, rx, sess, page, down, charset>>
  BY DEF Inv, TypeInv, Input, End
<1>2. hist.sent[Game] + 1 \in Nat /\ plan.input - 1 \in Nat
  BY <1>1 DEF History, PlanType
<1>3. Msg("TERM", hist.sent[Game] + 1) \in Wishes
  BY <1>2 DEF Msg, Wishes
<1>4. up' \in Seq(Wishes)
  BY <1>1, <1>3, AppendProperties
<1>5. plan' \in PlanType /\ plan'.check = plan.check
  BY <1>1, <1>2 DEF PlanType
<1>6. /\ hist' \in History /\ hist'.failed = hist.failed
      /\ hist'.spoke = hist.spoke /\ hist'.strayed = hist.strayed
  <2>1. ASSUME NEW n \in Nat
        PROVE  LET h == [hist EXCEPT !.sent[Game] = n] IN
               /\ h \in History /\ h.failed = hist.failed
               /\ h.spoke = hist.spoke /\ h.strayed = hist.strayed
    BY <1>1 DEF History
  <2> QED
    BY <1>1, <1>2, <2>1
<1>7. TypeInv'
  BY <1>1, <1>4, <1>5, <1>6 DEF TypeInv
<1> QED
  BY <1>1, <1>5, <1>6, <1>7, ElsewhereInv

LEMMA PickCharsetInv ==
    ASSUME Inv, NEW c \in Name, PickCharset(c)
    PROVE  Inv'
<1>1. /\ TypeInv /\ plan \in PlanType /\ hist \in History /\ up \in Seq(Wishes)
      /\ page \in PageType
      /\ plan' = [plan EXCEPT !.picks = @ \ {c}]
      /\ page' = [page EXCEPT !.charset = c]
      /\ up' = Append(up, Msg("CHARSET", c))
      /\ hist' = [hist EXCEPT !.unsettled = Offering]
      /\ UNCHANGED <<lib, wire, rx, sess, down, charset>>
  BY DEF Inv, TypeInv, PickCharset
<1>2. Msg("CHARSET", c) \in Wishes
  BY DEF Msg, Wishes
<1>3. up' \in Seq(Wishes)
  BY <1>1, <1>2, AppendProperties
<1>4. plan' \in PlanType /\ plan'.check = plan.check
  BY <1>1 DEF PlanType
<1>5. /\ page' \in PageType /\ page'.ws = page.ws /\ page'.mode = page.mode
      /\ page'.shown = page.shown
  BY <1>1 DEF PageType
<1>6. /\ hist' \in History /\ hist'.failed = hist.failed
      /\ hist'.spoke = hist.spoke /\ hist'.strayed = hist.strayed
  <2>1. ASSUME NEW b \in BOOLEAN
        PROVE  LET h == [hist EXCEPT !.unsettled = b] IN
               /\ h \in History /\ h.failed = hist.failed
               /\ h.spoke = hist.spoke /\ h.strayed = hist.strayed
    BY <1>1 DEF History
  <2>2. Offering \in BOOLEAN
    BY DEF Offering
  <2> QED
    BY <1>1, <2>1, <2>2
<1>7. TypeInv'
  BY <1>1, <1>3, <1>4, <1>5, <1>6 DEF TypeInv
<1> QED
  BY <1>1, <1>4, <1>5, <1>6, <1>7, ElsewhereInv

LEMMA DisconnectInv ==
    ASSUME Inv, Disconnect
    PROVE  Inv'
<1>1. /\ TypeInv /\ plan \in PlanType /\ up \in Seq(Wishes)
      /\ plan' = [plan EXCEPT !.close = FALSE]
      /\ up' = Append(up, Msg("DISCONNECT", 0))
      /\ UNCHANGED <<lib, wire, rx, sess, page, down, charset, hist>>
  BY DEF Inv, TypeInv, Disconnect
<1>2. up' \in Seq(Wishes)
  BY <1>1, AppendProperties DEF Msg, Wishes
<1>3. plan' \in PlanType /\ plan'.check = plan.check
  BY <1>1 DEF PlanType
<1>4. TypeInv'
  BY <1>1, <1>2, <1>3 DEF TypeInv
<1> QED
  BY <1>1, <1>3, <1>4, ElsewhereInv

\* What the game writes goes behind what is under way.
LEMMA WiresType ==
    ASSUME TypeInv, NEW l \in Speaking(Locid), NEW rest \in Seq(Wording(Game)),
           wire' = [wire EXCEPT ![Game] = rest, ![Locid] = @ \o l.out],
           lib' = [lib EXCEPT ![Game] = [l EXCEPT !.out = <<>>]], rx' = rx
    PROVE  /\ lib' \in [End -> EndType]
           /\ wire' \in [End -> UNION {Seq(Wording(e)) : e \in End}]
           /\ \A e \in End : wire'[e] \in Seq(Wording(e))
           /\ rx' \in [left : 0 .. Len(wire'[Locid]), dec : Nat, freed : BOOLEAN]
<1>1. /\ lib \in [End -> EndType] /\ wire \in [End -> UNION {Seq(Wording(e)) : e \in End}]
      /\ wire[Locid] \in Seq(Wording(Locid)) /\ l.out \in Seq(Wording(Locid))
      /\ Locid \in End /\ Game \in End /\ End = {Locid, Game}
  BY DEF TypeInv, End, Speaking
<1>2. /\ wire[Locid] \o l.out \in Seq(Wording(Locid))
      /\ Len(wire[Locid] \o l.out) = Len(wire[Locid]) + Len(l.out)
  BY <1>1, ConcatProperties
<1>3. wire'[Locid] = wire[Locid] \o l.out /\ wire'[Game] = rest
  BY <1>1, EndsAssumption
<1>4. lib' \in [End -> EndType]
  BY <1>1, EndSpeaks
<1>5. wire' \in [End -> UNION {Seq(Wording(e)) : e \in End}]
  BY <1>1, <1>2
<1>6. \A e \in End : wire'[e] \in Seq(Wording(e))
  BY <1>1, <1>2, <1>3
<1>7. rx' \in [left : 0 .. Len(wire'[Locid]), dec : Nat, freed : BOOLEAN]
  <2>1. rx.left \in 0 .. Len(wire[Locid]) /\ rx.dec \in Nat /\ rx.freed \in BOOLEAN
        /\ rx = [left |-> rx.left, dec |-> rx.dec, freed |-> rx.freed]
    BY DEF TypeInv
  <2>2. Len(wire[Locid]) \in Nat /\ Len(l.out) \in Nat
    BY <1>1
  <2>3. Len(wire'[Locid]) = Len(wire[Locid]) + Len(l.out)
    BY <1>2, <1>3
  <2> DEFINE before == Len(wire[Locid])
             after == Len(wire'[Locid])
             new == Len(l.out)
  <2>4. after = before + new /\ before \in Nat /\ new \in Nat /\ rx.left \in 0 .. before
    BY <2>1, <2>2, <2>3
  <2> HIDE DEF before, after, new
  <2>5. rx.left \in 0 .. after
    BY <2>4
  <2> QED
    BY <2>1, <2>5 DEF after
<1> QED
  BY <1>4, <1>5, <1>6, <1>7

LEMMA GameSpeaks ==
    ASSUME TypeInv
    PROVE  lib[Game] \in Speaking(Locid) /\ lib[Game].enc \in Nat /\ lib[Game].us \in QState
<1>1. lib[Game] \in EndType
  BY DEF TypeInv, End
<1> QED
  BY <1>1, EndSpeaks DEF Speaking

\* The game's program writes.
LEMMA EmitInv ==
    ASSUME Inv, NEW l \in Speaking(Locid), Emit(l),
           plan' \in PlanType, plan'.check = plan.check,
           hist' \in History, hist'.failed = hist.failed, hist'.spoke = hist.spoke,
           hist'.strayed = hist.strayed
    PROVE  Inv'
<1>1. /\ TypeInv /\ wire[Game] \in Seq(Wording(Game))
      /\ wire \in [End -> UNION {Seq(Wording(e)) : e \in End}]
  BY DEF Inv, TypeInv, End
<1>2. /\ lib' = [lib EXCEPT ![Game] = [l EXCEPT !.out = <<>>]]
      /\ wire' = [wire EXCEPT ![Locid] = @ \o l.out]
      /\ UNCHANGED <<rx, sess, page, down, up, charset>>
  BY DEF Emit
<1>3. wire' = [wire EXCEPT ![Game] = wire[Game], ![Locid] = @ \o l.out]
  BY <1>1, <1>2, EndsAssumption DEF End
<1>4. TypeInv'
  BY <1>1, <1>2, <1>3, WiresType DEF TypeInv
<1> QED
  BY <1>2, <1>4, ElsewhereInv

LEMMA GameTextInv ==
    ASSUME Inv, GameText
    PROVE  Inv'
<1> DEFINE l == Send(lib[Game], "TEXT", hist.sent[Locid] + 1)
<1>1. /\ TypeInv /\ plan \in PlanType /\ hist \in History /\ Locid \in End
      /\ plan.text > 0 /\ Emit(l)
      /\ plan' = [plan EXCEPT !.text = @ - 1]
      /\ hist' = [hist EXCEPT !.sent[Locid] = @ + 1]
  BY DEF Inv, TypeInv, GameText, End
<1>2. hist.sent[Locid] + 1 \in Nat /\ plan.text - 1 \in Nat
  BY <1>1 DEF History, PlanType
<1>3. Item(lib[Game].enc, "TEXT", hist.sent[Locid] + 1) \in Wording(Locid)
  BY <1>1, <1>2, GameSpeaks DEF Item, Wording, Said, Arg
<1>4. l \in Speaking(Locid)
  BY <1>1, <1>3, GameSpeaks, SendType
<1>5. plan' \in PlanType /\ plan'.check = plan.check
  BY <1>1, <1>2 DEF PlanType
<1>6. /\ hist' \in History /\ hist'.failed = hist.failed
      /\ hist'.spoke = hist.spoke /\ hist'.strayed = hist.strayed
  <2>1. ASSUME NEW n \in Nat
        PROVE  LET h == [hist EXCEPT !.sent[Locid] = n] IN
               /\ h \in History /\ h.failed = hist.failed
               /\ h.spoke = hist.spoke /\ h.strayed = hist.strayed
    BY <1>1 DEF History
  <2> QED
    BY <1>1, <1>2, <2>1
<1> QED
  BY <1>1, <1>4, <1>5, <1>6, EmitInv

LEMMA HushedHistory ==
    ASSUME TypeInv, NEW l, hist' = [hist EXCEPT !.hushed = @ \/ Hushed(lib[Game], l)]
    PROVE  /\ hist' \in History /\ hist'.failed = hist.failed
           /\ hist'.spoke = hist.spoke /\ hist'.strayed = hist.strayed
<1>1. ASSUME NEW b \in BOOLEAN
      PROVE  LET h == [hist EXCEPT !.hushed = b] IN
             /\ h \in History /\ h.failed = hist.failed
             /\ h.spoke = hist.spoke /\ h.strayed = hist.strayed
  BY DEF TypeInv, History
<1>2. (hist.hushed \/ Hushed(lib[Game], l)) \in BOOLEAN
  OBVIOUS
<1> QED
  BY <1>1, <1>2

LEMMA GameWishInv ==
    ASSUME Inv, GameWish
    PROVE  Inv'
<1>1. /\ TypeInv /\ plan \in PlanType /\ hist \in History
      /\ plan.wish > 0 /\ plan' = [plan EXCEPT !.wish = @ - 1]
  BY DEF Inv, TypeInv, GameWish
<1>2. plan' \in PlanType /\ plan'.check = plan.check
  <2>1. plan.wish - 1 \in Nat
    BY <1>1 DEF PlanType
  <2> QED
    BY <1>1, <2>1 DEF PlanType
<1>3. CASE Emit(Ours(lib[Game], AskYes(lib[Game].us))) /\ UNCHANGED hist
  <2>1. Ours(lib[Game], AskYes(lib[Game].us)) \in Speaking(Locid)
    BY <1>1, GameSpeaks, HearingTypes, OursType
  <2> QED
    BY <1>1, <1>2, <1>3, <2>1, EmitInv
<1>4. CASE /\ Emit(EndSend(lib[Game]))
           /\ hist' = [hist EXCEPT !.hushed = @ \/ Hushed(lib[Game], EndSend(lib[Game]))]
  <2>1. EndSend(lib[Game]) \in Speaking(Locid)
    BY <1>1, GameSpeaks, EndSendType
  <2> QED
    BY <1>1, <1>2, <1>4, <2>1, HushedHistory, EmitInv
<1> QED
  BY <1>3, <1>4 DEF GameWish

LEMMA GameEchoInv ==
    ASSUME Inv, GameEcho
    PROVE  Inv'
<1>1. /\ TypeInv /\ plan \in PlanType /\ hist \in History /\ hist' = hist
      /\ plan.echo > 0 /\ plan' = [plan EXCEPT !.echo = @ - 1]
      /\ Emit(Send(lib[Game], "ECHO", plan.echo % 2))
  BY DEF Inv, TypeInv, GameEcho
<1>2. plan.echo - 1 \in Nat /\ plan.echo % 2 \in {0, 1}
  BY <1>1 DEF PlanType
<1>3. plan' \in PlanType /\ plan'.check = plan.check
  BY <1>1, <1>2 DEF PlanType
<1>4. Item(lib[Game].enc, "ECHO", plan.echo % 2) \in Wording(Locid)
  BY <1>1, <1>2, GameSpeaks DEF Item, Wording, Said, Arg
<1>5. Send(lib[Game], "ECHO", plan.echo % 2) \in Speaking(Locid)
  BY <1>1, <1>4, GameSpeaks, SendType
<1> QED
  BY <1>1, <1>3, <1>5, EmitInv

LEMMA UnsettledHistory ==
    ASSUME TypeInv, NEW c \in BOOLEAN, hist' = [hist EXCEPT !.unsettled = @ \/ c]
    PROVE  /\ hist' \in History /\ hist'.failed = hist.failed
           /\ hist'.spoke = hist.spoke /\ hist'.strayed = hist.strayed
<1>1. ASSUME NEW b \in BOOLEAN
      PROVE  LET h == [hist EXCEPT !.unsettled = b] IN
             /\ h \in History /\ h.failed = hist.failed
             /\ h.spoke = hist.spoke /\ h.strayed = hist.strayed
  BY DEF TypeInv, History
<1>2. (hist.unsettled \/ c) \in BOOLEAN
  OBVIOUS
<1> QED
  BY <1>1, <1>2

LEMMA GameSignsInv ==
    ASSUME Inv, NEW sign \in Sign, GameSigns(sign)
    PROVE  Inv'
<1> DEFINE say == CASE sign = "DONT"    -> "NAWS"
                    [] sign = "CHARSET" -> "DO CHARSET"
                    [] OTHER            -> sign
<1>1. /\ TypeInv /\ plan \in PlanType /\ hist \in History /\ hist' = hist
      /\ Emit(Send(lib[Game], say, 0))
      /\ plan' = [plan EXCEPT !.signs = @ \ {sign}]
  BY DEF Inv, TypeInv, GameSigns
<1>2. plan' \in PlanType /\ plan'.check = plan.check
  BY <1>1 DEF PlanType
<1>3. say \in {"NAWS", "DO CHARSET", "GMCP", "MSSP", "AYT"}
  BY DEF Sign
<1> HIDE DEF say
<1>4. Item(lib[Game].enc, say, 0) \in Wording(Locid)
  BY <1>1, <1>3, GameSpeaks DEF Item, Wording, Said, Arg
<1>5. Send(lib[Game], say, 0) \in Speaking(Locid)
  BY <1>1, <1>4, GameSpeaks, SendType
<1> QED
  BY <1>1, <1>2, <1>5, EmitInv

LEMMA GameOffersInv ==
    ASSUME Inv, NEW o \in Offer, GameOffers(o)
    PROVE  Inv'
<1>1. /\ TypeInv /\ plan \in PlanType /\ Choosing \in BOOLEAN
      /\ Emit(Send(lib[Game], "REQUEST", o))
      /\ plan' = [plan EXCEPT !.offers = @ \ {o}]
      /\ hist' = [hist EXCEPT !.unsettled = @ \/ Choosing]
  BY DEF Inv, TypeInv, GameOffers, Choosing
<1>2. plan' \in PlanType /\ plan'.check = plan.check
  BY <1>1 DEF PlanType
<1>3. Item(lib[Game].enc, "REQUEST", o) \in Wording(Locid)
  BY <1>1, GameSpeaks DEF Item, Wording, Said, Arg
<1>4. Send(lib[Game], "REQUEST", o) \in Speaking(Locid)
  BY <1>1, <1>3, GameSpeaks, SendType
<1> QED
  BY <1>1, <1>2, <1>4, UnsettledHistory, EmitInv

LEMMA DisputedHistory ==
    ASSUME TypeInv, NEW b, hist' = [hist EXCEPT !.disputed = b], b \in BOOLEAN
    PROVE  /\ hist' \in History /\ hist'.failed = hist.failed
           /\ hist'.spoke = hist.spoke /\ hist'.strayed = hist.strayed
  BY DEF TypeInv, History

LEMMA GameReadsInv ==
    ASSUME Inv, GameReads
    PROVE  Inv'
<1> DEFINE item == Head(wire[Game])
           g == lib[Game]
           Answer(l) ==
               /\ lib' = [lib EXCEPT ![Game] = [l EXCEPT !.out = <<>>]]
               /\ wire' = [wire EXCEPT ![Game] = Tail(@), ![Locid] = @ \o l.out]
<1>1. /\ TypeInv /\ wire[Game] # <<>> /\ wire[Game] \in Seq(Wording(Game))
      /\ hist \in History /\ charset \in Name
      /\ UNCHANGED <<rx, sess, page, down, up, plan>>
  BY DEF Inv, TypeInv, GameReads, End
<1>2. item \in Wording(Game) /\ Tail(wire[Game]) \in Seq(Wording(Game))
  BY <1>1, HeadTailProperties
<1>3. g \in Speaking(Locid) /\ g.enc \in Nat
  BY <1>1, GameSpeaks
<1>4. ASSUME NEW l \in Speaking(Locid), Answer(l), charset' \in Name,
             hist' \in History, hist'.failed = hist.failed,
             hist'.spoke = hist.spoke, hist'.strayed = hist.strayed
      PROVE  Inv'
  <2>1. wire' = [wire EXCEPT ![Game] = Tail(wire[Game]), ![Locid] = @ \o l.out]
    BY <1>4
  <2>2. TypeInv'
    BY <1>1, <1>2, <1>4, <2>1, WiresType DEF TypeInv
  <2> QED
    BY <1>1, <1>4, <2>2, ElsewhereInv
<1>5. CASE /\ Answer(IF g.dec = 0 THEN g ELSE EndRecv(g))
           /\ UNCHANGED <<charset, hist>>
  <2>1. (IF g.dec = 0 THEN g ELSE EndRecv(g)) \in Speaking(Locid)
    BY <1>3, EndRecvType
  <2> QED
    BY <1>1, <1>4, <1>5, <2>1
<1>6. CASE /\ item.say \in About
           /\ Answer(Hear(g, item))
           /\ hist' = [hist EXCEPT !.hushed = @ \/ Hushed(g, Hear(g, item))]
           /\ UNCHANGED charset
  <2>1. item.say = "BEGIN" => item.arg \in Nat
    BY <1>2 DEF Wording
  <2>2. Hear(g, item) \in Speaking(Locid)
    BY <1>3, <1>6, <2>1, HearType
  <2>3. /\ hist' \in History /\ hist'.failed = hist.failed
        /\ hist'.spoke = hist.spoke /\ hist'.strayed = hist.strayed
    BY <1>1, <1>6, HushedHistory
  <2> QED
    BY <1>1, <1>4, <1>6, <2>2, <2>3
<1>7. CASE /\ item.say = "TEXT"
           /\ Answer(g)
           /\ hist' = [hist EXCEPT !.got[Game] = Append(@, item.arg)]
           /\ UNCHANGED charset
  <2>1. item.arg \in Nat /\ Game \in End
    BY <1>2, <1>7 DEF Wording, End
  <2>2. Append(hist.got[Game], item.arg) \in Seq(Nat)
    BY <1>1, <2>1, AppendProperties DEF History
  <2>3. ASSUME NEW q \in Seq(Nat)
        PROVE  LET h == [hist EXCEPT !.got[Game] = q] IN
               /\ h \in History /\ h.failed = hist.failed
               /\ h.spoke = hist.spoke /\ h.strayed = hist.strayed
    BY <1>1, <2>1 DEF History
  <2>4. /\ hist' \in History /\ hist'.failed = hist.failed
        /\ hist'.spoke = hist.spoke /\ hist'.strayed = hist.strayed
    BY <1>7, <2>2, <2>3
  <2> QED
    BY <1>1, <1>3, <1>4, <1>7, <2>4
<1>8. ASSUME item.say = "REQUEST", NEW c \in Supported \cup {item.arg},
             Answer(Send(g, "ACCEPTED", c)), charset' = c,
             hist' = [hist EXCEPT !.disputed = c # item.arg]
      PROVE  Inv'
  <2>1. c \in Name
    BY <1>2, <1>8, EndsAssumption, CharsetAssumption DEF Wording
  <2>2. Item(g.enc, "ACCEPTED", c) \in Wording(Locid)
    BY <1>3, <2>1 DEF Item, Wording, Said, Arg
  <2>3. Send(g, "ACCEPTED", c) \in Speaking(Locid)
    BY <1>3, <2>2, SendType
  <2>4. /\ hist' \in History /\ hist'.failed = hist.failed
        /\ hist'.spoke = hist.spoke /\ hist'.strayed = hist.strayed
    BY <1>1, <1>8, DisputedHistory DEF Inv
  <2> QED
    BY <1>1, <1>4, <1>8, <2>1, <2>3, <2>4
<1>9. CASE /\ item.say = "REQUEST"
           /\ Answer(Send(g, "REJECTED", item.arg))
           /\ hist' = [hist EXCEPT !.disputed = TRUE]
           /\ UNCHANGED charset
  <2>1. item.arg \in Name
    BY <1>2, <1>9, EndsAssumption DEF Wording
  <2>2. Item(g.enc, "REJECTED", item.arg) \in Wording(Locid)
    BY <1>3, <2>1 DEF Item, Wording, Said, Arg
  <2>3. Send(g, "REJECTED", item.arg) \in Speaking(Locid)
    BY <1>3, <2>2, SendType
  <2>4. /\ hist' \in History /\ hist'.failed = hist.failed
        /\ hist'.spoke = hist.spoke /\ hist'.strayed = hist.strayed
    BY <1>1, <1>9 DEF History
  <2> QED
    BY <1>1, <1>4, <1>9, <2>3, <2>4
<1>10. CASE /\ item.say = "ACCEPTED"
            /\ Answer(g)
            /\ charset' = item.arg
            /\ hist' = [hist EXCEPT !.disputed = FALSE]
  <2>1. item.arg \in Name
    BY <1>2, <1>10 DEF Wording
  <2>2. /\ hist' \in History /\ hist'.failed = hist.failed
        /\ hist'.spoke = hist.spoke /\ hist'.strayed = hist.strayed
    BY <1>1, <1>10, DisputedHistory DEF Inv
  <2> QED
    BY <1>1, <1>3, <1>4, <1>10, <2>1, <2>2
<1>11. CASE /\ item.say \in {"REJECTED", "YES"}
            /\ Answer(g)
            /\ UNCHANGED <<charset, hist>>
  BY <1>1, <1>3, <1>4, <1>11
<1> QED
  BY <1>5, <1>6, <1>7, <1>8, <1>9, <1>10, <1>11 DEF GameReads

-----------------------------------------------------------------------------
(* The invariant *)

LEMMA InitInv ==
    ASSUME Init
    PROVE  Inv
<1>1. /\ plan \in PlanType
      /\ lib = [e \in End |-> FreshEnd]
      /\ wire = [e \in End |-> <<>>]
      /\ rx = NotReading
      /\ sess = [st |-> IF plan.check = {} THEN "UP" ELSE "BLOCKING",
                 check |-> plan.check, due |-> FALSE, q |-> <<>>, want |-> FALSE,
                 spoken |-> FALSE, echo |-> 0, cs |-> FALSE, charset |-> Default]
      /\ page = [ws |-> TRUE, mode |-> 0, charset |-> Default, shown |-> <<>>]
      /\ down = <<>> /\ up = <<>> /\ charset = Default
  BY PlansAssumption DEF Init
<1>2. /\ hist \in History /\ ~hist.failed
  <2>1. <<>> \in Seq(Nat)
    OBVIOUS
  <2> QED
    BY <2>1 DEF Init, History
<1>3. Default \in Name /\ plan.check \in SUBSET Check /\ Locid \in End
  BY <1>1, CharsetAssumption DEF PlanType, End
<1>4. lib \in [End -> EndType]
  BY <1>1 DEF FreshEnd, Garbled, EndType, QState
<1>5. /\ wire \in [End -> UNION {Seq(Wording(e)) : e \in End}]
      /\ \A e \in End : wire[e] \in Seq(Wording(e))
  <2>1. \A e \in End : <<>> \in Seq(Wording(e))
    OBVIOUS
  <2> QED
    BY <1>1, <2>1
<1>6. rx \in [left : 0 .. Len(wire[Locid]), dec : Nat, freed : BOOLEAN]
  <2>1. wire[Locid] = <<>> /\ 0 \in 0 .. Len(wire[Locid])
    BY <1>1, <1>3
  <2> QED
    BY <1>1, <2>1 DEF NotReading
<1>7. sess \in Session
  <2>1. <<>> \in Seq(Tidings)
    OBVIOUS
  <2> QED
    BY <1>1, <1>3, <2>1 DEF Session
<1>8. page \in PageType /\ down \in Seq(Tidings) /\ up \in Seq(Wishes)
  <2>1. <<>> \in Seq(Nat \cup Name)
    OBVIOUS
  <2> QED
    BY <1>1, <1>3, <2>1 DEF PageType
<1>9. TypeInv
  BY <1>1, <1>2, <1>3, <1>4, <1>5, <1>6, <1>7, <1>8 DEF TypeInv
<1>10. GateInv
  BY <1>1, <1>2 DEF GateInv, Without
<1>11. CheckInv
  BY <1>1 DEF CheckInv, Shown
<1>12. EchoInv
  BY <1>1 DEF EchoInv, Learns
<1> QED
  BY <1>9, <1>10, <1>11, <1>12 DEF Inv

\* One case for every action.
LEMMA NextInv ==
    ASSUME Inv, [Next]_vars
    PROVE  Inv'
<1>1. CASE Server
  BY <1>1, RxInv, DeadlinePassesInv, TimerInv, WriteableInv, ReceiveInv, RawCloseInv DEF Server
<1>2. CASE Lost \/ Roam \/ WebsocketCloses
  BY <1>2, LostInv, RoamInv, WebsocketClosesInv
<1>3. CASE Browser
  BY <1>3, PageReadsInv, InputInv, PickCharsetInv, DisconnectInv DEF Browser
<1>4. CASE Peer
  BY <1>4, GameTextInv, GameWishInv, GameEchoInv, GameReadsInv, GameSignsInv, GameOffersInv
     DEF Peer
<1>5. CASE UNCHANGED vars
  BY <1>5 DEF vars, Inv, TypeInv, GateInv, CheckInv, EchoInv, Shown, Learns, Settles, Ends,
              Without
<1> QED
  BY <1>1, <1>2, <1>3, <1>4, <1>5 DEF Next

(* In every state of every behaviour: types, the gate, the witnesses and    *)
(* the mode.                                                               *)
THEOREM Invariant == Spec => []Inv
<1>1. Init => Inv
  BY InitInv
<1>2. Inv /\ [Next]_vars => Inv'
  BY NextInv
<1> QED
  BY <1>1, <1>2, PTL DEF Spec

LEMMA InvTypes ==
    ASSUME Inv
    PROVE  TypeOK
<1>1. Session \subseteq SessionType
  BY DEF Session, SessionType, Tidings
<1>2. /\ Seq(Tidings) \subseteq Seq(Message)
      /\ Tidings \subseteq Message
  BY DEF Tidings
<1>3. \A e \in End : \A i \in DOMAIN wire[e] :
         wire[e][i].enc \in Nat /\ wire[e][i].say \in Said
  <2>1. ASSUME NEW e \in End, NEW i \in DOMAIN wire[e]
        PROVE  wire[e][i] \in Wording(e)
    BY <2>1 DEF Inv, TypeInv
  <2> QED
    BY <2>1 DEF Wording
<1>4. \A i \in DOMAIN up : up[i].cmd \in {"TERM", "CHARSET", "DISCONNECT"}
  <2>1. ASSUME NEW i \in DOMAIN up
        PROVE  up[i] \in Wishes
    BY <2>1 DEF Inv, TypeInv
  <2> QED
    BY <2>1 DEF Wishes
<1>5. /\ hist.spoke \subseteq Check
      /\ \A f \in Flag : hist[f] \in BOOLEAN
  BY DEF Inv, TypeInv, History, Flag
<1>6. page.ws \in BOOLEAN /\ page.mode \in {0, 1} /\ page.charset \in Name
  BY DEF Inv, TypeInv, PageType
<1> QED
  BY <1>1, <1>2, <1>3, <1>4, <1>5, <1>6 DEF Inv, TypeInv, TypeOK

(* Whatever is read, sent or lost, every queue, wire and session keeps the  *)
(* type its handlers rely on.                                              *)
THEOREM TypeCorrect == Spec => []TypeOK
<1>1. Inv => TypeOK
  BY InvTypes
<1> QED
  BY <1>1, Invariant, PTL

(* security_enforcement: nothing of a game that failed its checks is ever   *)
(* shown, however much of it was waiting.                                  *)
THEOREM GateHolding == Spec => []GateHolds
<1>1. Inv => GateHolds
  BY DEF Inv, GateInv, GateHolds
<1> QED
  BY <1>1, Invariant, PTL

(* security_checked: a game that is let through has shown every protocol    *)
(* that was asked of it, or a DONT was taken for one.                      *)
THEOREM Witnesses == Spec => []ChecksWitnessed
<1>1. Inv => ChecksWitnessed
  BY DEF Inv, CheckInv, Shown, ChecksWitnessed
<1> QED
  BY <1>1, Invariant, PTL

(* loci_client_send_echosga: the browser ends up with the game's ECHO, and  *)
(* so does the next one that takes the game over.                          *)
THEOREM EchoLearned == Spec => []EchoTold
<1>1. Inv => EchoTold
  BY DEF Inv, EchoInv, Learns, Settles, Ends, Without, EchoTold
<1> QED
  BY <1>1, Invariant, PTL

-----------------------------------------------------------------------------
(* The queue is attended to *)

\* With a websocket, somebody will be called back for what waits in s.
Woken(s) == page.ws /\ s.q # <<>> => s.want \/ hist.stalled

\* t is what a handler may make of s.
Minds(s, t) == t \in Session /\ (Woken(s) => Woken(t))

LEMMA MindsTrans ==
    ASSUME NEW s, NEW t, NEW u, Minds(s, t), Minds(t, u)
    PROVE  Minds(s, u)
  BY DEF Minds

LEMMA PushMinds ==
    ASSUME TypeInv, NEW s \in Session, NEW cmd, NEW arg, Msg(cmd, arg) \in Tidings
    PROVE  Minds(s, Push(s, cmd, arg))
<1> DEFINE q == Append(s.q, Msg(cmd, arg))
           w == s.want \/ page.ws
<1>1. Push(s, cmd, arg) = [s EXCEPT !.q = q, !.want = w]
  BY DEF Push
<1>2. page.ws => w
  OBVIOUS
<1> HIDE DEF q, w
<1>3. Push(s, cmd, arg).want = w
  BY <1>1 DEF Session
<1>4. Push(s, cmd, arg) \in Session
  BY PushFields
<1> QED
  BY <1>2, <1>3, <1>4 DEF Minds, Woken

LEMMA PushEchoMinds ==
    ASSUME TypeInv, NEW s \in Session
    PROVE  Minds(s, PushEcho(s))
<1>1. Msg("ECHO", s.echo) \in Tidings
  BY DEF Session, Msg, Tidings, Message
<1>2. Minds(s, Push(s, "ECHO", s.echo)) /\ Minds(s, s)
  BY <1>1, PushMinds DEF Minds
<1> QED
  BY <1>2 DEF PushEcho

\* What leaves the queue and the callback alone.
LEMMA CalmMinds ==
    ASSUME NEW s \in Session, NEW t \in Session, t.q = s.q, t.want = s.want
    PROVE  Minds(s, t)
  BY DEF Minds, Woken

LEMMA ShowMinds ==
    ASSUME TypeInv, NEW s \in Session, NEW n \in Nat
    PROVE  Minds(s, Show(s, n))
<1> DEFINE t == [s EXCEPT !.spoken = TRUE]
           u == IF s.spoken THEN s ELSE PushEcho(t)
<1>1. t \in Session /\ t.q = s.q /\ t.want = s.want
  BY DEF Session
<1>2. Minds(s, t) /\ Minds(s, s)
  BY <1>1, CalmMinds
<1> HIDE DEF t
<1>3. Minds(t, PushEcho(t))
  BY <1>1, PushEchoMinds
<1>4. Minds(s, u) /\ u \in Session
  BY <1>2, <1>3, MindsTrans DEF Minds
<1>5. Msg("TERM", n) \in Tidings
  BY DEF Msg, Tidings, Message
<1>6. Show(s, n) = Push(u, "TERM", n)
  BY DEF Show, t
<1> HIDE DEF u
<1>7. Minds(u, Push(u, "TERM", n))
  BY <1>4, <1>5, PushMinds
<1> QED
  BY <1>4, <1>6, <1>7, MindsTrans

LEMMA CheckedMinds ==
    ASSUME NEW s \in Session, NEW flags
    PROVE  Minds(s, Checked(s, flags))
<1>1. s.check \ flags \in SUBSET Check
  BY DEF Session
<1>2. ASSUME NEW c \in SUBSET Check
      PROVE  LET t == [s EXCEPT !.check = c]
             IN  t \in Session /\ t.q = s.q /\ t.want = s.want
  BY DEF Session
<1> QED
  BY <1>1, <1>2, CalmMinds DEF Checked

LEMMA StrayMinds ==
    ASSUME TypeInv, NEW s \in Session, NEW opt
    PROVE  Minds(s, Stray(s, opt))
<1>1. /\ Minds(s, Checked(s, {"MUD"})) /\ Minds(s, Checked(s, {"MSSP"})) /\ Minds(s, s)
      /\ Checked(s, {"MUD"}) \in Session
  BY CheckedMinds DEF Minds
<1>2. Msg("GMCP", 0) \in Tidings
  BY DEF Msg, Tidings, Message
<1>3. Minds(Checked(s, {"MUD"}), Push(Checked(s, {"MUD"}), "GMCP", 0))
  BY <1>1, <1>2, PushMinds
<1> QED
  BY <1>1, <1>3, MindsTrans DEF Stray

(* A failed game's queue is empty; any other goes on as it was.             *)
LEMMA EnforcedMinds ==
    ASSUME NEW s \in Session
    PROVE  Minds(s, Enforced(s))
  BY EnforcedFields DEF Minds, Woken

\* The callback that was asked for is still to come when the handler is done.
LEMMA MindedStep ==
    ASSUME Woken(sess), Minds(sess, sess'), page'.ws = page.ws,
           hist'.stalled = hist.stalled
    PROVE  QueueAttended'
  BY DEF Minds, Woken, QueueAttended

LEMMA DoneMinds ==
    ASSUME Woken(sess), NEW n, NEW l, NEW s, Minds(sess, s), NEW r, Done(n, l, s, r),
           hist'.stalled = hist.stalled
    PROVE  QueueAttended'
<1>1. sess' = (IF r.left = n THEN Unblocked(s) ELSE s) /\ page' = page
  BY DEF Done
<1>2. s \in Session
  BY DEF Minds
<1>3. /\ Unblocked(s) \in Session /\ Unblocked(s).q = s.q
      /\ Unblocked(s).want = s.want
  BY <1>2 DEF Unblocked, Session
<1>4. Minds(s, Unblocked(s))
  BY <1>2, <1>3, CalmMinds
<1>5. Minds(sess, sess')
  BY <1>1, <1>4, MindsTrans
<1> QED
  BY <1>1, <1>5, MindedStep

\* What happened otherwise says nothing of it.
LEMMA StalledFields ==
    ASSUME TypeInv, NEW a, NEW b, NEW c, NEW e
    PROVE  /\ [hist EXCEPT !.failed = a].stalled = hist.stalled
           /\ [hist EXCEPT !.failed = a, !.closed = b].stalled = hist.stalled
           /\ [hist EXCEPT !.dropped = a, !.unsettled = b].stalled = hist.stalled
           /\ [hist EXCEPT !.unsettled = a].stalled = hist.stalled
           /\ [hist EXCEPT !.disputed = a].stalled = hist.stalled
           /\ [hist EXCEPT !.hushed = a].stalled = hist.stalled
           /\ [hist EXCEPT !.bypassed = a].stalled = hist.stalled
           /\ [hist EXCEPT !.spanned = a].stalled = hist.stalled
           /\ [hist EXCEPT !.spoke = a].stalled = hist.stalled
           /\ [hist EXCEPT !.spoke = a, !.strayed = b].stalled = hist.stalled
           /\ [hist EXCEPT !.spoke = a, !.refed = b].stalled = hist.stalled
           /\ [hist EXCEPT !.spoke = a, !.strayed = b, !.hushed = c].stalled = hist.stalled
           /\ [hist EXCEPT !.got[e] = a].stalled = hist.stalled
           /\ [hist EXCEPT !.sent[e] = a].stalled = hist.stalled
  BY DEF TypeInv, History

\* Only a writeable callback may find that it has come in vain.
LEMMA RxStalls ==
    ASSUME TypeInv, Rx
    PROVE  hist'.stalled = hist.stalled
<1>1. CASE \E k \in 1 .. Len(wire[Locid]) : RawRx(k)
  BY <1>1, StalledFields DEF RawRx
<1>2. CASE RxText
  BY <1>2, StalledFields DEF RxText
<1>3. CASE \E stray \in Strays : RxMccpx(stray)
  BY <1>3, StalledFields DEF RxMccpx
<1>4. CASE \E stray \in Strays : RxDont(stray)
  BY <1>4, StalledFields DEF RxDont
<1>5. CASE RxEcho
  BY <1>5, StalledFields DEF RxEcho
<1>6. CASE RxGmcp
  BY <1>6, StalledFields DEF RxGmcp
<1>7. CASE RxMssp
  BY <1>7, StalledFields DEF RxMssp
<1>8. CASE RxAyt
  BY <1>8, StalledFields DEF RxAyt
<1>9. CASE RxDoCharset
  BY <1>9, StalledFields DEF RxDoCharset
<1>10. CASE RxOffer
  BY <1>10, StalledFields DEF RxOffer
<1>11. CASE RxAnswer
  BY <1>11, StalledFields DEF RxAnswer
<1>12. CASE RxUnreadable
  BY <1>12 DEF RxUnreadable
<1>13. CASE RxFreed
  BY <1>13, StalledFields DEF RxFreed
<1>14. CASE RxAccept
  BY <1>14, StalledFields DEF RxAccept
<1>15. CASE RxSpoilt
  BY <1>15, StalledFields DEF RxSpoilt
<1> QED
  BY <1>1, <1>2, <1>3, <1>4, <1>5, <1>6, <1>7, <1>8, <1>9, <1>10, <1>11, <1>12, <1>13,
     <1>14, <1>15 DEF Rx

LEMMA CallbackStalls ==
    ASSUME TypeInv, DeadlinePasses \/ Timer \/ Receive \/ RawClose
    PROVE  hist'.stalled = hist.stalled /\ page' = page
<1>1. CASE DeadlinePasses
  BY <1>1 DEF DeadlinePasses
<1>2. CASE Timer
  BY <1>2, StalledFields DEF Timer
<1>3. CASE Receive
  <2>1. hist' = [hist EXCEPT !.failed = @ \/ Failed(sess)] /\ page' = page
    BY <1>3 DEF Receive
  <2> QED
    BY <2>1, StalledFields
<1>4. CASE RawClose
  <2>1. hist' = [hist EXCEPT !.failed = @ \/ Failed(sess), !.closed = TRUE] /\ page' = page
    BY <1>4 DEF RawClose
  <2> QED
    BY <2>1, StalledFields
<1> QED
  BY <1>1, <1>2, <1>3, <1>4

LEMMA BrowserStalls ==
    ASSUME TypeInv, Browser
    PROVE  hist'.stalled = hist.stalled /\ sess' = sess /\ page'.ws = page.ws
<1>1. page \in PageType
  BY DEF TypeInv
<1>2. CASE PageReads
  BY <1>1, <1>2 DEF PageReads, PageType
<1>3. CASE Input
  BY <1>3, StalledFields DEF Input
<1>4. CASE \E c \in Name : PickCharset(c)
  <2>1. hist' = [hist EXCEPT !.unsettled = Offering] /\ sess' = sess
    BY <1>4 DEF PickCharset
  <2>2. page'.ws = page.ws
    BY <1>1, <1>4 DEF PickCharset, PageType
  <2> QED
    BY <2>1, <2>2, StalledFields
<1>5. CASE Disconnect
  BY <1>5 DEF Disconnect
<1> QED
  BY <1>2, <1>3, <1>4, <1>5 DEF Browser

LEMMA PeerStalls ==
    ASSUME TypeInv, Peer
    PROVE  hist'.stalled = hist.stalled /\ sess' = sess /\ page' = page
<1>1. CASE GameText
  BY <1>1, StalledFields DEF GameText, Emit
<1>2. CASE GameWish
  <2>1. sess' = sess /\ page' = page
    BY <1>2 DEF GameWish, Emit
  <2>2. \/ hist' = hist
        \/ hist' = [hist EXCEPT !.hushed = @ \/ Hushed(lib[Game], EndSend(lib[Game]))]
    BY <1>2 DEF GameWish
  <2>3. CASE hist' = [hist EXCEPT !.hushed = @ \/ Hushed(lib[Game], EndSend(lib[Game]))]
    BY <2>1, <2>3, StalledFields
  <2> QED
    BY <2>1, <2>2, <2>3
<1>3. CASE GameEcho \/ \E sign \in Sign : GameSigns(sign)
  BY <1>3 DEF GameEcho, GameSigns, Emit
<1>4. CASE \E o \in Offer : GameOffers(o)
  BY <1>4, StalledFields DEF GameOffers, Emit
<1>5. CASE GameReads
  <2>1. sess' = sess /\ page' = page
    BY <1>5 DEF GameReads
  <2>2. \/ hist' = hist
        \/ \E a : hist' = [hist EXCEPT !.hushed = a]
        \/ \E a : hist' = [hist EXCEPT !.got[Game] = a]
        \/ \E a : hist' = [hist EXCEPT !.disputed = a]
    BY <1>5 DEF GameReads
  <2>3. ASSUME NEW a
        PROVE  /\ [hist EXCEPT !.hushed = a].stalled = hist.stalled
               /\ [hist EXCEPT !.got[Game] = a].stalled = hist.stalled
               /\ [hist EXCEPT !.disputed = a].stalled = hist.stalled
    BY StalledFields
  <2> QED
    BY <2>1, <2>2, <2>3
<1> QED
  BY <1>1, <1>2, <1>3, <1>4, <1>5 DEF Peer

\* The handlers of a read.
LEMMA RxAttends ==
    ASSUME TypeInv, Woken(sess), Rx
    PROVE  QueueAttended'
<1>1. hist'.stalled = hist.stalled
  BY RxStalls
<1>2. sess \in Session /\ Minds(sess, sess)
  BY DEF TypeInv, Minds
<1>3. ASSUME NEW k \in 1 .. Len(wire[Locid]), RawRx(k)
      PROVE  QueueAttended'
  <2>1. sess' = Enforced(sess) /\ page' = page
    BY <1>3 DEF RawRx
  <2> QED
    BY <1>1, <1>2, <2>1, EnforcedMinds, MindedStep
<1>4. CASE RxText
  <2>1. rx.left > 0 /\ It.arg \in Nat
    BY <1>4, ReadFacts DEF RxText, Reads, Wording
  <2>2. Minds(sess, Show(sess, It.arg))
    BY <1>2, <2>1, ShowMinds
  <2>3. Done(1, lib[Locid], Show(sess, It.arg), rx)
    BY <1>4 DEF RxText
  <2> QED
    BY <1>1, <2>2, <2>3, DoneMinds
<1>5. ASSUME NEW flags, NEW stray, NEW l, NEW r,
             Done(1, l, Stray(Checked(sess, flags), stray), r)
      PROVE  QueueAttended'
  <2>1. Minds(sess, Checked(sess, flags)) /\ Checked(sess, flags) \in Session
    BY <1>2, CheckedMinds DEF Minds
  <2>2. Minds(Checked(sess, flags), Stray(Checked(sess, flags), stray))
    BY <2>1, StrayMinds
  <2>3. Minds(sess, Stray(Checked(sess, flags), stray))
    BY <2>1, <2>2, MindsTrans
  <2> QED
    BY <1>1, <1>5, <2>3, DoneMinds
<1>6. ASSUME NEW stray \in Strays, RxMccpx(stray) \/ RxDont(stray)
      PROVE  QueueAttended'
  <2>1. CASE RxMccpx(stray)
    BY <1>5, <2>1 DEF RxMccpx
  <2>2. CASE RxDont(stray)
    BY <1>5, <2>2 DEF RxDont
  <2> QED
    BY <1>6, <2>1, <2>2
<1>7. CASE RxEcho
  <2> DEFINE e == [sess EXCEPT !.echo = It.arg]
             s == Checked(e, {"TELNET"})
  <2>1. It.arg \in {0, 1}
    BY <1>7, ReadFacts DEF RxEcho, Reads, Wording
  <2>2. e \in Session /\ e.q = sess.q /\ e.want = sess.want
    BY <1>2, <2>1 DEF Session
  <2>3. Done(1, lib[Locid], PushEcho(s), rx)
    BY <1>7 DEF RxEcho
  <2> HIDE DEF e
  <2>4. Minds(sess, e) /\ Minds(e, s)
    BY <1>2, <2>2, CalmMinds, CheckedMinds
  <2>5. s \in Session
    BY <2>4 DEF Minds
  <2> HIDE DEF s
  <2>6. Minds(s, PushEcho(s))
    BY <2>5, PushEchoMinds
  <2>7. Minds(sess, PushEcho(s))
    BY <2>4, <2>6, MindsTrans
  <2> QED
    BY <1>1, <2>3, <2>7, DoneMinds
<1>8. CASE RxGmcp
  <2> DEFINE s == Checked(sess, {"TELNET", "MUD"})
  <2>1. Minds(sess, s) /\ s \in Session
    BY <1>2, CheckedMinds DEF Minds
  <2>2. Done(1, lib[Locid], Push(s, "GMCP", 1), rx)
    BY <1>8 DEF RxGmcp
  <2>3. Msg("GMCP", 1) \in Tidings
    BY DEF Msg, Tidings, Message
  <2> HIDE DEF s
  <2>4. Minds(s, Push(s, "GMCP", 1))
    BY <2>1, <2>3, PushMinds
  <2> QED
    BY <1>1, <2>1, <2>2, <2>4, MindsTrans, DoneMinds
<1>9. CASE RxMssp \/ RxAnswer
  <2>1. Minds(sess, Checked(sess, Check)) /\ Minds(sess, Checked(sess, {"TELNET"}))
    BY <1>2, CheckedMinds
  <2>2. \/ Done(1, lib[Locid], Checked(sess, Check), rx)
        \/ Done(1, lib[Locid], Checked(sess, {"TELNET"}), rx)
    BY <1>9 DEF RxMssp, RxAnswer
  <2> QED
    BY <1>1, <2>1, <2>2, DoneMinds
<1>10. CASE RxAyt \/ RxUnreadable \/ RxSpoilt \/ RxFreed
  <2>1. \E n, l : Done(n, l, sess, rx)
    BY <1>10 DEF RxAyt, RxUnreadable, RxSpoilt, RxFreed
  <2> QED
    BY <1>1, <1>2, <2>1, DoneMinds
<1>11. CASE RxDoCharset
  <2> DEFINE c == [sess EXCEPT !.cs = TRUE]
             s == Checked(c, {"TELNET"})
  <2>1. c \in Session /\ c.q = sess.q /\ c.want = sess.want
    BY <1>2 DEF Session
  <2> HIDE DEF c
  <2>2. Done(1, SendRequest(lib[Locid], s), s, rx)
    BY <1>11 DEF RxDoCharset, c
  <2>3. Minds(sess, c) /\ Minds(c, s)
    BY <1>2, <2>1, CalmMinds, CheckedMinds
  <2> HIDE DEF s
  <2> QED
    BY <1>1, <2>2, <2>3, MindsTrans, DoneMinds
<1>12. CASE RxOffer
  <2> DEFINE c == Accepted(It.arg)
             s == Checked(sess, {"TELNET"})
             w == [s EXCEPT !.charset = c]
             t == IF c = NoName THEN s ELSE Push(w, "CHARSET", c)
  <2>1. \E l : Done(1, l, t, rx)
    BY <1>12 DEF RxOffer
  <2>2. c \in Name \cup {NoName}
    <3>1. It.arg \in Offer
      BY <1>12, ReadFacts DEF RxOffer, Reads, Wording
    <3> QED
      BY <3>1, AcceptedType
  <2>3. Minds(sess, s) /\ s \in Session
    BY <1>2, CheckedMinds DEF Minds
  <2> HIDE DEF c, s
  <2>4. c # NoName => Minds(s, Push(w, "CHARSET", c))
    <3>1. SUFFICES ASSUME c # NoName PROVE Minds(s, Push(w, "CHARSET", c))
      OBVIOUS
    <3>2. c \in Name /\ Msg("CHARSET", c) \in Tidings
      BY <2>2, <3>1 DEF Msg, Tidings, Message
    <3>3. w \in Session /\ w.q = s.q /\ w.want = s.want
      BY <2>3, <3>2 DEF Session
    <3> HIDE DEF w
    <3>4. Minds(s, w) /\ Minds(w, Push(w, "CHARSET", c))
      BY <2>3, <3>2, <3>3, CalmMinds, PushMinds
    <3> QED
      BY <3>4, MindsTrans
  <2> HIDE DEF w
  <2>5. Minds(sess, t)
    BY <2>3, <2>4, MindsTrans
  <2> HIDE DEF t
  <2> QED
    BY <1>1, <2>1, <2>5, DoneMinds
<1>13. CASE RxAccept
  <2> DEFINE flags == Proves(lib[Locid], It)
  <2>1. \E n, l : Done(n, l, Checked(sess, flags), rx)
    BY <1>13 DEF RxAccept
  <2>2. Minds(sess, Checked(sess, flags))
    BY <1>2, CheckedMinds
  <2> QED
    BY <1>1, <2>1, <2>2, DoneMinds
<1> QED
  BY <1>3, <1>4, <1>6, <1>7, <1>8, <1>9, <1>10, <1>11, <1>12, <1>13 DEF Rx

(* It asks for the next call itself, while there is something left, or finds *)
(* that it has come too early.                                             *)
LEMMA WriteableAttends ==
    ASSUME TypeInv, Woken(sess), Writeable
    PROVE  QueueAttended'
<1> DEFINE e == Enforced(sess)
           s == [e EXCEPT !.want = FALSE]
<1>1. sess \in Session /\ hist \in History
  BY DEF TypeInv
<1>2. /\ e \in Session /\ (Failed(sess) => e.st = "CLOSING" /\ e.q = <<>>)
      /\ (~Failed(sess) => e = sess)
  BY <1>1, EnforcedFields
<1>3. hist'.stalled = (hist.stalled \/ (Waits(sess) /\ sess.q # <<>>))
  BY <1>1 DEF Writeable, History
<1>4. \/ (Waits(s) \/ s.q = <<>>) /\ sess' = s
      \/ ~Waits(s) /\ s.q # <<>> /\ sess' = [s EXCEPT !.q = Tail(@), !.want = Tail(s.q) # <<>>]
  BY DEF Writeable
<1> HIDE DEF e
<1>5. /\ s \in Session /\ s.q = e.q /\ s.st = e.st /\ s.due = e.due /\ s.check = e.check
  BY <1>2 DEF Session
<1> HIDE DEF s
<1>6. CASE (Waits(s) \/ s.q = <<>>) /\ sess' = s
  <2>1. CASE s.q = <<>>
    BY <1>6, <2>1 DEF QueueAttended
  <2>2. CASE Waits(s) /\ s.q # <<>>
    <3>1. ~Failed(sess)
      BY <1>2, <1>5, <2>2
    <3>2. Waits(sess) /\ sess.q # <<>>
      BY <1>2, <1>5, <2>2, <3>1 DEF Waits
    <3> QED
      BY <1>3, <3>2 DEF QueueAttended
  <2> QED
    BY <1>6, <2>1, <2>2
<1>7. CASE sess' = [s EXCEPT !.q = Tail(@), !.want = Tail(s.q) # <<>>]
  <2>1. sess'.q = Tail(s.q) /\ sess'.want = (Tail(s.q) # <<>>)
    BY <1>5, <1>7 DEF Session
  <2> QED
    BY <2>1 DEF QueueAttended
<1> QED
  BY <1>4, <1>6, <1>7

\* The other callbacks.
LEMMA CallbacksAttend ==
    ASSUME TypeInv, Woken(sess), DeadlinePasses \/ Timer \/ Receive \/ RawClose
    PROVE  QueueAttended'
<1> DEFINE e == Enforced(sess)
<1>1. hist'.stalled = hist.stalled
  BY CallbackStalls
<1>2. sess \in Session /\ page' = page
  BY CallbackStalls DEF TypeInv
<1>3. Minds(sess, e) /\ e \in Session
  BY <1>2, EnforcedMinds DEF Minds
<1>4. CASE DeadlinePasses
  <2>1. sess' \in Session /\ sess'.q = sess.q /\ sess'.want = sess.want
    BY <1>2, <1>4 DEF DeadlinePasses, Session
  <2> QED
    BY <1>1, <1>2, <2>1, CalmMinds, MindedStep
<1>5. CASE Timer
  BY <1>1, <1>2, <1>3, <1>5, MindedStep DEF Timer
<1>6. ASSUME NEW st \in {"CLOSING", "DOWN"}
      PROVE  LET d == [e EXCEPT !.st = st]
             IN  d \in Session /\ Minds(sess, d) /\ Minds(sess, Push(d, "CONNECT", 0))
  <2> DEFINE d == [e EXCEPT !.st = st]
  <2> HIDE DEF e
  <2>1. d \in Session /\ d.q = e.q /\ d.want = e.want
    BY <1>3, <1>6 DEF Session
  <2>2. Msg("CONNECT", 0) \in Tidings
    BY DEF Msg, Tidings, Message
  <2> HIDE DEF d
  <2>3. Minds(sess, d)
    BY <1>3, <2>1, CalmMinds, MindsTrans
  <2>4. Minds(d, Push(d, "CONNECT", 0))
    BY <2>1, <2>2, PushMinds
  <2> QED
    BY <2>1, <2>3, <2>4, MindsTrans DEF d
<1>7. CASE RawClose
  <2>1. \/ sess' = Push([e EXCEPT !.st = "DOWN"], "CONNECT", 0)
        \/ sess' = [e EXCEPT !.st = "DOWN"]
    BY <1>7 DEF RawClose
  <2> HIDE DEF e
  <2> QED
    BY <1>1, <1>2, <1>6, <2>1, MindedStep
<1>8. CASE Receive
  <2> DEFINE m == Head(up)
  <2>1. up \in Seq(Wishes) /\ up # <<>>
    BY <1>8 DEF TypeInv, Receive
  <2>2. m \in Wishes
    BY <2>1, HeadTailProperties
  <2>3. \/ m.cmd = "CHARSET" /\ sess' = [e EXCEPT !.charset = m.arg]
        \/ sess' = Push([e EXCEPT !.st = "CLOSING"], "CONNECT", 0)
        \/ sess' = e
    BY <1>8 DEF Receive
  <2> HIDE DEF e, m
  <2>4. CASE m.cmd = "CHARSET" /\ sess' = [e EXCEPT !.charset = m.arg]
    <3>1. m.arg \in Name
      BY <2>2, <2>4 DEF Wishes
    <3>2. sess' \in Session /\ sess'.q = e.q /\ sess'.want = e.want
      BY <1>3, <2>4, <3>1 DEF Session
    <3>3. Minds(sess, sess')
      BY <1>3, <3>2, CalmMinds, MindsTrans
    <3> QED
      BY <1>1, <1>2, <3>3, MindedStep
  <2>5. CASE \/ sess' = Push([e EXCEPT !.st = "CLOSING"], "CONNECT", 0)
             \/ sess' = e
    BY <1>1, <1>2, <1>3, <1>6, <2>5, MindedStep
  <2> QED
    BY <2>3, <2>4, <2>5
<1> QED
  BY <1>4, <1>5, <1>7, <1>8

\* A websocket that takes a game over asks for its first call itself.
LEMMA RoamAttends ==
    ASSUME TypeInv, Roam
    PROVE  QueueAttended'
<1> DEFINE e == Enforced(sess)
           q == Append(e.q, Msg("CONNECT", 1))
           s == [e EXCEPT !.charset = Default, !.want = TRUE, !.q = Append(@, Msg("CONNECT", 1))]
<1>1. e \in Session /\ Default \in Name /\ Msg("CONNECT", 1) \in Tidings
  BY EnforcedFields, CharsetAssumption DEF TypeInv, Msg, Tidings, Message
<1>2. sess' = PushEcho(s)
  BY DEF Roam
<1> HIDE DEF e
<1>3. q \in Seq(Tidings)
  BY <1>1, AppendProperties DEF Session
<1>4. s = [e EXCEPT !.charset = Default, !.want = TRUE, !.q = q]
  OBVIOUS
<1> HIDE DEF s, q
<1>5. s \in Session /\ s.want
  BY <1>1, <1>3, <1>4 DEF Session
<1>6. sess'.want
  <2>1. CASE s.spoken
    <3>1. s.q \in Seq(Tidings) /\ s.echo \in {0, 1}
      BY <1>5 DEF Session
    <3>2. Append(s.q, Msg("ECHO", s.echo)) \in Seq(Tidings)
      BY <3>1, AppendProperties DEF Msg, Tidings, Message
    <3>3. ASSUME NEW x \in Seq(Tidings), NEW w \in BOOLEAN
          PROVE  [s EXCEPT !.q = x, !.want = w].want = w
      BY <1>5 DEF Session
    <3>4. (s.want \/ page.ws) = TRUE
      BY <1>5
    <3> QED
      BY <1>2, <2>1, <3>2, <3>3, <3>4 DEF PushEcho, Push
  <2>2. CASE ~s.spoken
    BY <1>2, <1>5, <2>2 DEF PushEcho
  <2> QED
    BY <2>1, <2>2
<1> QED
  BY <1>6 DEF QueueAttended

LEMMA NextAttends ==
    ASSUME TypeInv, QueueAttended, [Next]_vars
    PROVE  QueueAttended'
<1>1. Woken(sess)
  BY DEF QueueAttended, Woken
<1>2. CASE Server
  BY <1>1, <1>2, RxAttends, WriteableAttends, CallbacksAttend DEF Server
<1>3. CASE Roam
  BY <1>3, RoamAttends
<1>4. CASE Lost \/ WebsocketCloses
  <2>1. page'.ws = FALSE
    BY <1>4 DEF TypeInv, PageType, Lost, WebsocketCloses
  <2> QED
    BY <2>1 DEF QueueAttended
<1>5. CASE Browser
  BY <1>5, BrowserStalls DEF QueueAttended
<1>6. CASE Peer
  BY <1>6, PeerStalls DEF QueueAttended
<1>7. CASE UNCHANGED vars
  BY <1>7 DEF vars, QueueAttended
<1> QED
  BY <1>2, <1>3, <1>4, <1>5, <1>6, <1>7 DEF Next

(* lws_callback_on_writable: a message waits in the queue of an open        *)
(* websocket only if a callback is asked for, or one came and went while   *)
(* the game was blocking.                                                  *)
THEOREM QueueAttending == Spec => []QueueAttended
<1>1. Init => QueueAttended
  BY DEF Init, QueueAttended
<1>2. Inv /\ QueueAttended /\ [Next]_vars => QueueAttended'
  BY NextAttends DEF Inv
<1> QED
  BY <1>1, <1>2, Invariant, PTL DEF Spec

=============================================================================
