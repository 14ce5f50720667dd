------------------------ MODULE TelnetStream_proofs ------------------------
(***************************************************************************)
(* The receive loop for bytes, options, payloads, limits and pieces of any  *)
(* number: the run of text it hands on lies within the buffer it was called *)
(* with, the subnegotiation buffer does not outgrow its limit, and what the *)
(* program is given is what was sent, in order and once.                    *)
(*                                                                         *)
(* For the bounds nothing is assumed of what the peer sends: the invariant  *)
(* IInv says only that chunk and buffer are sequences, and where the two    *)
(* indices stand.  "start" is stale in every mode but DATA; each way back   *)
(* to DATA sets it, to the byte at hand or the one after it.                *)
(*                                                                         *)
(* For the order, Step says what one byte does to a receiver that is given  *)
(* its bytes one by one, without pieces, indices or runs, and Runs what a   *)
(* word does.  The invariant Reading is that from where the loop stands,    *)
(* the bytes it has not taken yet would be understood as the rest of what   *)
(* was sent.  Three things keep it: whatever is put on the wire is          *)
(* understood as what it means by a receiver that has understood all before *)
(* (Says); an iteration of the loop is Step (Consumes); and a new piece, or *)
(* the end of one, changes nothing (ReadKeeps, FinishKeeps).                *)
(***************************************************************************)
EXTENDS TelnetStream, SequenceTheorems, WellFoundedInduction, TLAPS

-----------------------------------------------------------------------------
(* The bounds *)

\* A sequence, whatever it holds.
IsSeq(s) == \E S : s \in Seq(S)

IInv ==
    /\ IsSeq(chunk) /\ IsSeq(buffer)
    /\ i \in Nat /\ start \in Nat
    /\ mode \in Mode
    /\ RunsInBounds
    /\ Len(buffer) <= BufferLimit

LEMMA SubSeqIsSeq ==
    ASSUME NEW s, NEW m \in Nat, NEW n \in Nat
    PROVE  IsSeq(SubSeq(s, m, n))
<1> DEFINE S == {s[k] : k \in m .. n}
<1>1. \A k \in m .. n : s[k] \in S
  OBVIOUS
<1>2. m \in Int /\ n \in Int
  OBVIOUS
<1> HIDE DEF S
<1>3. SubSeq(s, m, n) \in Seq(S)
  BY <1>1, <1>2, SubSeqProperties
<1> QED
  BY <1>3 DEF IsSeq

LEMMA AppendIsSeq ==
    ASSUME NEW s, NEW e, IsSeq(s)
    PROVE  IsSeq(Append(s, e)) /\ Len(Append(s, e)) = Len(s) + 1
<1>1. PICK S : s \in Seq(S)
  BY DEF IsSeq
<1>2. s \in Seq(S \cup {e})
  BY <1>1, SeqDef
<1>3. /\ Append(s, e) \in Seq(S \cup {e})
      /\ Len(Append(s, e)) = Len(s) + 1
  BY <1>2, AppendProperties
<1> QED
  BY <1>3 DEF IsSeq

LEMMA EmptyIsSeq == IsSeq(<<>>) /\ Len(<<>>) = 0
<1>1. <<>> \in Seq({}) /\ Len(<<>>) = 0
  OBVIOUS
<1> QED
  BY <1>1 DEF IsSeq

LEMMA LenNat == \A s : IsSeq(s) => Len(s) \in Nat
  BY DEF IsSeq

LEMMA InitSafe == Init => IInv
  BY EmptyIsSeq, BoundAssumption DEF Init, IInv, RunsInBounds, Mode

LEMMA SendingSafe == IInv /\ Sending => IInv'
  BY DEF Sending, SendText, SendCommand, SendNegotiation, SendSub, BreakOff, Put,
         IInv, RunsInBounds, parser

LEMMA ReadSafe == IInv /\ Read => IInv'
<1> SUFFICES ASSUME IInv, Read PROVE IInv'
  OBVIOUS
<1>1. PICK n \in 1 .. MaxWire : chunk' = SubSeq(wire, 1, n)
  BY DEF Read
<1>2. n \in Nat /\ i = 0
  BY EmptyIsSeq, BoundAssumption DEF Read, IInv, RunsInBounds
<1>3. IsSeq(chunk') /\ Len(chunk') \in Nat
  BY <1>1, <1>2, SubSeqIsSeq, LenNat
<1> QED
  BY <1>2, <1>3 DEF Read, IInv, RunsInBounds, parser

(* An iteration goes on with byte i + 1; when it leads to DATA, the run of  *)
(* text starts where it did, or at the byte at hand, or after it.           *)
LEMMA IterationSafe ==
    ASSUME IInv, NEW m \in Mode, NEW e, i < Len(chunk), Next1(m, e),
           IsSeq(buffer'), Len(buffer') <= BufferLimit,
           start' \in {start, i, i + 1},
           m = "DATA" /\ mode # "DATA" => start' \in {i, i + 1}
    PROVE  IInv'
<1>1. Len(chunk) \in Nat
  BY LenNat DEF IInv
<1>2. i' = i + 1 /\ mode' = m /\ chunk' = chunk
  BY DEF Next1
<1>3. start' \in Nat
  BY DEF IInv
<1>4. m = "DATA" => start' <= i + 1
  BY DEF IInv, RunsInBounds
<1> QED
  BY <1>1, <1>2, <1>3, <1>4 DEF IInv, RunsInBounds

LEMMA DataSafe == IInv /\ Data => IInv'
<1> SUFFICES ASSUME IInv, Data PROVE IInv'
  OBVIOUS
<1>1. PICK m \in Mode : \E e : Next1(m, e)
  BY DEF Data, Mode
<1>2. PICK e : Next1(m, e)
  BY <1>1
<1> QED
  BY <1>2, IterationSafe DEF Data, Looping, IInv, parser

LEMMA EolSafe == IInv /\ Eol => IInv'
<1> SUFFICES ASSUME IInv, Eol PROVE IInv'
  OBVIOUS
<1>1. PICK e : Next1("DATA", e)
  BY DEF Eol
<1> QED
  BY <1>1, IterationSafe DEF Eol, Looping, IInv, parser, Mode

\* Resumed text starts at the next byte.
LEMMA ResumeSafe ==
    ASSUME IInv, NEW m \in Mode, NEW e, i < Len(chunk), ResumeText(m, e),
           IsSeq(buffer'), Len(buffer') <= BufferLimit
    PROVE  IInv'
  BY IterationSafe DEF ResumeText

LEMMA InterpretSafe ==
    ASSUME IInv, NEW e, i < Len(chunk), Interpret(e), UNCHANGED buffer,
           start' = i + 1 \/ (mode' # "DATA" /\ UNCHANGED start)
    PROVE  IInv'
<1>1. PICK m \in Mode : \E f : Next1(m, f)
  BY DEF Interpret, Mode
<1>2. PICK f : Next1(m, f)
  BY <1>1
<1> QED
  BY <1>2, IterationSafe DEF IInv, Next1

LEMMA IacSafe == IInv /\ Iac => IInv'
<1> SUFFICES ASSUME IInv, Iac PROVE IInv'
  OBVIOUS
<1>1. i < Len(chunk) /\ UNCHANGED buffer
  BY DEF Iac, Looping
<1>2. CASE Escaped
  BY <1>1, <1>2, ResumeSafe DEF Escaped, IInv, Mode
<1>3. CASE /\ Interpret(<<>>)
           /\ start' = IF mode' = "DATA" THEN i + 1 ELSE start
  BY <1>1, <1>3, InterpretSafe
<1> QED
  BY <1>2, <1>3 DEF Iac

LEMMA NegSafe == IInv /\ Neg => IInv'
  BY ResumeSafe DEF Neg, Looping, IInv, parser, Mode

LEMMA SbSafe == IInv /\ Sb => IInv'
<1> SUFFICES ASSUME IInv, Sb PROVE IInv'
  OBVIOUS
<1>1. IsSeq(buffer') /\ Len(buffer') <= BufferLimit
  BY EmptyIsSeq, BoundAssumption DEF Sb
<1> QED
  BY <1>1, IterationSafe DEF Sb, Looping, Mode

LEMMA BufferByteSafe ==
    ASSUME IInv, i < Len(chunk), BufferByte
    PROVE  IInv'
<1>1. CASE HasRoom /\ Next1("SB_DATA", <<>>) /\ buffer' = Append(buffer, This)
           /\ UNCHANGED start
  <2>1. IsSeq(buffer') /\ Len(buffer') <= BufferLimit
    BY <1>1, AppendIsSeq, LenNat, BoundAssumption DEF HasRoom, IInv
  <2> QED
    BY <1>1, <2>1, IterationSafe DEF Mode
<1>2. CASE ResumeText("DATA", <<>>) /\ UNCHANGED buffer
  BY <1>2, ResumeSafe DEF IInv, Mode
<1> QED
  BY <1>1, <1>2 DEF BufferByte

LEMMA SbDataSafe == IInv /\ SbData => IInv'
<1> SUFFICES ASSUME IInv, SbData PROVE IInv'
  OBVIOUS
<1>1. CASE Next1("SB_DATA_IAC", <<>>) /\ UNCHANGED <<start, parser>>
  BY <1>1, IterationSafe DEF SbData, Looping, IInv, parser, Mode
<1>2. CASE BufferByte
  BY <1>2, BufferByteSafe DEF SbData, Looping
<1> QED
  BY <1>1, <1>2 DEF SbData

\* The rest of the buffer is a buffer of its own.
LEMMA RestartSafe ==
    ASSUME IInv, NEW m \in Mode, Restart(m)
    PROVE  IInv'
<1>1. /\ chunk' = SubSeq(chunk, i + 2, Len(chunk))
      /\ i' = 0 /\ start' = 0 /\ mode' = m /\ buffer' = buffer
  BY DEF Restart, parser
<1>2. IsSeq(chunk') /\ Len(chunk') \in Nat
  BY <1>1, SubSeqIsSeq, LenNat DEF IInv
<1> QED
  BY <1>1, <1>2 DEF IInv, RunsInBounds

LEMMA SbDataIacSafe == IInv /\ SbDataIac => IInv'
<1> SUFFICES ASSUME IInv, SbDataIac PROVE IInv'
  OBVIOUS
<1>1. i < Len(chunk)
  BY DEF SbDataIac, Looping
<1>2. CASE SubEnd
  BY <1>1, <1>2, RestartSafe, ResumeSafe DEF SubEnd, IInv, Mode, parser
<1>3. CASE BufferByte
  BY <1>1, <1>3, BufferByteSafe
<1>4. CASE SubBroken
  BY <1>1, <1>4, RestartSafe, InterpretSafe DEF SubBroken, Mode
<1> QED
  BY <1>2, <1>3, <1>4 DEF SbDataIac

LEMMA FinishSafe == IInv /\ Finish => IInv'
  BY EmptyIsSeq DEF Finish, IInv, RunsInBounds, parser

LEMMA NextSafe == IInv /\ [Next]_vars => IInv'
<1> SUFFICES ASSUME IInv, [Next]_vars PROVE IInv'
  OBVIOUS
<1>1. CASE Sending
  BY <1>1, SendingSafe
<1>2. CASE Read
  BY <1>2, ReadSafe
<1>3. CASE Loop
  BY <1>3, DataSafe, EolSafe, IacSafe, NegSafe, SbSafe, SbDataSafe, SbDataIacSafe
     DEF Loop
<1>4. CASE Finish
  BY <1>4, FinishSafe
<1>5. CASE UNCHANGED vars
  BY <1>5 DEF vars, parser, IInv, RunsInBounds
<1> QED
  BY <1>1, <1>2, <1>3, <1>4, <1>5 DEF Next

\* The bounds hold in every state, whatever is sent and however it is cut.
THEOREM Invariant == Spec => []IInv
<1> QED
  BY InitSafe, NextSafe, PTL DEF Spec

(* _process never hands on bytes from outside the buffer it was called     *)
(* with, in whatever state the last one left the machine.                   *)
THEOREM RunsInBoundsHolds == Spec => []RunsInBounds
<1>1. IInv => RunsInBounds
  BY DEF IInv
<1> QED
  BY Invariant, <1>1, PTL

(* _buffer_byte holds the subnegotiation buffer to its last size, also when *)
(* the byte at the limit is an escaped one.                                 *)
THEOREM BufferFits == Spec => [](Len(buffer) <= BufferLimit)
<1>1. IInv => Len(buffer) <= BufferLimit
  BY DEF IInv
<1> QED
  BY Invariant, <1>1, PTL

-----------------------------------------------------------------------------
(* Induction over data: a set of numbers that holds 0, and with each number *)
(* the next, holds all of them.  (An induction theorem with an operator as   *)
(* its parameter is out of the provers' reach; the well-foundedness of < and *)
(* the minimal elements it gives are not.)                                   *)

\* A set of numbers has a least one.
LEMMA NatLeast ==
    ASSUME NEW T \in SUBSET Nat, T # {}
    PROVE  \E x \in T : \A y \in T : x <= y
<1> DEFINE R == {p \in Nat \X Nat : p[1] < p[2]}
<1>1. IsWellFoundedOn(R, Nat)
  BY NatLessThanWellFounded DEF OpToRel
<1>2. \A x, y \in Nat : <<y, x>> \in R <=> y < x
  OBVIOUS
<1> HIDE DEF R
<1>3. PICK x \in T : \A y \in T : ~ (<<y, x>> \in R)
  BY <1>1, WFMin
<1>4. ASSUME NEW y \in T PROVE x <= y
  <2>1. x \in Nat /\ y \in Nat
    OBVIOUS
  <2>2. ~ (y < x)
    BY <1>2, <1>3, <2>1
  <2> QED
    BY <2>1, <2>2
<1> QED
  BY <1>4
LEMMA SetInduction ==
    ASSUME NEW T, 0 \in T, \A n \in Nat : n \in T => n + 1 \in T
    PROVE  Nat \subseteq T
<1> DEFINE U == Nat \ T
<1> SUFFICES ASSUME U # {} PROVE FALSE
  OBVIOUS
<1>1. PICK x \in U : \A y \in U : x <= y
  BY NatLeast
<1>2. x # 0 /\ x - 1 \in Nat
  BY <1>1
<1>3. x - 1 \in T
  BY <1>1, <1>2
<1> QED
  BY <1>1, <1>2, <1>3

\* The function FlattenSeq chooses: f[k] joins the first k sequences.
Chain(f, s, n) == f = [k \in 1 .. n |-> IF k = 1 THEN s[k] ELSE f[k - 1] \o s[k]]

\* There is one, so that it is what FlattenSeq chooses.
LEMMA ChainExists ==
    ASSUME NEW s, NEW n \in Nat
    PROVE  \E f : Chain(f, s, n)
<1> DEFINE T == {m \in Nat : \E f : Chain(f, s, m)}
<1>1. 0 \in T
  <2>1. Chain([k \in 1 .. 0 |-> 0], s, 0)
    BY DEF Chain
  <2> QED
    BY <2>1
<1>2. ASSUME NEW m \in Nat, m \in T
      PROVE  m + 1 \in T
  <2>1. PICK f : Chain(f, s, m)
    BY <1>2
  <2> DEFINE g == [k \in 1 .. m + 1 |->
                     IF k <= m THEN f[k]
                     ELSE IF k = 1 THEN s[k] ELSE f[k - 1] \o s[k]]
  <2>2. ASSUME NEW k \in 1 .. m + 1
        PROVE  g[k] = IF k = 1 THEN s[k] ELSE g[k - 1] \o s[k]
    <3>1. CASE k <= m
      <4>1. k \in 1 .. m
        BY <3>1
      <4>2. f[k] = IF k = 1 THEN s[k] ELSE f[k - 1] \o s[k]
        BY <2>1, <4>1 DEF Chain
      <4>3. g[k] = f[k] /\ (k # 1 => g[k - 1] = f[k - 1])
        BY <3>1
      <4> QED
        BY <4>2, <4>3
    <3>2. CASE ~ (k <= m)
      <4>1. k = m + 1 /\ (k # 1 => k - 1 \in 1 .. m + 1 /\ k - 1 <= m)
        BY <3>2
      <4>2. k # 1 => g[k - 1] = f[k - 1]
        BY <4>1
      <4> QED
        BY <3>2, <4>2
    <3> QED
      BY <3>1, <3>2
  <2>3. Chain(g, s, m + 1)
    <3>1. g = [k \in 1 .. m + 1 |-> g[k]]
      OBVIOUS
    <3> HIDE DEF g
    <3> QED
      BY <2>2, <3>1 DEF Chain
  <2> QED
    BY <2>3
<1>3. n \in T
  <2> HIDE DEF T
  <2> QED
    BY <1>1, <1>2, SetInduction
<1> QED
  BY <1>3

LEMMA FlattenIsChain ==
    ASSUME NEW s, NEW n \in Nat, Len(s) = n, n # 0
    PROVE  \E f : Chain(f, s, n) /\ FlattenSeq(s) = f[n]
<1> DEFINE f == CHOOSE f : f = [k \in 1 .. n |-> IF k = 1 THEN s[k] ELSE f[k - 1] \o s[k]]
<1>1. Chain(f, s, n)
  BY ChainExists DEF Chain
<1>2. FlattenSeq(s) = f[n]
  BY DEF FlattenSeq
<1> QED
  BY <1>1, <1>2

-----------------------------------------------------------------------------
(* A receiver that is given its bytes one by one.  out is what it has made    *)
(* of them so far.                                                          *)
Event ==
    {Text(b) : b \in Byte} \cup {Command(b) : b \in Byte}
      \cup {Negotiation(p[1], p[2]) : p \in Verb \X Byte}
      \cup {Sub(p[1], p[2]) : p \in Byte \X Seq(Byte)}

St(m, v, o, b, out) == [mode |-> m, verb |-> v, sbopt |-> o, buffer |-> b, out |-> out]
State == [mode : Mode, verb : Verb, sbopt : Byte, buffer : Seq(Byte), out : Seq(Event)]

\* To mode m, with the events es; a command byte; a byte of a payload.
Goto(q, m, es) == St(m, q.verb, q.sbopt, q.buffer, q.out \o es)
Word(q, es, byte) ==
    IF byte = "SB" THEN Goto(q, "SB", es)
    ELSE IF byte \in Verb THEN St("NEG", byte, q.sbopt, q.buffer, q.out \o es)
    ELSE Goto(q, "DATA", es \o <<Command(byte)>>)
Store(q, byte) ==
    IF Len(q.buffer) < BufferLimit
    THEN St("SB_DATA", q.verb, q.sbopt, Append(q.buffer, byte), q.out)
    ELSE Goto(q, "DATA", <<>>)
Ended(q) == <<Sub(q.sbopt, q.buffer)>>

\* What one byte does, with (e) or without translation of ends of line.
Step(e, q, byte) ==
    CASE q.mode = "DATA" ->
           IF byte = "IAC" THEN Goto(q, "IAC", <<>>)
           ELSE IF byte = "CR" /\ e THEN Goto(q, "EOL", <<>>)
           ELSE Goto(q, "DATA", <<Text(byte)>>)
      [] q.mode = "EOL" ->
           Goto(q, "DATA", IF byte = "LF" THEN <<Text("LF")>>
                           ELSE IF byte = "NUL" THEN <<Text("CR")>>
                           ELSE <<Text("CR")>> \o <<Text(byte)>>)
      [] q.mode = "IAC" ->
           IF byte = "IAC" THEN Goto(q, "DATA", <<Text("IAC")>>) ELSE Word(q, <<>>, byte)
      [] q.mode = "NEG" -> Goto(q, "DATA", <<Negotiation(q.verb, byte)>>)
      [] q.mode = "SB" -> St("SB_DATA", q.verb, byte, <<>>, q.out)
      [] q.mode = "SB_DATA" ->
           IF byte = "IAC" THEN Goto(q, "SB_DATA_IAC", <<>>) ELSE Store(q, byte)
      [] OTHER ->
           IF byte = "IAC" THEN Store(q, byte)
           ELSE IF byte = "SE" THEN Goto(q, "DATA", Ended(q))
           ELSE IF q.sbopt \in Restarts THEN Goto(q, "IAC", Ended(q))
           ELSE Word(q, Ended(q), byte)

\* The word w leads from q to r.
Runs(e, q, w, r) ==
    \E f \in [0 .. Len(w) -> State] :
       /\ f[0] = q /\ f[Len(w)] = r
       /\ \A k \in 1 .. Len(w) : f[k] = Step(e, f[k - 1], w[k])

LEMMA EventFacts ==
    /\ \A b \in Byte : Text(b) \in Event /\ Command(b) \in Event
    /\ \A v \in Verb, b \in Byte : Negotiation(v, b) \in Event
    /\ \A o \in Byte, p \in Seq(Byte) : Sub(o, p) \in Event
<1>1. \A b \in Byte : Text(b) \in Event /\ Command(b) \in Event
  BY DEF Event
<1>2. ASSUME NEW v \in Verb, NEW b \in Byte PROVE Negotiation(v, b) \in Event
  <2>1. <<v, b>> \in Verb \X Byte /\ Negotiation(<<v, b>>[1], <<v, b>>[2]) = Negotiation(v, b)
    OBVIOUS
  <2> QED
    BY <2>1 DEF Event
<1>3. ASSUME NEW o \in Byte, NEW p \in Seq(Byte) PROVE Sub(o, p) \in Event
  <2>1. <<o, p>> \in Byte \X Seq(Byte) /\ Sub(<<o, p>>[1], <<o, p>>[2]) = Sub(o, p)
    OBVIOUS
  <2> QED
    BY <2>1 DEF Event
<1> QED
  BY <1>1, <1>2, <1>3

\* t is s and what came after it.
Extends(t, s) == \E es \in Seq(Event) : t = s \o es

LEMMA ExtendsFurther ==
    ASSUME NEW s \in Seq(Event), NEW t, NEW u, Extends(t, s), Extends(u, t)
    PROVE  Extends(u, s)
<1>1. PICK es \in Seq(Event) : t = s \o es
  BY DEF Extends
<1>2. PICK fs \in Seq(Event) : u = t \o fs
  BY DEF Extends
<1>3. u = s \o (es \o fs) /\ es \o fs \in Seq(Event)
  BY <1>1, <1>2, ConcatAssociative, ConcatProperties
<1> QED
  BY <1>3 DEF Extends

LEMMA GotoTyped ==
    ASSUME NEW q \in State, NEW m \in Mode, NEW es \in Seq(Event)
    PROVE  Goto(q, m, es) \in State /\ Extends(Goto(q, m, es).out, q.out)
<1>1. q.out \o es \in Seq(Event)
  BY ConcatProperties DEF State
<1> QED
  BY <1>1 DEF Goto, St, State, Extends

LEMMA WordTyped ==
    ASSUME NEW q \in State, NEW es \in Seq(Event), NEW byte \in Byte
    PROVE  Word(q, es, byte) \in State /\ Extends(Word(q, es, byte).out, q.out)
<1>1. CASE byte = "SB"
  BY <1>1, GotoTyped DEF Word, Mode
<1>2. CASE byte # "SB" /\ byte \in Verb
  <2>1. q.out \o es \in Seq(Event)
    BY ConcatProperties DEF State
  <2> QED
    BY <1>2, <2>1 DEF Word, St, State, Extends, Mode
<1>3. CASE byte # "SB" /\ byte \notin Verb
  <2>1. <<Command(byte)>> \in Seq(Event)
    BY EventFacts
  <2>2. es \o <<Command(byte)>> \in Seq(Event)
    BY <2>1, ConcatProperties
  <2> QED
    BY <1>3, <2>2, GotoTyped DEF Word, Mode
<1> QED
  BY <1>1, <1>2, <1>3

LEMMA StoreTyped ==
    ASSUME NEW q \in State, NEW byte \in Byte
    PROVE  Store(q, byte) \in State /\ Extends(Store(q, byte).out, q.out)
<1>1. <<>> \in Seq(Event) /\ q.out \o <<>> = q.out
  BY ConcatEmptySeq DEF State
<1>2. CASE Len(q.buffer) < BufferLimit
  <2>1. Append(q.buffer, byte) \in Seq(Byte)
    BY AppendProperties DEF State
  <2> QED
    BY <1>1, <1>2, <2>1 DEF Store, St, State, Mode, Extends
<1>3. CASE ~ (Len(q.buffer) < BufferLimit)
  BY <1>1, <1>3, GotoTyped DEF Store, Mode
<1> QED
  BY <1>2, <1>3

LEMMA StepTyped ==
    ASSUME NEW e, NEW q \in State, NEW byte \in Byte
    PROVE  Step(e, q, byte) \in State /\ Extends(Step(e, q, byte).out, q.out)
<1>1. /\ <<>> \in Seq(Event) /\ <<Text(byte)>> \in Seq(Event)
      /\ <<Text("CR")>> \in Seq(Event) /\ <<Text("LF")>> \in Seq(Event)
      /\ <<Text("IAC")>> \in Seq(Event)
  BY EventFacts DEF Byte
<1>2. <<Text("CR")>> \o <<Text(byte)>> \in Seq(Event)
  BY <1>1, ConcatProperties
<1>3. <<Negotiation(q.verb, byte)>> \in Seq(Event) /\ Ended(q) \in Seq(Event)
  BY EventFacts DEF State, Ended
<1>4. {"DATA", "EOL", "IAC", "SB_DATA_IAC"} \subseteq Mode
  BY DEF Mode
<1>5. \A es \in Seq(Event), m \in Mode :
        Goto(q, m, es) \in State /\ Extends(Goto(q, m, es).out, q.out)
  BY GotoTyped
<1>6. CASE q.mode = "DATA"
  BY <1>1, <1>4, <1>5, <1>6 DEF Step
<1>7. CASE q.mode = "EOL"
  BY <1>1, <1>2, <1>4, <1>5, <1>7 DEF Step
<1>8. CASE q.mode = "IAC"
  BY <1>1, <1>4, <1>5, <1>8, WordTyped DEF Step
<1>9. CASE q.mode = "NEG"
  BY <1>3, <1>4, <1>5, <1>9 DEF Step
<1>10. CASE q.mode = "SB"
  <2>1. Step(e, q, byte) = St("SB_DATA", q.verb, byte, <<>>, q.out)
    BY <1>10 DEF Step
  <2>2. q.out = q.out \o <<>>
    BY ConcatEmptySeq DEF State
  <2>3. /\ q.verb \in Verb /\ q.out \in Seq(Event) /\ <<>> \in Seq(Byte)
        /\ "SB_DATA" \in Mode
    BY DEF State, Mode
  <2>4. /\ St("SB_DATA", q.verb, byte, <<>>, q.out) \in State
        /\ St("SB_DATA", q.verb, byte, <<>>, q.out).out = q.out
    BY <2>3 DEF St, State
  <2> QED
    BY <1>1, <2>1, <2>2, <2>4 DEF Extends
<1>11. CASE q.mode = "SB_DATA"
  BY <1>1, <1>4, <1>5, <1>11, StoreTyped DEF Step
<1>12. CASE q.mode = "SB_DATA_IAC"
  BY <1>3, <1>4, <1>5, <1>12, StoreTyped, WordTyped DEF Step
<1>13. q.mode \in Mode
  BY DEF State
<1> QED
  BY <1>6, <1>7, <1>8, <1>9, <1>10, <1>11, <1>12, <1>13 DEF Mode

LEMMA RunsNothing ==
    ASSUME NEW e, NEW q \in State
    PROVE  Runs(e, q, <<>>, q)
<1> DEFINE f == [k \in 0 .. Len(<<>>) |-> q]
<1>1. f \in [0 .. Len(<<>>) -> State] /\ f[0] = q /\ f[Len(<<>>)] = q
      /\ 1 .. Len(<<>>) = {}
  OBVIOUS
<1> HIDE DEF f
<1> QED
  BY <1>1 DEF Runs

LEMMA RunsOfNothing ==
    ASSUME NEW e, NEW q, NEW r, Runs(e, q, <<>>, r)
    PROVE  r = q
  BY DEF Runs

LEMMA RunsTyped ==
    ASSUME NEW e, NEW q, NEW r, NEW w \in Seq(Byte), Runs(e, q, w, r)
    PROVE  q \in State /\ r \in State
<1>1. PICK f \in [0 .. Len(w) -> State] : f[0] = q /\ f[Len(w)] = r
  BY DEF Runs
<1>2. 0 \in 0 .. Len(w) /\ Len(w) \in 0 .. Len(w)
  OBVIOUS
<1> QED
  BY <1>1, <1>2

LEMMA RunsOne ==
    ASSUME NEW e, NEW q \in State, NEW b \in Byte
    PROVE  Runs(e, q, <<b>>, Step(e, q, b))
<1> DEFINE w == <<b>>
           f == [k \in 0 .. 1 |-> IF k = 0 THEN q ELSE Step(e, q, b)]
<1>1. Len(w) = 1 /\ w[1] = b
  OBVIOUS
<1>2. f \in [0 .. 1 -> State] /\ f[0] = q /\ f[1] = Step(e, q, b)
  BY StepTyped
<1>3. \A k \in 1 .. 1 : k = 1
  OBVIOUS
<1> HIDE DEF f, w
<1>4. Runs(e, q, w, Step(e, q, b))
  BY <1>1, <1>2, <1>3 DEF Runs
<1> QED
  BY <1>4 DEF w

\* One word after the other.
LEMMA RunsConcat ==
    ASSUME NEW e, NEW q, NEW r, NEW s, NEW v \in Seq(Byte), NEW w \in Seq(Byte),
           Runs(e, q, v, r), Runs(e, r, w, s)
    PROVE  Runs(e, q, v \o w, s)
<1>1. PICK f \in [0 .. Len(v) -> State] :
        /\ f[0] = q /\ f[Len(v)] = r
        /\ \A k \in 1 .. Len(v) : f[k] = Step(e, f[k - 1], v[k])
  BY DEF Runs
<1>2. PICK g \in [0 .. Len(w) -> State] :
        /\ g[0] = r /\ g[Len(w)] = s
        /\ \A k \in 1 .. Len(w) : g[k] = Step(e, g[k - 1], w[k])
  BY DEF Runs
<1> DEFINE m == Len(v)
           n == Len(w)
           u == v \o w
           h == [k \in 0 .. m + n |-> IF k <= m THEN f[k] ELSE g[k - m]]
<1>3. /\ m \in Nat /\ n \in Nat /\ Len(u) = m + n
      /\ \A k \in 1 .. m + n : u[k] = IF k <= m THEN v[k] ELSE w[k - m]
  BY ConcatProperties
<1> HIDE DEF m, n, u
<1>4. h \in [0 .. m + n -> State]
  <2>1. ASSUME NEW k \in 0 .. m + n
        PROVE  (IF k <= m THEN f[k] ELSE g[k - m]) \in State
    <3>1. CASE k <= m
      <4>1. k \in 0 .. m
        BY <1>3, <3>1
      <4> QED
        BY <1>1, <3>1, <4>1 DEF m
    <3>2. CASE ~ (k <= m)
      <4>1. k - m \in 0 .. n
        BY <1>3, <3>2
      <4> QED
        BY <1>2, <3>2, <4>1 DEF n
    <3> QED
      BY <3>1, <3>2
  <2> QED
    BY <2>1
<1>5. h[0] = q
  BY <1>1, <1>3
<1>6. h[m + n] = s
  <2>1. CASE n = 0
    BY <1>1, <1>2, <1>3, <2>1 DEF m, n
  <2>2. CASE n # 0
    <3>1. ~ (m + n <= m) /\ (m + n) - m = n /\ m + n \in 0 .. m + n
      BY <1>3, <2>2
    <3> QED
      BY <1>2, <3>1 DEF n
  <2> QED
    BY <2>1, <2>2
<1>7. ASSUME NEW k \in 1 .. m + n
      PROVE  h[k] = Step(e, h[k - 1], u[k])
  <2>1. k \in 0 .. m + n /\ k - 1 \in 0 .. m + n
    BY <1>3
  <2>2. CASE k <= m
    <3>1. h[k] = f[k] /\ h[k - 1] = f[k - 1] /\ u[k] = v[k] /\ k \in 1 .. m
      BY <1>3, <2>1, <2>2
    <3> QED
      BY <1>1, <3>1 DEF m
  <2>3. CASE k = m + 1
    <3>1. ~ (k <= m) /\ k - m = 1 /\ k - 1 = m /\ m <= m /\ 1 \in 1 .. n
      BY <1>3, <2>3
    <3>2. h[k] = g[1] /\ h[k - 1] = f[m] /\ u[k] = w[1]
      BY <1>3, <2>1, <3>1
    <3> QED
      BY <1>1, <1>2, <3>1, <3>2 DEF m, n
  <2>4. CASE k > m + 1
    <3>1. /\ h[k] = g[k - m] /\ h[k - 1] = g[(k - m) - 1] /\ u[k] = w[k - m]
          /\ k - m \in 1 .. n
      BY <1>3, <2>1, <2>4
    <3> QED
      BY <1>2, <3>1 DEF n
  <2> QED
    BY <1>3, <2>2, <2>3, <2>4
<1> HIDE DEF h
<1>8. Runs(e, q, u, s)
  BY <1>3, <1>4, <1>5, <1>6, <1>7 DEF Runs
<1> QED
  BY <1>8 DEF u

\* What is left of a word after its first byte.
LEMMA RunsRest ==
    ASSUME NEW e, NEW q, NEW r, NEW w \in Seq(Byte), w # <<>>, Runs(e, q, w, r)
    PROVE  Runs(e, Step(e, q, Head(w)), Tail(w), r)
<1>1. PICK f \in [0 .. Len(w) -> State] :
        /\ f[0] = q /\ f[Len(w)] = r
        /\ \A k \in 1 .. Len(w) : f[k] = Step(e, f[k - 1], w[k])
  BY DEF Runs
<1> DEFINE n == Len(w)
           t == Tail(w)
           g == [k \in 0 .. n - 1 |-> f[k + 1]]
<1>2. /\ n \in Nat /\ n # 0 /\ Len(t) = n - 1 /\ Head(w) = w[1]
      /\ \A k \in 1 .. n - 1 : t[k] = w[k + 1]
  BY HeadTailProperties, EmptySeq
<1> HIDE DEF n, t
<1>3. g \in [0 .. n - 1 -> State]
  <2>1. ASSUME NEW k \in 0 .. n - 1 PROVE f[k + 1] \in State
    <3>1. k + 1 \in 0 .. n
      BY <1>2
    <3> QED
      BY <1>1, <3>1 DEF n
  <2> QED
    BY <2>1
<1>4. g[0] = Step(e, q, Head(w)) /\ g[n - 1] = r
  <2>1. g[0] = f[1] /\ g[n - 1] = f[n] /\ 1 \in 1 .. n
    BY <1>2
  <2> QED
    BY <1>1, <1>2, <2>1 DEF n
<1>5. ASSUME NEW k \in 1 .. n - 1
      PROVE  g[k] = Step(e, g[k - 1], t[k])
  <2>1. /\ g[k] = f[k + 1] /\ g[k - 1] = f[(k + 1) - 1] /\ t[k] = w[k + 1]
        /\ k + 1 \in 1 .. n
    BY <1>2
  <2> QED
    BY <1>1, <2>1 DEF n
<1> HIDE DEF g
<1>6. Runs(e, Step(e, q, Head(w)), t, r)
  BY <1>2, <1>3, <1>4, <1>5 DEF Runs
<1> QED
  BY <1>6 DEF t

\* Nothing that was given is taken back.
LEMMA RunsExtend ==
    ASSUME NEW e, NEW q, NEW r, NEW w \in Seq(Byte), Runs(e, q, w, r)
    PROVE  Extends(r.out, q.out)
<1>1. PICK f \in [0 .. Len(w) -> State] :
        /\ f[0] = q /\ f[Len(w)] = r
        /\ \A k \in 1 .. Len(w) : f[k] = Step(e, f[k - 1], w[k])
  BY DEF Runs
<1> DEFINE n == Len(w)
           T == {k \in Nat : k <= n => Extends(f[k].out, q.out)}
<1>2. n \in Nat
  OBVIOUS
<1>3. 0 \in T
  <2>1. q \in State
    BY RunsTyped
  <2>2. q.out = q.out \o <<>> /\ <<>> \in Seq(Event)
    BY <2>1, ConcatEmptySeq DEF State
  <2> QED
    BY <1>1, <2>2 DEF Extends
<1>4. ASSUME NEW k \in Nat, k \in T
      PROVE  k + 1 \in T
  <2> SUFFICES ASSUME k + 1 <= n PROVE Extends(f[k + 1].out, q.out)
    OBVIOUS
  <2>1. k \in 0 .. n /\ k + 1 \in 1 .. n /\ (k + 1) - 1 = k /\ k <= n
    BY <1>2
  <2>2. f[k] \in State /\ w[k + 1] \in Byte /\ f[k + 1] = Step(e, f[k], w[k + 1])
    BY <1>1, <2>1, ElementOfSeq
  <2>3. Extends(f[k].out, q.out) /\ q.out \in Seq(Event)
    BY <1>4, <2>1, RunsTyped DEF State
  <2>4. Extends(Step(e, f[k], w[k + 1]).out, f[k].out)
    BY <2>2, StepTyped
  <2> QED
    BY <2>2, <2>3, <2>4, ExtendsFurther
<1> HIDE DEF T
<1>5. n \in T
  BY <1>2, <1>3, <1>4, SetInduction
<1> QED
  BY <1>1, <1>2, <1>5 DEF T

-----------------------------------------------------------------------------
\* Escape goes through its argument byte by byte.
Piece(b) == IF b = "IAC" THEN <<"IAC", "IAC">> ELSE <<b>>

LEMMA PieceType == \A b \in Byte : Piece(b) \in Seq(Byte)
<1>1. "IAC" \in Byte
  BY DEF Byte
<1> HIDE DEF Byte
<1> QED
  BY <1>1 DEF Piece

(* What holds of nothing, and from each piece to the next, holds of all that *)
(* was escaped: G relates the bytes taken to the bytes made of them.        *)
LEMMA EscapeInduction ==
    ASSUME NEW p \in Seq(Byte), NEW G, <<0, <<>>>> \in G,
           \A k \in 0 .. Len(p) - 1, w \in Seq(Byte) :
              <<k, w>> \in G => <<k + 1, w \o Piece(p[k + 1])>> \in G
    PROVE  Escape(p) \in Seq(Byte) /\ <<Len(p), Escape(p)>> \in G
<1> DEFINE n == Len(p)
           s == [k \in DOMAIN p |-> Piece(p[k])]
<1>1. n \in Nat /\ DOMAIN p = 1 .. n
  OBVIOUS
<1>2. Escape(p) = FlattenSeq(s)
  BY DEF Escape, Piece
<1>3. \A k \in 1 .. n : p[k] \in Byte /\ s[k] = Piece(p[k]) /\ s[k] \in Seq(Byte)
  BY <1>1, ElementOfSeq, PieceType
<1>4. s \in Seq(Seq(Byte)) /\ Len(s) = n
  <2>1. s \in [1 .. n -> Seq(Byte)]
    BY <1>1, <1>3
  <2> HIDE DEF s, n
  <2> QED
    BY <1>1, <2>1, SeqDef, LenProperties
<1> HIDE DEF s, n
<1>5. CASE n = 0
  <2>1. s = <<>>
    BY <1>4, <1>5, EmptySeq
  <2>2. FlattenSeq(s) = <<>>
    BY <1>4, <1>5, <2>1 DEF FlattenSeq
  <2>3. <<>> \in Seq(Byte)
    OBVIOUS
  <2> QED
    BY <1>2, <1>5, <2>2, <2>3 DEF n
<1>6. CASE n # 0
  <2>1. PICK f : Chain(f, s, n) /\ FlattenSeq(s) = f[n]
    BY <1>1, <1>4, <1>6, FlattenIsChain
  <2>2. \A k \in 1 .. n : f[k] = IF k = 1 THEN s[k] ELSE f[k - 1] \o s[k]
    <3>1. f = [k \in 1 .. n |-> IF k = 1 THEN s[k] ELSE f[k - 1] \o s[k]]
      BY <2>1 DEF Chain
    <3> DEFINE h == [k \in 1 .. n |-> IF k = 1 THEN s[k] ELSE f[k - 1] \o s[k]]
    <3>2. \A k \in 1 .. n : h[k] = IF k = 1 THEN s[k] ELSE f[k - 1] \o s[k]
      OBVIOUS
    <3>3. f = h
      BY <3>1
    <3> HIDE DEF h
    <3> QED
      BY <3>2, <3>3
  <2> DEFINE T == {k \in Nat : k < n => f[k + 1] \in Seq(Byte) /\ <<k + 1, f[k + 1]>> \in G}
  <2>3. 0 \in T
    <3>1. 1 \in 1 .. n /\ 0 \in 0 .. n - 1
      BY <1>1, <1>6
    <3>2. f[1] = Piece(p[1]) /\ f[1] \in Seq(Byte)
      BY <1>3, <2>2, <3>1
    <3>3. <<>> \o Piece(p[1]) = f[1] /\ <<>> \in Seq(Byte)
      BY <3>2, ConcatEmptySeq
    <3>4. <<0 + 1, <<>> \o Piece(p[0 + 1])>> \in G
      BY <3>1, <3>3 DEF n
    <3>5. <<1, f[1]>> \in G
      BY <3>3, <3>4
    <3>6. f[0 + 1] \in Seq(Byte) /\ <<0 + 1, f[0 + 1]>> \in G
      <4>1. 0 + 1 = 1
        OBVIOUS
      <4> QED
        BY <3>2, <3>5, <4>1, Zenon
    <3> QED
      BY <3>6
  <2>4. ASSUME NEW k \in Nat, k \in T
        PROVE  k + 1 \in T
    <3> SUFFICES ASSUME k + 1 < n
                 PROVE  f[(k + 1) + 1] \in Seq(Byte) /\ <<(k + 1) + 1, f[(k + 1) + 1]>> \in G
      OBVIOUS
    <3> DEFINE m == k + 1
    <3>1. /\ m \in 0 .. n - 1 /\ m + 1 \in 1 .. n /\ m + 1 # 1 /\ (m + 1) - 1 = m
          /\ k < n
      BY <1>1
    <3>2. f[m] \in Seq(Byte) /\ <<m, f[m]>> \in G
      BY <2>4, <3>1
    <3> HIDE DEF m
    <3>3. f[m + 1] = f[m] \o Piece(p[m + 1]) /\ Piece(p[m + 1]) \in Seq(Byte)
      BY <1>3, <2>2, <3>1
    <3>4. f[m + 1] \in Seq(Byte)
      BY <3>2, <3>3, ConcatProperties
    <3>5. <<m + 1, f[m] \o Piece(p[m + 1])>> \in G
      BY <3>1, <3>2 DEF n
    <3> QED
      BY <3>3, <3>4, <3>5 DEF m
  <2> HIDE DEF T
  <2>5. n - 1 \in T
    BY <1>1, <1>6, <2>3, <2>4, SetInduction
  <2>6. f[n] \in Seq(Byte) /\ <<n, f[n]>> \in G
    <3>1. n - 1 < n /\ (n - 1) + 1 = n
      BY <1>1
    <3> QED
      BY <2>5, <3>1 DEF T
  <2> QED
    BY <1>2, <2>1, <2>6 DEF n
<1> QED
  BY <1>5, <1>6

LEMMA EscapeType ==
    ASSUME NEW p \in Seq(Byte)
    PROVE  Escape(p) \in Seq(Byte)
<1> DEFINE G == (0 .. Len(p)) \X Seq(Byte)
<1>1. <<0, <<>>>> \in G
  <2>1. 0 \in 0 .. Len(p) /\ <<>> \in Seq(Byte)
    OBVIOUS
  <2> QED
    BY <2>1
<1>2. ASSUME NEW k \in 0 .. Len(p) - 1, NEW w \in Seq(Byte)
      PROVE  <<k + 1, w \o Piece(p[k + 1])>> \in G
  <2>1. k + 1 \in 1 .. Len(p)
    OBVIOUS
  <2>2. Piece(p[k + 1]) \in Seq(Byte)
    BY <2>1, PieceType, ElementOfSeq
  <2>3. w \o Piece(p[k + 1]) \in Seq(Byte)
    BY <2>2, ConcatProperties
  <2> QED
    <3>1. k + 1 \in 0 .. Len(p)
      BY <2>1
    <3> QED
      BY <2>3, <3>1
<1> HIDE DEF G
<1> QED
  BY <1>1, <1>2, EscapeInduction

\* A receiver in A[k] after k bytes, for each k, is in the last at the end.
LEMMA EscapeRuns ==
    ASSUME NEW e, NEW p \in Seq(Byte), NEW A \in [0 .. Len(p) -> State],
           \A k \in 0 .. Len(p) - 1 : Runs(e, A[k], Piece(p[k + 1]), A[k + 1])
    PROVE  Runs(e, A[0], Escape(p), A[Len(p)])
<1> DEFINE n == Len(p)
           G == {x \in (0 .. n) \X Seq(Byte) : Runs(e, A[0], x[2], A[x[1]])}
<1>1. n \in Nat
  OBVIOUS
<1>2. <<0, <<>>>> \in G
  <2>1. <<0, <<>>>> \in (0 .. n) \X Seq(Byte)
    <3>1. 0 \in 0 .. n /\ <<>> \in Seq(Byte)
      BY <1>1
    <3> QED
      BY <3>1
  <2>2. Runs(e, A[0], <<>>, A[0])
    BY <1>1, RunsNothing
  <2> QED
    BY <2>1, <2>2
<1>3. ASSUME NEW k \in 0 .. n - 1, NEW w \in Seq(Byte), <<k, w>> \in G
      PROVE  <<k + 1, w \o Piece(p[k + 1])>> \in G
  <2>1. k + 1 \in 1 .. n /\ k + 1 \in 0 .. n
    BY <1>1
  <2>2. Piece(p[k + 1]) \in Seq(Byte)
    BY <2>1, PieceType, ElementOfSeq
  <2>3. w \o Piece(p[k + 1]) \in Seq(Byte)
    BY <2>2, ConcatProperties
  <2>4. Runs(e, A[0], w, A[k])
    BY <1>3
  <2>5. Runs(e, A[k], Piece(p[k + 1]), A[k + 1])
    OBVIOUS
  <2>6. Runs(e, A[0], w \o Piece(p[k + 1]), A[k + 1])
    BY <2>2, <2>4, <2>5, RunsConcat
  <2>7. <<k + 1, w \o Piece(p[k + 1])>> \in (0 .. n) \X Seq(Byte)
    BY <2>1, <2>3
  <2> QED
    BY <2>6, <2>7
<1>4. <<n, Escape(p)>> \in G
  <2> HIDE DEF G
  <2> QED
    BY <1>2, <1>3, EscapeInduction
<1> QED
  BY <1>4

LEMMA TextsType ==
    ASSUME NEW s \in Seq(Byte)
    PROVE  /\ Texts(s) \in Seq(Event) /\ Len(Texts(s)) = Len(s)
           /\ \A k \in 1 .. Len(s) : Texts(s)[k] = Text(s[k])
<1>1. /\ Texts(s) \in [1 .. Len(s) -> Event]
      /\ \A k \in 1 .. Len(s) : Texts(s)[k] = Text(s[k])
  BY ElementOfSeq, EventFacts DEF Texts
<1>2. Len(s) \in Nat
  OBVIOUS
<1> QED
  BY <1>1, <1>2, SeqDef, LenProperties

LEMMA EventsAssociate ==
    \A s, t, u \in Seq(Event) : (s \o t) \o u = s \o (t \o u)
  BY ConcatAssociative

LEMMA TextsNothing == Texts(<<>>) = <<>>
<1>1. <<>> \in Seq(Byte) /\ Len(<<>>) = 0
  OBVIOUS
<1> QED
  BY <1>1, TextsType, EmptySeq

\* A run of text one byte longer.
LEMMA TextsLonger ==
    ASSUME NEW s \in Seq(Byte), NEW m \in Nat, NEW n \in Nat,
           m <= n, n < Len(s)
    PROVE  Texts(SubSeq(s, m + 1, n + 1)) = Texts(SubSeq(s, m + 1, n)) \o <<Text(s[n + 1])>>
<1> DEFINE u == SubSeq(s, m + 1, n)
           v == SubSeq(s, m + 1, n + 1)
           b == s[n + 1]
<1>1. m + 1 \in 1 .. Len(s) /\ n + 1 \in m + 1 .. Len(s) /\ (n + 1) - 1 = n
  OBVIOUS
<1>2. v = u \o <<b>>
  BY <1>1, SubSeqRecursiveSecond
<1>3. u \in Seq(Byte) /\ b \in Byte
  <2>1. \A k \in m + 1 .. n : s[k] \in Byte
    BY <1>1, ElementOfSeq
  <2> QED
    BY <1>1, <2>1, SubSeqProperties, ElementOfSeq
<1> HIDE DEF u, v, b
<1> DEFINE l == Len(u)
<1>4. l \in Nat /\ <<b>> \in Seq(Byte) /\ Len(<<b>>) = 1
  BY <1>3
<1>5. /\ v \in Seq(Byte) /\ Len(v) = l + 1
      /\ \A k \in 1 .. l + 1 : v[k] = IF k <= l THEN u[k] ELSE <<b>>[k - l]
  BY <1>2, <1>3, <1>4, ConcatProperties
<1> DEFINE t == Texts(u)
           c == <<Text(b)>>
<1>6. /\ t \in Seq(Event) /\ Len(t) = l /\ Text(b) \in Event
      /\ \A k \in 1 .. l : t[k] = Text(u[k])
  BY <1>3, TextsType, EventFacts
<1>7. c \in Seq(Event) /\ Len(c) = 1 /\ c[1] = Text(b)
  BY <1>6
<1>8. /\ Texts(v) \in Seq(Event) /\ Len(Texts(v)) = l + 1
      /\ \A k \in 1 .. l + 1 : Texts(v)[k] = Text(v[k])
  BY <1>5, TextsType
<1> HIDE DEF t, c, l
<1>9. /\ t \o c \in Seq(Event) /\ Len(t \o c) = l + 1
      /\ \A k \in 1 .. l + 1 : (t \o c)[k] = IF k <= l THEN t[k] ELSE c[k - l]
  <2>1. /\ t \o c \in Seq(Event) /\ Len(t \o c) = Len(t) + Len(c)
        /\ \A k \in 1 .. Len(t) + Len(c) :
              (t \o c)[k] = IF k <= Len(t) THEN t[k] ELSE c[k - Len(t)]
    BY <1>6, <1>7, ConcatProperties
  <2> QED
    BY <1>6, <1>7, <2>1
<1>10. ASSUME NEW k \in 1 .. l + 1
       PROVE  Texts(v)[k] = (t \o c)[k]
  <2>1. CASE k <= l
    <3>1. k \in 1 .. l
      BY <1>4, <2>1
    <3> QED
      BY <1>5, <1>6, <1>8, <1>9, <2>1, <3>1
  <2>2. CASE ~ (k <= l)
    <3>1. k = l + 1 /\ k - l = 1
      BY <1>4, <2>2
    <3>2. v[k] = b
      BY <1>5, <2>2, <3>1
    <3>3. (t \o c)[k] = Text(b)
      BY <1>7, <1>9, <2>2, <3>1
    <3> QED
      BY <1>8, <3>2, <3>3
  <2> QED
    BY <2>1, <2>2
<1>11. Texts(v) = t \o c
  BY <1>8, <1>9, <1>10, SeqEqual
<1> QED
  BY <1>11 DEF t, c, u, v, b

\* First a byte, then the rest.
LEMMA RunsFirst ==
    ASSUME NEW e, NEW q \in State, NEW b \in Byte, NEW w \in Seq(Byte), NEW r,
           Runs(e, Step(e, q, b), w, r)
    PROVE  Runs(e, q, <<b>> \o w, r)
<1>1. <<b>> \in Seq(Byte) /\ Runs(e, q, <<b>>, Step(e, q, b))
  BY RunsOne
<1> QED
  BY <1>1, RunsConcat

LEMMA Pair ==
    ASSUME NEW S, NEW b \in S, NEW c \in S
    PROVE  <<b, c>> \in Seq(S) /\ <<b>> \o <<c>> = <<b, c>>
<1> DEFINE s == <<b>>
           t == <<c>>
           u == <<b, c>>
<1>1. s \in Seq(S) /\ Len(s) = 1 /\ s[1] = b
  OBVIOUS
<1>2. t \in Seq(S) /\ Len(t) = 1 /\ t[1] = c
  OBVIOUS
<1>3. u \in Seq(S) /\ Len(u) = 2 /\ u[1] = b /\ u[2] = c
  OBVIOUS
<1> HIDE DEF s, t, u
<1>4. /\ s \o t \in Seq(S) /\ Len(s \o t) = 2
      /\ (s \o t)[1] = b /\ (s \o t)[2] = c
  <2>1. /\ s \o t \in Seq(S) /\ Len(s \o t) = 1 + 1
        /\ \A k \in 1 .. 1 + 1 : (s \o t)[k] = IF k <= 1 THEN s[k] ELSE t[k - 1]
    <3>1. /\ s \o t \in Seq(S) /\ Len(s \o t) = Len(s) + Len(t)
          /\ \A k \in 1 .. Len(s) + Len(t) :
                (s \o t)[k] = IF k <= Len(s) THEN s[k] ELSE t[k - Len(s)]
      BY <1>1, <1>2, ConcatProperties
    <3> QED
      BY <1>1, <1>2, <3>1
  <2>2. 1 \in 1 .. 1 + 1 /\ 2 \in 1 .. 1 + 1 /\ ~ (2 <= 1) /\ 2 - 1 = 1 /\ 1 + 1 = 2
    OBVIOUS
  <2> QED
    BY <1>1, <1>2, <2>1, <2>2
<1>5. \A k \in 1 .. 2 : (s \o t)[k] = u[k]
  <2>1. \A k \in 1 .. 2 : k = 1 \/ k = 2
    OBVIOUS
  <2> QED
    BY <1>3, <1>4, <2>1
<1>6. s \o t = u
  BY <1>3, <1>4, <1>5, SeqEqual
<1> QED
  BY <1>3, <1>6 DEF s, t, u

LEMMA Triple ==
    ASSUME NEW S, NEW b \in S, NEW c \in S, NEW d \in S
    PROVE  <<b, c, d>> \in Seq(S) /\ <<b>> \o <<c, d>> = <<b, c, d>>
<1> DEFINE s == <<b>>
           t == <<c, d>>
           u == <<b, c, d>>
<1>1. s \in Seq(S) /\ Len(s) = 1 /\ s[1] = b
  OBVIOUS
<1>2. t \in Seq(S) /\ Len(t) = 2 /\ t[1] = c /\ t[2] = d
  OBVIOUS
<1>3. u \in Seq(S) /\ Len(u) = 3 /\ u[1] = b /\ u[2] = c /\ u[3] = d
  OBVIOUS
<1> HIDE DEF s, t, u
<1>4. /\ s \o t \in Seq(S) /\ Len(s \o t) = 3
      /\ (s \o t)[1] = b /\ (s \o t)[2] = c /\ (s \o t)[3] = d
  <2>1. /\ s \o t \in Seq(S) /\ Len(s \o t) = 1 + 2
        /\ \A k \in 1 .. 1 + 2 : (s \o t)[k] = IF k <= 1 THEN s[k] ELSE t[k - 1]
    <3>1. /\ s \o t \in Seq(S) /\ Len(s \o t) = Len(s) + Len(t)
          /\ \A k \in 1 .. Len(s) + Len(t) :
                (s \o t)[k] = IF k <= Len(s) THEN s[k] ELSE t[k - Len(s)]
      BY <1>1, <1>2, ConcatProperties
    <3> QED
      BY <1>1, <1>2, <3>1
  <2>2. /\ 1 \in 1 .. 1 + 2 /\ 2 \in 1 .. 1 + 2 /\ 3 \in 1 .. 1 + 2 /\ 1 + 2 = 3
        /\ ~ (2 <= 1) /\ ~ (3 <= 1) /\ 2 - 1 = 1 /\ 3 - 1 = 2
    OBVIOUS
  <2> QED
    BY <1>1, <1>2, <2>1, <2>2
<1>5. \A k \in 1 .. 3 : (s \o t)[k] = u[k]
  <2>1. \A k \in 1 .. 3 : k = 1 \/ k = 2 \/ k = 3
    OBVIOUS
  <2> QED
    BY <1>3, <1>4, <2>1
<1>6. s \o t = u
  BY <1>3, <1>4, <1>5, SeqEqual
<1> QED
  BY <1>3, <1>6 DEF s, t, u

LEMMA RunsTwo ==
    ASSUME NEW e, NEW q \in State, NEW b \in Byte, NEW c \in Byte
    PROVE  Runs(e, q, <<b, c>>, Step(e, Step(e, q, b), c))
<1>1. Step(e, q, b) \in State
  BY StepTyped
<1>2. <<c>> \in Seq(Byte) /\ <<b>> \o <<c>> = <<b, c>>
  BY Pair
<1> QED
  BY <1>1, <1>2, RunsOne, RunsFirst

LEMMA RunsThree ==
    ASSUME NEW e, NEW q \in State, NEW b \in Byte, NEW c \in Byte, NEW d \in Byte
    PROVE  Runs(e, q, <<b, c, d>>, Step(e, Step(e, Step(e, q, b), c), d))
<1>1. Step(e, q, b) \in State
  BY StepTyped
<1>2. <<c, d>> \in Seq(Byte) /\ <<b>> \o <<c, d>> = <<b, c, d>>
  BY Pair, Triple
<1> QED
  BY <1>1, <1>2, RunsTwo, RunsFirst

LEMMA NoEvents ==
    ASSUME NEW q \in State
    PROVE  q.out \o <<>> = q.out /\ q.out \in Seq(Event)
  BY ConcatEmptySeq DEF State

LEMMA PlainFacts ==
    /\ \A b \in Plain : b \notin {"IAC", "SB", "SE", "CR", "LF", "NUL"}
    /\ Plain \cup {"IAC"} \subseteq Byte
<1>1. \A b \in Plain : b \notin {"IAC", "SB", "SE", "CR", "LF", "NUL"}
  BY ByteAssumption
<1>2. Plain \cup {"IAC"} \subseteq Byte
  BY DEF Byte
<1> QED
  BY <1>1, <1>2

\* An escaped byte of a payload goes to the buffer.
LEMMA PieceStored ==
    ASSUME NEW e, NEW q \in State, q.mode = "SB_DATA", NEW b \in Plain \cup {"IAC"}
    PROVE  Runs(e, q, Piece(b), Store(q, b))
<1>1. b \in Byte /\ "IAC" \in Byte
  BY PlainFacts
<1>2. CASE b = "IAC"
  <2> DEFINE r == Goto(q, "SB_DATA_IAC", <<>>)
  <2>1. Step(e, q, "IAC") = r
    BY DEF Step
  <2>2. /\ r.mode = "SB_DATA_IAC" /\ r.verb = q.verb /\ r.sbopt = q.sbopt
        /\ r.buffer = q.buffer /\ r.out = q.out
    BY NoEvents DEF Goto, St
  <2> HIDE DEF r
  <2>3. Step(e, r, "IAC") = Store(r, "IAC")
    BY <2>2 DEF Step
  <2>4. Store(r, "IAC") = Store(q, "IAC")
    BY <2>2 DEF Store, Goto
  <2>5. Runs(e, q, <<"IAC", "IAC">>, Step(e, Step(e, q, "IAC"), "IAC"))
    BY <1>1, RunsTwo
  <2> QED
    BY <1>2, <2>1, <2>3, <2>4, <2>5 DEF Piece
<1>3. CASE b # "IAC"
  <2>1. Step(e, q, b) = Store(q, b)
    BY <1>3 DEF Step
  <2> QED
    BY <1>1, <1>3, <2>1, RunsOne DEF Piece
<1> QED
  BY <1>2, <1>3

\* Outside of a subnegotiation it is text.
LEMMA PieceGiven ==
    ASSUME NEW e, NEW q \in State, q.mode = "DATA", NEW b \in Byte,
           b = "CR" => ~e
    PROVE  Runs(e, q, Piece(b), Goto(q, "DATA", <<Text(b)>>))
<1>1. "IAC" \in Byte
  BY PlainFacts
<1>2. CASE b = "IAC"
  <2> DEFINE r == Goto(q, "IAC", <<>>)
  <2>1. Step(e, q, "IAC") = r
    BY DEF Step
  <2>2. /\ r.mode = "IAC" /\ r.verb = q.verb /\ r.sbopt = q.sbopt
        /\ r.buffer = q.buffer /\ r.out = q.out
    BY NoEvents DEF Goto, St
  <2> HIDE DEF r
  <2>3. Step(e, r, "IAC") = Goto(r, "DATA", <<Text("IAC")>>)
    BY <2>2 DEF Step
  <2>4. Goto(r, "DATA", <<Text("IAC")>>) = Goto(q, "DATA", <<Text("IAC")>>)
    BY <2>2 DEF Goto
  <2>5. Runs(e, q, <<"IAC", "IAC">>, Step(e, Step(e, q, "IAC"), "IAC"))
    BY <1>1, RunsTwo
  <2> QED
    BY <1>2, <2>1, <2>3, <2>4, <2>5 DEF Piece
<1>3. CASE b # "IAC"
  <2>1. Step(e, q, b) = Goto(q, "DATA", <<Text(b)>>)
    BY <1>3 DEF Step
  <2> QED
    BY <1>3, <2>1, RunsOne DEF Piece
<1> QED
  BY <1>2, <1>3

\* What a subnegotiation's payload p comes to after its first k bytes.
After(q, p, k) ==
    IF k <= BufferLimit
    THEN St("SB_DATA", q.verb, q.sbopt, SubSeq(p, 1, k), q.out)
    ELSE St("DATA", q.verb, q.sbopt, SubSeq(p, 1, BufferLimit),
            q.out \o Texts(SubSeq(p, BufferLimit + 2, k)))

LEMMA SubSeqType ==
    ASSUME NEW s \in Seq(Byte), NEW m \in Nat, NEW n \in Nat, n <= Len(s)
    PROVE  /\ SubSeq(s, m + 1, n) \in Seq(Byte)
           /\ m <= n => Len(SubSeq(s, m + 1, n)) = n - m
<1>1. \A k \in m + 1 .. n : s[k] \in Byte
  BY ElementOfSeq
<1>2. m + 1 \in Int /\ n \in Int
  OBVIOUS
<1>3. /\ SubSeq(s, m + 1, n) \in Seq(Byte)
      /\ Len(SubSeq(s, m + 1, n)) = IF m + 1 <= n THEN n - (m + 1) + 1 ELSE 0
  BY <1>1, <1>2, SubSeqProperties
<1> QED
  BY <1>3

LEMMA AfterType ==
    ASSUME NEW q \in State, NEW p \in Seq(Byte), NEW k \in 0 .. Len(p)
    PROVE  After(q, p, k) \in State
<1>1. /\ q.verb \in Verb /\ q.sbopt \in Byte /\ q.out \in Seq(Event)
      /\ "DATA" \in Mode /\ "SB_DATA" \in Mode
  BY DEF State, Mode
<1>2. k \in Nat /\ Len(p) \in Nat /\ k <= Len(p) /\ BufferLimit \in Nat
  BY BoundAssumption
<1>3. CASE k <= BufferLimit
  <2>1. SubSeq(p, 0 + 1, k) \in Seq(Byte)
    BY <1>2, SubSeqType
  <2>2. SubSeq(p, 1, k) \in Seq(Byte)
    BY <2>1
  <2> QED
    BY <1>1, <1>3, <2>2 DEF After, St, State
<1>4. CASE ~ (k <= BufferLimit)
  <2>1. SubSeq(p, 0 + 1, BufferLimit) \in Seq(Byte)
    BY <1>2, <1>4, SubSeqType
  <2>2. SubSeq(p, (BufferLimit + 1) + 1, k) \in Seq(Byte)
    BY <1>2, SubSeqType
  <2>3. SubSeq(p, 1, BufferLimit) \in Seq(Byte) /\ SubSeq(p, BufferLimit + 2, k) \in Seq(Byte)
    BY <1>2, <2>1, <2>2
  <2> DEFINE t == q.out \o Texts(SubSeq(p, BufferLimit + 2, k))
  <2>4. t \in Seq(Event)
    BY <1>1, <2>3, TextsType, ConcatProperties
  <2>5. After(q, p, k) = St("DATA", q.verb, q.sbopt, SubSeq(p, 1, BufferLimit), t)
    BY <1>4 DEF After
  <2> HIDE DEF t
  <2> QED
    BY <1>1, <2>3, <2>4, <2>5 DEF St, State
<1> QED
  BY <1>3, <1>4

LEMMA SubSeqLonger ==
    ASSUME NEW s \in Seq(Byte), NEW n \in Nat, n < Len(s)
    PROVE  SubSeq(s, 1, n + 1) = Append(SubSeq(s, 1, n), s[n + 1])
<1>1. 1 \in 1 .. Len(s) /\ n + 1 \in 1 .. Len(s) /\ (n + 1) - 1 = n
  OBVIOUS
<1>2. SubSeq(s, 1, n + 1) = SubSeq(s, 1, n) \o <<s[n + 1]>>
  BY <1>1, SubSeqRecursiveSecond
<1>3. SubSeq(s, 0 + 1, n) \in Seq(Byte) /\ s[n + 1] \in Byte
  BY <1>1, SubSeqType, ElementOfSeq
<1>4. SubSeq(s, 1, n) \in Seq(Byte)
  BY <1>3
<1> QED
  BY <1>2, <1>3, <1>4, AppendIsConcat

LEMMA AfterNext ==
    ASSUME NEW e, NEW q \in State, NEW p \in Seq(Plain \cup {"IAC"}),
           p \in Seq(Byte), NEW k \in 0 .. Len(p) - 1
    PROVE  Runs(e, After(q, p, k), Piece(p[k + 1]), After(q, p, k + 1))
<1> DEFINE b == p[k + 1]
           r == After(q, p, k)
           L == BufferLimit
<1>1. /\ k \in Nat /\ k < Len(p) /\ L \in Nat /\ Len(p) \in Nat
      /\ k + 1 \in 1 .. Len(p) /\ k \in 0 .. Len(p)
  BY BoundAssumption
<1>2. b \in Plain \cup {"IAC"} /\ b \in Byte /\ r \in State
  BY <1>1, ElementOfSeq, AfterType
<1>3. CASE k <= L
  <2>1. r = St("SB_DATA", q.verb, q.sbopt, SubSeq(p, 1, k), q.out)
    BY <1>3 DEF After
  <2>2. /\ r.mode = "SB_DATA" /\ r.verb = q.verb /\ r.sbopt = q.sbopt
        /\ r.buffer = SubSeq(p, 1, k) /\ r.out = q.out
    BY <2>1 DEF St
  <2>3. Len(r.buffer) = k
    <3>1. Len(SubSeq(p, 0 + 1, k)) = k - 0
      BY <1>1, <1>2, SubSeqType
    <3> QED
      BY <1>1, <2>2, <3>1
  <2>4. Runs(e, r, Piece(b), Store(r, b))
    BY <1>2, <2>2, PieceStored
  <2>5. CASE k < L
    <3>1. k + 1 <= L
      BY <1>1, <2>5
    <3>2. Store(r, b) = St("SB_DATA", q.verb, q.sbopt, Append(SubSeq(p, 1, k), b), q.out)
      BY <2>2, <2>3, <2>5 DEF Store
    <3>3. SubSeq(p, 1, k + 1) = Append(SubSeq(p, 1, k), b)
      BY <1>1, SubSeqLonger
    <3>4. After(q, p, k + 1) = Store(r, b)
      BY <3>1, <3>2, <3>3 DEF After
    <3> QED
      BY <2>4, <3>4
  <2>6. CASE k = L
    <3>1. ~ (k + 1 <= L) /\ ~ (k < L)
      BY <1>1, <2>6
    <3>2. Store(r, b) = St("DATA", q.verb, q.sbopt, SubSeq(p, 1, L), q.out \o <<>>)
      BY <2>2, <2>3, <2>6, <3>1 DEF Store, Goto
    <3>3. SubSeq(p, L + 2, k + 1) = <<>>
      <4>1. L + 2 \in Int /\ k + 1 \in Int /\ k + 1 < L + 2
        BY <1>1, <2>6
      <4> QED
        BY <4>1, SubSeqEmpty
    <3>4. After(q, p, k + 1) = Store(r, b)
      BY <3>1, <3>2, <3>3, TextsNothing DEF After
    <3> QED
      BY <2>4, <3>4
  <2> QED
    BY <1>1, <1>3, <2>5, <2>6
<1>4. CASE ~ (k <= L)
  <2> DEFINE t == Texts(SubSeq(p, L + 2, k))
  <2>1. r = St("DATA", q.verb, q.sbopt, SubSeq(p, 1, L), q.out \o t)
    BY <1>4 DEF After
  <2>2. /\ r.mode = "DATA" /\ r.verb = q.verb /\ r.sbopt = q.sbopt
        /\ r.buffer = SubSeq(p, 1, L) /\ r.out = q.out \o t
    <3> HIDE DEF r, t, L
    <3> QED
      BY <2>1 DEF St
  <2>3. b # "CR"
    BY <1>2, PlainFacts
  <2>4. Runs(e, r, Piece(b), Goto(r, "DATA", <<Text(b)>>))
    BY <1>2, <2>2, <2>3, PieceGiven
  <2>5. Texts(SubSeq(p, L + 2, k + 1)) = t \o <<Text(b)>> /\ t \in Seq(Event)
    <3>1. L + 1 <= k /\ L + 1 \in Nat /\ (L + 1) + 1 = L + 2 /\ k <= Len(p)
      BY <1>1, <1>4
    <3>2. Texts(SubSeq(p, (L + 1) + 1, k + 1))
            = Texts(SubSeq(p, (L + 1) + 1, k)) \o <<Text(b)>>
      BY <1>1, <3>1, TextsLonger
    <3>3. SubSeq(p, (L + 1) + 1, k) \in Seq(Byte)
      BY <1>1, <3>1, SubSeqType
    <3> QED
      BY <3>1, <3>2, <3>3, TextsType
  <2>6. q.out \o (t \o <<Text(b)>>) = (q.out \o t) \o <<Text(b)>>
    <3>1. <<Text(b)>> \in Seq(Event) /\ q.out \in Seq(Event)
      BY <1>2, EventFacts, NoEvents
    <3> HIDE DEF t
    <3> QED
      BY <2>5, <3>1, EventsAssociate
  <2>7. ~ (k + 1 <= L)
    BY <1>1, <1>4
  <2>8. After(q, p, k + 1) = Goto(r, "DATA", <<Text(b)>>)
    BY <2>2, <2>5, <2>6, <2>7 DEF After, Goto
  <2> QED
    BY <2>4, <2>8
<1> QED
  BY <1>3, <1>4

\* A payload that fits is in the buffer; else what follows the limit is text.
LEMMA PayloadRuns ==
    ASSUME NEW e, NEW q \in State, NEW p \in Seq(Plain \cup {"IAC"}),
           q.mode = "SB_DATA", q.buffer = <<>>
    PROVE  /\ p \in Seq(Byte) /\ Escape(p) \in Seq(Byte)
           /\ Runs(e, q, Escape(p), After(q, p, Len(p)))
<1>1. p \in Seq(Byte)
  BY PlainFacts, SeqDef
<1> DEFINE A == [k \in 0 .. Len(p) |-> After(q, p, k)]
<1>2. A \in [0 .. Len(p) -> State]
  BY <1>1, AfterType
<1>3. /\ \A k \in 0 .. Len(p) - 1 : A[k] = After(q, p, k) /\ A[k + 1] = After(q, p, k + 1)
      /\ A[0] = After(q, p, 0) /\ A[Len(p)] = After(q, p, Len(p))
  BY <1>1
<1>4. \A k \in 0 .. Len(p) - 1 : Runs(e, A[k], Piece(p[k + 1]), A[k + 1])
  <2> HIDE DEF A
  <2> QED
    BY <1>1, <1>3, AfterNext
<1>5. A[0] = q
  <2>1. SubSeq(p, 1, 0) = <<>>
    BY SubSeqEmpty
  <2>2. 0 <= BufferLimit
    BY BoundAssumption
  <2>3. After(q, p, 0) = St("SB_DATA", q.verb, q.sbopt, <<>>, q.out)
    BY <2>1, <2>2 DEF After
  <2> QED
    BY <1>3, <2>3 DEF St, State
<1> HIDE DEF A
<1> QED
  BY <1>1, <1>2, <1>3, <1>4, <1>5, EscapeRuns, EscapeType

\* What was said when a subnegotiation is still open.
Pending(q) == IF q.mode = "SB_DATA" THEN Ended(q) ELSE <<>>
Total(q) == q.out \o Pending(q)

\* Here a command, a negotiation or a subnegotiation may come.
Between(q) == q.mode = "DATA" \/ (q.mode = "SB_DATA" /\ q.sbopt \notin Restarts)

LEMMA PairAndOne ==
    ASSUME NEW S, NEW b \in S, NEW c \in S, NEW d \in S
    PROVE  <<b, c>> \o <<d>> = <<b, c, d>>
<1> DEFINE s == <<b, c>>
           t == <<d>>
           u == <<b, c, d>>
<1>1. s \in Seq(S) /\ Len(s) = 2 /\ s[1] = b /\ s[2] = c
  OBVIOUS
<1>2. t \in Seq(S) /\ Len(t) = 1 /\ t[1] = d
  OBVIOUS
<1>3. u \in Seq(S) /\ Len(u) = 3 /\ u[1] = b /\ u[2] = c /\ u[3] = d
  OBVIOUS
<1> HIDE DEF s, t, u
<1>4. /\ s \o t \in Seq(S) /\ Len(s \o t) = 3
      /\ (s \o t)[1] = b /\ (s \o t)[2] = c /\ (s \o t)[3] = d
  <2>1. /\ s \o t \in Seq(S) /\ Len(s \o t) = 2 + 1
        /\ \A k \in 1 .. 2 + 1 : (s \o t)[k] = IF k <= 2 THEN s[k] ELSE t[k - 2]
    <3>1. /\ s \o t \in Seq(S) /\ Len(s \o t) = Len(s) + Len(t)
          /\ \A k \in 1 .. Len(s) + Len(t) :
                (s \o t)[k] = IF k <= Len(s) THEN s[k] ELSE t[k - Len(s)]
      BY <1>1, <1>2, ConcatProperties
    <3> QED
      BY <1>1, <1>2, <3>1
  <2>2. /\ 1 \in 1 .. 2 + 1 /\ 2 \in 1 .. 2 + 1 /\ 3 \in 1 .. 2 + 1 /\ 2 + 1 = 3
        /\ ~ (3 <= 2) /\ 3 - 2 = 1
    OBVIOUS
  <2> QED
    BY <1>1, <1>2, <2>1, <2>2
<1>5. \A k \in 1 .. 3 : (s \o t)[k] = u[k]
  <2>1. \A k \in 1 .. 3 : k = 1 \/ k = 2 \/ k = 3
    OBVIOUS
  <2> QED
    BY <1>3, <1>4, <2>1
<1>6. s \o t = u
  BY <1>3, <1>4, <1>5, SeqEqual
<1> QED
  BY <1>3, <1>6 DEF s, t, u

LEMMA PayloadIsSeq == \A p \in Payload : p \in Seq(Plain \cup {"IAC"})
<1> SUFFICES ASSUME NEW p \in Payload
             PROVE  p \in Seq(Plain \cup {"IAC"})
  OBVIOUS
<1>1. PICK m \in 0 .. MaxPayload : p \in [1 .. m -> Plain \cup {"IAC"}]
  BY DEF Payload, BoundedSeq, SeqOf
<1>2. m \in Nat
  BY BoundAssumption
<1> QED
  BY <1>1, <1>2, SeqDef

LEMMA TotalType ==
    ASSUME NEW q \in State
    PROVE  /\ Pending(q) \in Seq(Event) /\ q.out \in Seq(Event) /\ Total(q) \in Seq(Event)
           /\ q.mode # "SB_DATA" => Total(q) = q.out
<1>1. q.out \in Seq(Event) /\ <<>> \in Seq(Event) /\ q.out \o <<>> = q.out
  BY NoEvents
<1>2. Ended(q) \in Seq(Event)
  BY EventFacts DEF State, Ended
<1>3. Pending(q) \in Seq(Event)
  BY <1>1, <1>2 DEF Pending
<1> QED
  BY <1>1, <1>3, ConcatProperties DEF Total, Pending

\* IAC and a command other than IAC and SE.
LEMMA Interrupted ==
    ASSUME NEW e, NEW q \in State, Between(q), NEW b \in Byte, b # "IAC",
           b = "SE" => q.mode = "DATA"
    PROVE  Runs(e, q, <<"IAC", b>>, Word(q, Pending(q), b))
<1>1. "IAC" \in Byte
  BY PlainFacts
<1> DEFINE m == IF q.mode = "DATA" THEN "IAC" ELSE "SB_DATA_IAC"
           r == Goto(q, m, <<>>)
<1>2. Step(e, q, "IAC") = r
  BY DEF Step, Between
<1>3. /\ r.mode = m /\ r.verb = q.verb /\ r.sbopt = q.sbopt
      /\ r.buffer = q.buffer /\ r.out = q.out
  <2> HIDE DEF m
  <2> QED
    BY NoEvents DEF Goto, St
<1> HIDE DEF r
<1>4. Step(e, r, b) = Word(r, Pending(q), b)
  <2>1. CASE q.mode = "DATA"
    BY <1>3, <2>1 DEF Step, Pending
  <2>2. CASE q.mode = "SB_DATA" /\ q.sbopt \notin Restarts
    <3>1. Ended(r) = Pending(q)
      BY <1>3, <2>2 DEF Pending, Ended
    <3>2. r.mode = "SB_DATA_IAC" /\ b # "SE" /\ r.sbopt \notin Restarts
      BY <1>3, <2>2
    <3> QED
      BY <3>1, <3>2 DEF Step
  <2> QED
    BY <2>1, <2>2 DEF Between
<1>5. Word(r, Pending(q), b) = Word(q, Pending(q), b)
  BY <1>3 DEF Word, Goto
<1> QED
  BY <1>1, <1>2, <1>4, <1>5, RunsTwo

\* IAC SE.
LEMMA ClosedOff ==
    ASSUME NEW e, NEW q \in State, q.mode \in {"DATA", "SB_DATA"}
    PROVE  \E r \in State :
              /\ Runs(e, q, <<"IAC", "SE">>, r) /\ r.mode = "DATA"
              /\ r.out = Total(q) \o (IF q.mode = "DATA" THEN <<Command("SE")>> ELSE <<>>)
<1>1. "IAC" \in Byte /\ "SE" \in Byte /\ <<"IAC", "SE">> \in Seq(Byte)
  BY DEF Byte
<1>2. CASE q.mode = "DATA"
  <2> DEFINE r == Word(q, Pending(q), "SE")
  <2>1. Runs(e, q, <<"IAC", "SE">>, r)
    BY <1>1, <1>2, Interrupted DEF Between
  <2>2. r \in State
    BY <1>1, <2>1, RunsTyped
  <2>3. "SE" \notin Verb
    BY ByteAssumption
  <2>4. r = Goto(q, "DATA", Pending(q) \o <<Command("SE")>>)
    BY <2>3 DEF Word
  <2>5. r.mode = "DATA" /\ r.out = q.out \o (Pending(q) \o <<Command("SE")>>)
    <3> HIDE DEF r
    <3> QED
      BY <2>4 DEF Goto, St
  <2>6. <<Command("SE")>> \in Seq(Event)
    BY <1>1, EventFacts
  <2>7. r.out = Total(q) \o <<Command("SE")>>
    BY <2>5, <2>6, TotalType, EventsAssociate DEF Total
  <2> QED
    BY <1>2, <2>1, <2>2, <2>5, <2>7
<1>3. CASE q.mode = "SB_DATA"
  <2> DEFINE s == Goto(q, "SB_DATA_IAC", <<>>)
  <2>1. Step(e, q, "IAC") = s
    BY <1>3 DEF Step
  <2>2. /\ s.mode = "SB_DATA_IAC" /\ s.verb = q.verb /\ s.sbopt = q.sbopt
        /\ s.buffer = q.buffer /\ s.out = q.out
    BY NoEvents DEF Goto, St
  <2> HIDE DEF s
  <2> DEFINE r == Goto(s, "DATA", Ended(s))
  <2>3. Step(e, s, "SE") = r
    BY <2>2 DEF Step
  <2>4. Runs(e, q, <<"IAC", "SE">>, r)
    BY <1>1, <2>1, <2>3, RunsTwo
  <2>5. r \in State
    BY <1>1, <2>4, RunsTyped
  <2>6. Ended(s) = Pending(q)
    BY <1>3, <2>2 DEF Ended, Pending
  <2>7. r.mode = "DATA" /\ r.out = Total(q)
    BY <2>2, <2>6 DEF Goto, St, Total
  <2>8. r.out = Total(q) \o <<>>
    BY <2>7, TotalType, ConcatEmptySeq
  <2> QED
    BY <1>3, <2>4, <2>5, <2>7, <2>8
<1> QED
  BY <1>2, <1>3

\* IAC and a command of Code.
LEMMA CommandRuns ==
    ASSUME NEW e, NEW q \in State, Between(q), NEW c \in Code
    PROVE  \E r \in State :
              /\ Runs(e, q, <<"IAC", c>>, r) /\ r.mode = "DATA"
              /\ r.out = Total(q) \o <<Command(c)>>
<1>1. c \in Byte /\ c \notin {"IAC", "SE", "SB"} /\ c \notin Verb /\ "IAC" \in Byte
  BY ByteAssumption DEF Byte
<1> DEFINE r == Word(q, Pending(q), c)
<1>2. Runs(e, q, <<"IAC", c>>, r) /\ <<"IAC", c>> \in Seq(Byte)
  BY <1>1, Interrupted, Pair
<1>3. r \in State
  BY <1>2, RunsTyped
<1>4. r = Goto(q, "DATA", Pending(q) \o <<Command(c)>>)
  BY <1>1 DEF Word
<1>5. r.mode = "DATA" /\ r.out = q.out \o (Pending(q) \o <<Command(c)>>)
  <2> HIDE DEF r
  <2> QED
    BY <1>4 DEF Goto, St
<1>6. <<Command(c)>> \in Seq(Event)
  BY <1>1, EventFacts
<1>7. r.out = Total(q) \o <<Command(c)>>
  <2>1. Pending(q) \in Seq(Event) /\ q.out \in Seq(Event)
    BY TotalType
  <2>2. (q.out \o Pending(q)) \o <<Command(c)>> = q.out \o (Pending(q) \o <<Command(c)>>)
    BY <1>6, <2>1, EventsAssociate
  <2> QED
    BY <1>5, <2>2 DEF Total
<1> QED
  BY <1>2, <1>3, <1>5, <1>7

\* IAC, a verb and an option.
LEMMA NegotiationRuns ==
    ASSUME NEW e, NEW q \in State, Between(q), NEW v \in Verb, NEW o \in Option
    PROVE  \E r \in State :
              /\ Runs(e, q, <<"IAC", v, o>>, r) /\ r.mode = "DATA"
              /\ r.out = Total(q) \o <<Negotiation(v, o)>>
<1>1. v \in Byte /\ v \notin {"IAC", "SE", "SB"} /\ "IAC" \in Byte /\ o \in Byte
  BY ByteAssumption DEF Byte
<1> DEFINE s == Word(q, Pending(q), v)
<1>2. Runs(e, q, <<"IAC", v>>, s) /\ <<"IAC", v>> \in Seq(Byte)
  BY <1>1, Interrupted, Pair
<1>3. s \in State
  BY <1>2, RunsTyped
<1>4. s = St("NEG", v, q.sbopt, q.buffer, q.out \o Pending(q))
  BY <1>1 DEF Word
<1>5. s.mode = "NEG" /\ s.verb = v /\ s.out = Total(q)
  <2> HIDE DEF s
  <2> QED
    BY <1>4 DEF Goto, St, Total
<1> HIDE DEF s
<1> DEFINE r == Goto(s, "DATA", <<Negotiation(v, o)>>)
<1>6. Step(e, s, o) = r
  BY <1>5 DEF Step
<1>7. Runs(e, s, <<o>>, r) /\ <<o>> \in Seq(Byte)
  BY <1>1, <1>3, <1>6, RunsOne
<1>8. r.mode = "DATA" /\ r.out = Total(q) \o <<Negotiation(v, o)>>
  BY <1>5 DEF Goto, St
<1> HIDE DEF r
<1>9. <<"IAC", v>> \o <<o>> = <<"IAC", v, o>>
  BY <1>1, PairAndOne
<1>10. Runs(e, q, <<"IAC", v, o>>, r)
  BY <1>2, <1>7, <1>9, RunsConcat
<1>11. r \in State
  BY <1>7, RunsTyped
<1> QED
  BY <1>8, <1>10, <1>11

\* After the start of a subnegotiation and its payload: it is open, or given up.
Opened(o, p, q) ==
    /\ q.mode = (IF Len(p) <= BufferLimit THEN "SB_DATA" ELSE "DATA")
    /\ q.mode = "SB_DATA" => q.sbopt = o

\* The start of a subnegotiation and its payload.
LEMMA SubHeadRuns ==
    ASSUME NEW e, NEW q \in State, Between(q), NEW o \in Option,
           NEW p \in Seq(Plain \cup {"IAC"})
    PROVE  /\ SubHead(o, p) \in Seq(Byte) /\ Arrives(o, p) \in Seq(Event)
           /\ \E r \in State :
                 /\ Runs(e, q, SubHead(o, p), r)
                 /\ Opened(o, p, r)
                 /\ Total(r) = Total(q) \o Arrives(o, p)
<1>1. "SB" \in Byte /\ "IAC" \in Byte /\ "SB" \notin {"IAC", "SE"} /\ o \in Byte
  BY DEF Byte
<1> DEFINE s == Word(q, Pending(q), "SB")
<1>2. Runs(e, q, <<"IAC", "SB">>, s) /\ <<"IAC", "SB">> \in Seq(Byte)
  BY <1>1, Interrupted, Pair
<1>3. s \in State
  BY <1>2, RunsTyped
<1>4. s = Goto(q, "SB", Pending(q))
  BY DEF Word
<1>5. s.mode = "SB" /\ s.verb = q.verb /\ s.out = Total(q)
  <2> HIDE DEF s
  <2> QED
    BY <1>4 DEF Goto, St, Total
<1> HIDE DEF s
<1> DEFINE t == St("SB_DATA", s.verb, o, <<>>, s.out)
<1>6. Step(e, s, o) = t
  BY <1>5 DEF Step
<1>7. Runs(e, s, <<o>>, t) /\ <<o>> \in Seq(Byte)
  BY <1>1, <1>3, <1>6, RunsOne
<1>8. t.mode = "SB_DATA" /\ t.sbopt = o /\ t.buffer = <<>> /\ t.out = Total(q)
  BY <1>5 DEF Goto, St
<1> HIDE DEF t
<1>9. <<"IAC", "SB">> \o <<o>> = <<"IAC", "SB", o>> /\ <<"IAC", "SB", o>> \in Seq(Byte)
  BY <1>1, PairAndOne, Triple
<1>10. Runs(e, q, <<"IAC", "SB", o>>, t) /\ t \in State
  BY <1>2, <1>7, <1>9, RunsConcat, RunsTyped
<1> DEFINE r == After(t, p, Len(p))
<1>11. p \in Seq(Byte) /\ Escape(p) \in Seq(Byte) /\ Runs(e, t, Escape(p), r)
  BY <1>8, <1>10, PayloadRuns
<1>12. Runs(e, q, SubHead(o, p), r) /\ SubHead(o, p) \in Seq(Byte) /\ r \in State
  <2> HIDE DEF r
  <2> QED
    BY <1>9, <1>10, <1>11, RunsConcat, RunsTyped, ConcatProperties DEF SubHead
<1>13. CASE Len(p) <= BufferLimit
  <2>1. SubSeq(p, 1, Len(p)) = p
    BY <1>11, SubSeqFull
  <2>2. r = St("SB_DATA", t.verb, t.sbopt, p, t.out)
    BY <1>13, <2>1 DEF After
  <2>3. r.mode = "SB_DATA" /\ r.sbopt = o /\ r.buffer = p /\ r.out = Total(q)
    <3> HIDE DEF r
    <3> QED
      BY <1>8, <2>2 DEF Goto, St
  <2> HIDE DEF r
  <2>4. Total(r) = Total(q) \o Arrives(o, p)
    BY <1>13, <2>3 DEF Total, Pending, Ended, Arrives
  <2>5. Arrives(o, p) \in Seq(Event)
    BY <1>1, <1>11, <1>13, EventFacts DEF Arrives
  <2> QED
    BY <1>12, <1>13, <2>3, <2>4, <2>5 DEF Opened
<1>14. CASE ~ (Len(p) <= BufferLimit)
  <2> DEFINE x == Texts(SubSeq(p, BufferLimit + 2, Len(p)))
  <2>1. Arrives(o, p) = x
    BY <1>14 DEF Arrives
  <2>2. r = St("DATA", t.verb, t.sbopt, SubSeq(p, 1, BufferLimit), t.out \o x)
    BY <1>14 DEF After
  <2>3. r.mode = "DATA" /\ r.out = Total(q) \o x
    <3> HIDE DEF r, x
    <3> QED
      BY <1>8, <2>2 DEF Goto, St
  <2>4. x \in Seq(Event)
    <3>1. BufferLimit + 1 \in Nat /\ (BufferLimit + 1) + 1 = BufferLimit + 2
          /\ Len(p) \in Nat /\ Len(p) <= Len(p)
      BY <1>11, BoundAssumption
    <3>2. SubSeq(p, (BufferLimit + 1) + 1, Len(p)) \in Seq(Byte)
      BY <1>11, <3>1, SubSeqType
    <3>3. SubSeq(p, BufferLimit + 2, Len(p)) \in Seq(Byte)
      BY <3>1, <3>2
    <3> QED
      BY <3>3, TextsType
  <2> HIDE DEF r, x
  <2>5. Total(r) = Total(q) \o Arrives(o, p)
    BY <1>12, <2>1, <2>3, TotalType
  <2> QED
    BY <1>12, <1>14, <2>1, <2>3, <2>4, <2>5 DEF Opened
<1> QED
  BY <1>13, <1>14

-----------------------------------------------------------------------------
\* What the program has been given when the loop stands at c[j + 1] in mode m.
Given(m, g, c, s, j) ==
    g \o Texts(IF m = "DATA" THEN SubSeq(c, s + 1, j) ELSE <<>>)

\* The loop as such a receiver, and the bytes it has still to take.
Here == St(mode, verb, sbopt, buffer, Given(mode, got, chunk, start, i))
Rest == SubSeq(chunk, i + 1, Len(chunk)) \o wire

\* Those would be understood as the rest of what was sent.
Understood ==
    \E r \in State : Runs(eol, Here, Rest, r) /\ r.mode = "DATA" /\ r.out = sent

\* The inductive invariant.
Reading ==
    /\ IInv /\ TypeOK
    /\ got \in Seq(Event) /\ sent \in Seq(Event)
    /\ Understood

LEMMA GivenIsReceived == Given(mode, got, chunk, start, i) = got \o Texts(Run)
  BY DEF Given, Run

LEMMA GivenType ==
    ASSUME NEW m, NEW g \in Seq(Event), NEW c \in Seq(Byte), NEW s \in Nat, NEW j \in Nat,
           j <= Len(c)
    PROVE  Given(m, g, c, s, j) \in Seq(Event)
<1>1. CASE m = "DATA"
  <2>1. SubSeq(c, s + 1, j) \in Seq(Byte)
    BY SubSeqType
  <2>2. Texts(SubSeq(c, s + 1, j)) \in Seq(Event)
    BY <2>1, TextsType
  <2> QED
    BY <1>1, <2>2, ConcatProperties DEF Given
<1>2. CASE m # "DATA"
  BY <1>2, TextsNothing, ConcatEmptySeq DEF Given
<1> QED
  BY <1>1, <1>2

LEMMA GivenQuiet ==
    ASSUME NEW m, NEW g \in Seq(Event), NEW c, NEW s \in Nat, NEW j \in Nat,
           m # "DATA" \/ s = j
    PROVE  Given(m, g, c, s, j) = g
<1>1. g \o Texts(<<>>) = g
  BY TextsNothing, ConcatEmptySeq
<1>2. CASE m # "DATA"
  BY <1>1, <1>2 DEF Given
<1>3. CASE s = j
  <2>1. s + 1 \in Int /\ j \in Int /\ j < s + 1
    BY <1>3
  <2>2. SubSeq(c, s + 1, j) = <<>>
    BY <2>1, SubSeqEmpty
  <2> QED
    BY <1>1, <2>2 DEF Given
<1> QED
  BY <1>2, <1>3

LEMMA GivenLonger ==
    ASSUME NEW g \in Seq(Event), NEW c \in Seq(Byte), NEW s \in Nat, NEW j \in Nat,
           s <= j, j < Len(c)
    PROVE  Given("DATA", g, c, s, j + 1) = Given("DATA", g, c, s, j) \o <<Text(c[j + 1])>>
<1>1. Texts(SubSeq(c, s + 1, j + 1)) = Texts(SubSeq(c, s + 1, j)) \o <<Text(c[j + 1])>>
  BY TextsLonger
<1>2. Texts(SubSeq(c, s + 1, j)) \in Seq(Event) /\ <<Text(c[j + 1])>> \in Seq(Event)
  <2>1. SubSeq(c, s + 1, j) \in Seq(Byte)
    BY SubSeqType
  <2>2. j + 1 \in 1 .. Len(c)
    OBVIOUS
  <2>3. Text(c[j + 1]) \in Event
    BY <2>2, ElementOfSeq, EventFacts
  <2>4. Texts(SubSeq(c, s + 1, j)) \in Seq(Event)
    BY <2>1, TextsType
  <2>5. <<Text(c[j + 1])>> \in Seq(Event)
    <3> HIDE DEF Event
    <3> QED
      BY <2>3
  <2> QED
    BY <2>4, <2>5
<1> DEFINE t == Texts(SubSeq(c, s + 1, j))
           u == <<Text(c[j + 1])>>
<1>3. g \o (t \o u) = (g \o t) \o u
  <2> HIDE DEF t, u
  <2> QED
    BY <1>2, EventsAssociate DEF t, u
<1> QED
  BY <1>1, <1>3 DEF Given

LEMMA HereTyped ==
    ASSUME IInv, TypeOK, got \in Seq(Event)
    PROVE  Here \in State /\ Rest \in Seq(Byte)
<1>1. i \in Nat /\ start \in Nat /\ i <= Len(chunk) /\ chunk \in Seq(Byte) /\ wire \in Seq(Byte)
  BY DEF IInv, RunsInBounds, TypeOK
<1>2. Given(mode, got, chunk, start, i) \in Seq(Event)
  BY <1>1, GivenType
<1>3. Here \in State
  BY <1>2 DEF Here, St, State, TypeOK
<1>4. SubSeq(chunk, i + 1, Len(chunk)) \in Seq(Byte)
  <2>1. Len(chunk) \in Nat /\ Len(chunk) <= Len(chunk)
    BY <1>1
  <2> QED
    BY <1>1, <2>1, SubSeqType
<1> QED
  BY <1>1, <1>3, <1>4, ConcatProperties DEF Rest

\* The loop takes byte i and is left with the rest.
Consumes ==
    /\ got' \in Seq(Event) /\ chunk' \in Seq(Byte)
    /\ Here' = Step(eol, Here, This)
    /\ Rest' = SubSeq(chunk, i + 2, Len(chunk)) \o wire
    /\ UNCHANGED <<eol, sent, wire, items>>

LEMMA FirstAndRest ==
    ASSUME NEW S, NEW x \in S, NEW y \in Seq(S)
    PROVE  /\ <<x>> \o y \in Seq(S) /\ <<x>> \o y # <<>>
           /\ Head(<<x>> \o y) = x /\ Tail(<<x>> \o y) = y
<1> DEFINE s == <<x>>
           u == s \o y
           n == Len(y)
<1>1. s \in Seq(S) /\ Len(s) = 1 /\ s[1] = x /\ n \in Nat
  OBVIOUS
<1> HIDE DEF s
<1>2. /\ u \in Seq(S) /\ Len(u) = 1 + n
      /\ \A k \in 1 .. 1 + n : u[k] = IF k <= 1 THEN s[k] ELSE y[k - 1]
  <2>1. /\ u \in Seq(S) /\ Len(u) = Len(s) + Len(y)
        /\ \A k \in 1 .. Len(s) + Len(y) : u[k] = IF k <= Len(s) THEN s[k] ELSE y[k - Len(s)]
    BY <1>1, ConcatProperties
  <2> QED
    BY <1>1, <2>1
<1> HIDE DEF u
<1>3. u # <<>>
  BY <1>1, <1>2, EmptySeq
<1>4. Head(u) = u[1] /\ u[1] = x
  BY <1>1, <1>2, <1>3, HeadTailProperties
<1>5. /\ Tail(u) \in Seq(S) /\ Len(Tail(u)) = n
      /\ \A k \in 1 .. n : Tail(u)[k] = u[k + 1]
  BY <1>1, <1>2, <1>3, HeadTailProperties
<1>6. ASSUME NEW k \in 1 .. n
      PROVE  Tail(u)[k] = y[k]
  <2>1. k + 1 \in 1 .. 1 + n /\ ~ (k + 1 <= 1) /\ (k + 1) - 1 = k
    BY <1>1
  <2> QED
    BY <1>2, <1>5, <2>1
<1>7. Tail(u) = y
  BY <1>5, <1>6, SeqEqual
<1> QED
  BY <1>2, <1>3, <1>4, <1>7 DEF u, s

LEMMA RestSplit ==
    ASSUME TypeOK, i < Len(chunk)
    PROVE  /\ Rest \in Seq(Byte) /\ Rest # <<>> /\ Head(Rest) = This /\ This \in Byte
           /\ Tail(Rest) = SubSeq(chunk, i + 2, Len(chunk)) \o wire
<1> DEFINE n == Len(chunk)
           a == SubSeq(chunk, i + 1, n)
           b == SubSeq(chunk, i + 2, n)
<1>1. /\ i \in Nat /\ n \in Nat /\ i < n /\ chunk \in Seq(Byte) /\ wire \in Seq(Byte)
      /\ i + 1 \in 1 .. n /\ n \in i + 1 .. n /\ (i + 1) + 1 = i + 2
  BY DEF TypeOK
<1>2. a = <<This>> \o b
  BY <1>1, SubSeqRecursiveFirst DEF This
<1>3. This \in Byte
  BY <1>1, ElementOfSeq DEF This
<1>4. b \in Seq(Byte)
  <2>1. i + 1 \in Nat /\ n <= n
    BY <1>1
  <2>2. SubSeq(chunk, (i + 1) + 1, n) \in Seq(Byte)
    BY <1>1, <2>1, SubSeqType
  <2> QED
    BY <1>1, <2>2
<1> HIDE DEF a, b
<1> DEFINE x == This
           y == b \o wire
<1> HIDE DEF x
<1>5. y \in Seq(Byte) /\ <<x>> \in Seq(Byte)
  BY <1>1, <1>3, <1>4, ConcatProperties DEF x
<1>6. (<<x>> \o b) \o wire = <<x>> \o y
  BY <1>1, <1>4, <1>5, ConcatAssociative
<1>7. Rest = <<x>> \o y
  BY <1>2, <1>6 DEF Rest, a, x
<1> HIDE DEF y
<1>8. <<x>> \o y # <<>> /\ Head(<<x>> \o y) = x /\ Tail(<<x>> \o y) = y
        /\ <<x>> \o y \in Seq(Byte)
  BY <1>3, <1>5, FirstAndRest DEF x
<1> QED
  BY <1>3, <1>7, <1>8 DEF x, y, b

LEMMA ConsumesKeeps ==
    ASSUME Reading, i < Len(chunk), IInv', Consumes
    PROVE  /\ Reading' /\ Extends(Here'.out, Here.out)
<1>1. TypeOK /\ got \in Seq(Event) /\ Here \in State
  BY HereTyped DEF Reading
<1>2. /\ Rest \in Seq(Byte) /\ Rest # <<>> /\ Head(Rest) = This /\ This \in Byte
      /\ Tail(Rest) = Rest'
  BY <1>1, RestSplit DEF Consumes
<1>3. Here' = Step(eol, Here, This)
  BY DEF Consumes
<1>4. Here' \in State /\ Extends(Here'.out, Here.out)
  BY <1>1, <1>2, <1>3, StepTyped
<1>5. PICK r \in State : Runs(eol, Here, Rest, r) /\ r.mode = "DATA" /\ r.out = sent
  BY DEF Reading, Understood
<1>6. Runs(eol, Step(eol, Here, Head(Rest)), Tail(Rest), r)
  BY <1>2, <1>5, RunsRest
<1>7. Runs(eol', Here', Rest', r) /\ r.out = sent'
  BY <1>2, <1>3, <1>5, <1>6 DEF Consumes
<1>8. Understood'
  BY <1>5, <1>7 DEF Understood
<1>9. TypeOK'
  <2>1. mode' \in Mode /\ verb' \in Verb /\ sbopt' \in Byte /\ buffer' \in Seq(Byte)
    <3>1. /\ Here'.mode = mode' /\ Here'.verb = verb' /\ Here'.sbopt = sbopt'
          /\ Here'.buffer = buffer'
      BY DEF Here, St
    <3> HIDE DEF Here
    <3> QED
      BY <1>4, <3>1 DEF State
  <2>2. i' \in Nat /\ start' \in Nat /\ Len(buffer') <= BufferLimit
    BY DEF IInv
  <2> QED
    BY <1>1, <2>1, <2>2 DEF TypeOK, Consumes
<1> QED
  BY <1>4, <1>8, <1>9 DEF Reading, Consumes

\* An iteration: chunk stays.
LEMMA Iterates ==
    ASSUME Reading, i < Len(chunk), NEW m, NEW es \in Seq(Event), Next1(m, es),
           St(m, verb', sbopt', buffer', Given(m, got \o es, chunk, start', i + 1))
             = Step(eol, Here, This)
    PROVE  Consumes
<1>1. /\ i' = i + 1 /\ mode' = m /\ got' = got \o es /\ chunk' = chunk /\ wire' = wire
      /\ UNCHANGED <<eol, sent, items>>
  BY DEF Next1, sender
<1>2. got \in Seq(Event) /\ chunk \in Seq(Byte) /\ i \in Nat /\ (i + 1) + 1 = i + 2
  BY DEF Reading, TypeOK
<1>3. got' \in Seq(Event)
  BY <1>1, <1>2, ConcatProperties
<1>4. Here' = Step(eol, Here, This)
  BY <1>1 DEF Here
<1>5. Rest' = SubSeq(chunk, i + 2, Len(chunk)) \o wire
  BY <1>1, <1>2 DEF Rest
<1> QED
  BY <1>1, <1>2, <1>3, <1>4, <1>5 DEF Consumes

LEMMA HereFields ==
    /\ Here.mode = mode /\ Here.verb = verb /\ Here.sbopt = sbopt /\ Here.buffer = buffer
    /\ Here.out = Given(mode, got, chunk, start, i)
  BY DEF Here, St

LEMMA ReadingFacts ==
    Reading => /\ i \in Nat /\ start \in Nat /\ got \in Seq(Event) /\ chunk \in Seq(Byte)
               /\ mode = "DATA" => start <= i
               /\ got \o <<>> = got
               /\ mode # "DATA" => Here.out = got
               /\ verb \in Verb /\ sbopt \in Byte /\ buffer \in Seq(Byte)
<1> SUFFICES ASSUME Reading
             PROVE  /\ i \in Nat /\ start \in Nat /\ got \in Seq(Event) /\ chunk \in Seq(Byte)
                    /\ mode = "DATA" => start <= i
                    /\ got \o <<>> = got
                    /\ mode # "DATA" => Here.out = got
                    /\ verb \in Verb /\ sbopt \in Byte /\ buffer \in Seq(Byte)
  OBVIOUS
<1>1. /\ i \in Nat /\ start \in Nat /\ got \in Seq(Event) /\ chunk \in Seq(Byte)
      /\ mode = "DATA" => start <= i
      /\ verb \in Verb /\ sbopt \in Byte /\ buffer \in Seq(Byte)
  BY DEF Reading, TypeOK, IInv, RunsInBounds
<1>2. mode # "DATA" => Here.out = got
  BY <1>1, GivenQuiet, HereFields
<1> QED
  BY <1>1, <1>2, ConcatEmptySeq

LEMMA ThisTyped ==
    ASSUME Reading, i < Len(chunk)
    PROVE  /\ This \in Byte
           /\ <<>> \in Seq(Event) /\ <<Text(This)>> \in Seq(Event)
           /\ <<Text("CR")>> \in Seq(Event) /\ <<Text("IAC")>> \in Seq(Event)
           /\ <<Command(This)>> \in Seq(Event) /\ <<Negotiation(verb, This)>> \in Seq(Event)
           /\ <<Sub(sbopt, buffer)>> \in Seq(Event)
<1>1. This \in Byte
  BY RestSplit DEF Reading
<1>2. "CR" \in Byte /\ "IAC" \in Byte
  BY DEF Byte
<1> QED
  BY <1>1, <1>2, ReadingFacts, EventFacts

\* ... that gives events and does not leave text behind.
LEMMA Moves ==
    ASSUME Reading, i < Len(chunk), mode # "DATA",
           NEW m, NEW es \in Seq(Event), Next1(m, es),
           m # "DATA" \/ start' = i + 1,
           m # "DATA" => start' = start,
           St(m, verb', sbopt', buffer', got \o es) = Step(eol, Here, This)
    PROVE  Consumes
<1>1. got \o es \in Seq(Event) /\ start' \in Nat /\ i + 1 \in Nat
  BY ReadingFacts, ConcatProperties
<1>2. Given(m, got \o es, chunk, start', i + 1) = got \o es
  <2> DEFINE g == got \o es
             s == start'
             j == i + 1
  <2>1. g \in Seq(Event) /\ s \in Nat /\ j \in Nat /\ (m # "DATA" \/ s = j)
    BY <1>1
  <2> HIDE DEF g, s, j
  <2>2. Given(m, g, chunk, s, j) = g
    BY <2>1, GivenQuiet
  <2> QED
    BY <2>2 DEF g, s, j
<1> QED
  BY <1>2, Iterates

\* Each iteration of the loop takes its byte as Step does.
LEMMA DataConsumes == Reading /\ Data => Consumes
<1> SUFFICES ASSUME Reading, Data
             PROVE  Consumes
  OBVIOUS
<1>1. /\ mode = "DATA" /\ i < Len(chunk) /\ start' = start
      /\ verb' = verb /\ sbopt' = sbopt /\ buffer' = buffer
  BY DEF Data, Looping, parser
<1>2. i \in Nat /\ start \in Nat /\ start <= i /\ got \in Seq(Event) /\ chunk \in Seq(Byte)
  BY <1>1, ReadingFacts
<1> DEFINE g == Given("DATA", got, chunk, start, i)
<1>3. Here.mode = "DATA" /\ Here.out = g /\ Here.verb = verb /\ Here.sbopt = sbopt
      /\ Here.buffer = buffer
  BY <1>1, HereFields
<1>4. g \in Seq(Event) /\ got \o Texts(Run) = g /\ g \o <<>> = g
  <2>1. g \in Seq(Event)
    BY <1>1, <1>2, GivenType
  <2> QED
    BY <1>1, <2>1, GivenIsReceived, ConcatEmptySeq
<1>5. Texts(Run) \in Seq(Event)
  <2>1. SubSeq(chunk, start + 1, i) \in Seq(Byte)
    BY <1>1, <1>2, SubSeqType
  <2> QED
    BY <1>1, <2>1, TextsType DEF Run
<1> HIDE DEF g
<1>6. ASSUME NEW m \in {"IAC", "EOL"}, Next1(m, Texts(Run)),
             This = "IAC" \/ (This = "CR" /\ eol),
             m = "IAC" <=> This = "IAC"
      PROVE  Consumes
  <2>1. Given(m, got \o Texts(Run), chunk, start', i + 1) = g
    <3>1. got \o Texts(Run) \in Seq(Event) /\ start' \in Nat /\ i + 1 \in Nat /\ m # "DATA"
      BY <1>1, <1>2, <1>4
    <3> QED
      BY <1>4, <3>1, GivenQuiet
  <2>2. Step(eol, Here, This) = Goto(Here, m, <<>>)
    BY <1>3, <1>6 DEF Step
  <2>3. Goto(Here, m, <<>>) = St(m, verb, sbopt, buffer, g)
    BY <1>3, <1>4 DEF Goto
  <2> QED
    BY <1>1, <1>5, <1>6, <2>1, <2>2, <2>3, Iterates
<1>7. ASSUME Next1("DATA", <<>>), This # "IAC", ~(This = "CR" /\ eol)
      PROVE  Consumes
  <2>1. Given("DATA", got, chunk, start, i + 1) = g \o <<Text(This)>>
    BY <1>1, <1>2, GivenLonger DEF g, This
  <2>2. got \o <<>> = got /\ <<>> \in Seq(Event)
    BY <1>2, ConcatEmptySeq
  <2>3. Step(eol, Here, This) = Goto(Here, "DATA", <<Text(This)>>)
    BY <1>3, <1>7 DEF Step
  <2>4. Goto(Here, "DATA", <<Text(This)>>) = St("DATA", verb, sbopt, buffer, g \o <<Text(This)>>)
    BY <1>3 DEF Goto
  <2> QED
    BY <1>1, <1>7, <2>1, <2>2, <2>3, <2>4, Iterates
<1> QED
  BY <1>6, <1>7 DEF Data

LEMMA EolConsumes == Reading /\ Eol => Consumes
<1> SUFFICES ASSUME Reading, Eol
             PROVE  Consumes
  OBVIOUS
<1>1. /\ mode = "EOL" /\ i < Len(chunk)
      /\ verb' = verb /\ sbopt' = sbopt /\ buffer' = buffer
      /\ start' = IF This = "NUL" THEN i + 1 ELSE i
  BY DEF Eol, Looping, parser
<1>2. /\ i \in Nat /\ got \in Seq(Event) /\ chunk \in Seq(Byte)
      /\ Here.out = got /\ got \o <<>> = got
  BY <1>1, ReadingFacts
<1>3. Here.mode = "EOL" /\ Here.verb = verb /\ Here.sbopt = sbopt /\ Here.buffer = buffer
  BY <1>1, HereFields
<1>4. /\ <<>> \in Seq(Event) /\ <<Text(This)>> \in Seq(Event) /\ <<Text("CR")>> \in Seq(Event)
  BY <1>1, ThisTyped
<1> DEFINE es == IF This = "LF" THEN <<>> ELSE <<Text("CR")>>
<1>5. Next1("DATA", es) /\ es \in Seq(Event)
  BY <1>4 DEF Eol
<1>6. CASE This = "NUL"
  <2>1. es = <<Text("CR")>> /\ start' = i + 1
    BY <1>1, <1>6
  <2>2. Step(eol, Here, This) = Goto(Here, "DATA", <<Text("CR")>>)
    BY <1>3, <1>6 DEF Step
  <2>3. Goto(Here, "DATA", <<Text("CR")>>) = St("DATA", verb, sbopt, buffer, got \o es)
    BY <1>2, <1>3, <2>1 DEF Goto
  <2> HIDE DEF es
  <2> QED
    BY <1>1, <1>5, <2>1, <2>2, <2>3, Moves
<1>7. CASE This # "NUL"
  <2> DEFINE g == got \o es
             c == <<Text(This)>>
  <2>1. g \in Seq(Event) /\ start' = i
    BY <1>1, <1>2, <1>5, <1>7, ConcatProperties
  <2>2. Given("DATA", g, chunk, i, i + 1) = g \o c
    <3> HIDE DEF g
    <3>1. Given("DATA", g, chunk, i, i + 1) = Given("DATA", g, chunk, i, i) \o <<Text(chunk[i + 1])>>
      BY <1>1, <1>2, <2>1, GivenLonger
    <3>2. Given("DATA", g, chunk, i, i) = g
      BY <1>2, <2>1, GivenQuiet
    <3> QED
      BY <3>1, <3>2 DEF This
  <2>3. CASE This = "LF"
    <3>1. g = got
      BY <1>2, <2>3
    <3>2. Step(eol, Here, This) = Goto(Here, "DATA", c)
      BY <1>3, <2>3 DEF Step
    <3>3. Goto(Here, "DATA", c) = St("DATA", verb, sbopt, buffer, got \o c)
      BY <1>2, <1>3 DEF Goto
    <3> HIDE DEF g, es, c
    <3>4. Given("DATA", got \o es, chunk, start', i + 1) = got \o c
      BY <2>1, <2>2, <3>1 DEF g
    <3> QED
      BY <1>1, <1>5, <3>2, <3>3, <3>4, Iterates
  <2>4. CASE This # "LF"
    <3> DEFINE d == <<Text("CR")>>
    <3>1. es = d
      BY <2>4
    <3>2. Step(eol, Here, This) = Goto(Here, "DATA", d \o c)
      BY <1>3, <1>7, <2>4 DEF Step
    <3>3. Goto(Here, "DATA", d \o c) = St("DATA", verb, sbopt, buffer, got \o (d \o c))
      BY <1>2, <1>3 DEF Goto
    <3> HIDE DEF es, c, d
    <3>4. got \o (d \o c) = (got \o d) \o c
      BY <1>2, <1>4, EventsAssociate DEF c, d
    <3>5. Given("DATA", got \o es, chunk, start', i + 1) = got \o (d \o c)
      BY <2>1, <2>2, <3>1, <3>4
    <3> QED
      BY <1>1, <1>5, <3>2, <3>3, <3>5, Iterates
  <2> QED
    BY <2>3, <2>4
<1> QED
  BY <1>6, <1>7

\* The command byte after an IAC.
LEMMA InterpretConsumes ==
    ASSUME Reading, i < Len(chunk), mode # "DATA", NEW es \in Seq(Event), Interpret(es),
           sbopt' = sbopt, buffer' = buffer,
           start' = i + 1 \/ (mode' # "DATA" /\ start' = start),
           Step(eol, Here, This) = Word(Here, es, This)
    PROVE  Consumes
<1>1. /\ Here.verb = verb /\ Here.sbopt = sbopt /\ Here.buffer = buffer /\ Here.out = got
      /\ i \in Nat /\ got \in Seq(Event)
  BY HereFields, ReadingFacts
<1>2. <<Command(This)>> \in Seq(Event) /\ start' \in Nat /\ i + 1 \in Nat
  BY <1>1, ThisTyped, ReadingFacts
<1>3. ASSUME NEW m, NEW fs \in Seq(Event), Next1(m, fs),
             St(m, verb', sbopt, buffer, got \o fs) = Word(Here, es, This)
      PROVE  Consumes
  <2>1. mode' = m
    BY <1>3 DEF Next1
  <2>2. got \o fs \in Seq(Event)
    BY <1>1, ConcatProperties
  <2>3. Given(m, got \o fs, chunk, start', i + 1) = got \o fs
    <3> DEFINE g == got \o fs
               s == start'
               j == i + 1
    <3>1. g \in Seq(Event) /\ s \in Nat /\ j \in Nat /\ (m # "DATA" \/ s = j)
      BY <1>2, <2>1, <2>2
    <3> HIDE DEF g, s, j
    <3>2. Given(m, g, chunk, s, j) = g
      BY <3>1, GivenQuiet
    <3> QED
      BY <3>2 DEF g, s, j
  <2> QED
    BY <1>3, <2>3, Iterates
<1>4. CASE This = "SB" /\ Next1("SB", es) /\ UNCHANGED verb
  <2>1. Word(Here, es, This) = St("SB", verb', sbopt, buffer, got \o es)
    BY <1>1, <1>4 DEF Word, Goto
  <2> QED
    BY <1>3, <1>4, <2>1
<1>5. CASE This \in Verb /\ Next1("NEG", es) /\ verb' = This
  <2>1. This # "SB"
    BY <1>5, ByteAssumption
  <2>2. Word(Here, es, This) = St("NEG", verb', sbopt, buffer, got \o es)
    BY <1>1, <1>5, <2>1 DEF Word
  <2> QED
    BY <1>3, <1>5, <2>2
<1>6. CASE /\ This \notin Verb \cup {"SB", "IAC"}
           /\ Next1("DATA", es \o <<Command(This)>>)
           /\ UNCHANGED verb
  <2> DEFINE fs == es \o <<Command(This)>>
  <2>1. fs \in Seq(Event)
    BY <1>2, ConcatProperties
  <2>2. Word(Here, es, This) = Goto(Here, "DATA", fs)
    BY <1>6 DEF Word
  <2> HIDE DEF fs
  <2>3. Goto(Here, "DATA", fs) = St("DATA", verb', sbopt, buffer, got \o fs)
    BY <1>1, <1>6 DEF Goto
  <2> QED
    BY <1>3, <1>6, <2>1, <2>2, <2>3 DEF fs
<1> QED
  BY <1>4, <1>5, <1>6 DEF Interpret

LEMMA IacConsumes == Reading /\ Iac => Consumes
<1> SUFFICES ASSUME Reading, Iac
             PROVE  Consumes
  OBVIOUS
<1>1. mode = "IAC" /\ i < Len(chunk) /\ sbopt' = sbopt /\ buffer' = buffer
  BY DEF Iac, Looping
<1>2. /\ Here.mode = "IAC" /\ Here.verb = verb /\ Here.sbopt = sbopt
      /\ Here.buffer = buffer /\ Here.out = got
      /\ <<>> \in Seq(Event) /\ <<Text("IAC")>> \in Seq(Event)
  BY <1>1, HereFields, ReadingFacts, ThisTyped
<1>3. CASE Escaped
  <2>1. This = "IAC" /\ Next1("DATA", <<Text("IAC")>>) /\ start' = i + 1 /\ verb' = verb
    BY <1>3 DEF Escaped, ResumeText
  <2>2. Step(eol, Here, This) = Goto(Here, "DATA", <<Text("IAC")>>)
    BY <1>2, <2>1 DEF Step
  <2>3. Goto(Here, "DATA", <<Text("IAC")>>)
          = St("DATA", verb', sbopt', buffer', got \o <<Text("IAC")>>)
    BY <1>1, <1>2, <2>1 DEF Goto
  <2> QED
    BY <1>1, <1>2, <2>1, <2>2, <2>3, Moves
<1>4. CASE Interpret(<<>>) /\ start' = IF mode' = "DATA" THEN i + 1 ELSE start
  <2>1. This # "IAC"
    BY <1>4, ByteAssumption DEF Interpret
  <2>2. Step(eol, Here, This) = Word(Here, <<>>, This)
    BY <1>2, <2>1 DEF Step
  <2> QED
    BY <1>1, <1>2, <1>4, <2>2, InterpretConsumes
<1> QED
  BY <1>3, <1>4 DEF Iac

LEMMA NegConsumes == Reading /\ Neg => Consumes
<1> SUFFICES ASSUME Reading, Neg
             PROVE  Consumes
  OBVIOUS
<1>1. /\ mode = "NEG" /\ i < Len(chunk) /\ start' = i + 1
      /\ verb' = verb /\ sbopt' = sbopt /\ buffer' = buffer
  BY DEF Neg, Looping, ResumeText, parser
<1> DEFINE es == <<Negotiation(verb, This)>>
<1>2. /\ Here.mode = "NEG" /\ Here.verb = verb /\ Here.sbopt = sbopt
      /\ Here.buffer = buffer /\ Here.out = got /\ es \in Seq(Event)
  BY <1>1, HereFields, ReadingFacts, ThisTyped
<1>3. Next1("DATA", es)
  BY DEF Neg, ResumeText
<1>4. Step(eol, Here, This) = Goto(Here, "DATA", es)
  BY <1>2 DEF Step
<1> HIDE DEF es
<1>5. Goto(Here, "DATA", es) = St("DATA", verb', sbopt', buffer', got \o es)
  BY <1>1, <1>2 DEF Goto
<1> QED
  BY <1>1, <1>2, <1>3, <1>4, <1>5, Moves

LEMMA SbConsumes == Reading /\ Sb => Consumes
<1> SUFFICES ASSUME Reading, Sb
             PROVE  Consumes
  OBVIOUS
<1>1. /\ mode = "SB" /\ i < Len(chunk) /\ start' = start
      /\ verb' = verb /\ sbopt' = This /\ buffer' = <<>> /\ Next1("SB_DATA", <<>>)
  BY DEF Sb, Looping
<1>2. /\ Here.mode = "SB" /\ Here.verb = verb /\ Here.out = got /\ got \o <<>> = got
      /\ <<>> \in Seq(Event)
  BY <1>1, HereFields, ReadingFacts, ThisTyped
<1>3. Step(eol, Here, This) = St("SB_DATA", verb', sbopt', buffer', got \o <<>>)
  BY <1>1, <1>2 DEF Step
<1> QED
  BY <1>1, <1>2, <1>3, Moves

LEMMA BufferByteConsumes ==
    ASSUME Reading, BufferByte, i < Len(chunk), mode \in {"SB_DATA", "SB_DATA_IAC"},
           Step(eol, Here, This) = Store(Here, This)
    PROVE  Consumes
<1>1. verb' = verb /\ sbopt' = sbopt /\ mode # "DATA"
  BY DEF BufferByte
<1>2. /\ Here.verb = verb /\ Here.sbopt = sbopt /\ Here.buffer = buffer
      /\ Here.out = got /\ got \o <<>> = got /\ <<>> \in Seq(Event)
  BY <1>1, HereFields, ReadingFacts, ThisTyped
<1>3. CASE HasRoom /\ Next1("SB_DATA", <<>>) /\ buffer' = Append(buffer, This)
           /\ UNCHANGED start
  <2>1. Store(Here, This) = St("SB_DATA", verb', sbopt', buffer', got \o <<>>)
    BY <1>1, <1>2, <1>3 DEF Store, HasRoom
  <2> QED
    BY <1>1, <1>2, <1>3, <2>1, Moves
<1>4. CASE ~HasRoom /\ ResumeText("DATA", <<>>) /\ UNCHANGED buffer
  <2>1. Store(Here, This) = St("DATA", verb', sbopt', buffer', got \o <<>>)
    BY <1>1, <1>2, <1>4 DEF Store, HasRoom, Goto
  <2> QED
    BY <1>1, <1>2, <1>4, <2>1, Moves DEF ResumeText
<1> QED
  BY <1>3, <1>4 DEF BufferByte

LEMMA SbDataConsumes == Reading /\ SbData => Consumes
<1> SUFFICES ASSUME Reading, SbData
             PROVE  Consumes
  OBVIOUS
<1>1. mode = "SB_DATA" /\ i < Len(chunk)
  BY DEF SbData, Looping
<1>2. /\ Here.mode = "SB_DATA" /\ Here.verb = verb /\ Here.sbopt = sbopt
      /\ Here.buffer = buffer /\ Here.out = got /\ got \o <<>> = got /\ <<>> \in Seq(Event)
  BY <1>1, HereFields, ReadingFacts, ThisTyped
<1>3. CASE This = "IAC" /\ Next1("SB_DATA_IAC", <<>>) /\ UNCHANGED <<start, parser>>
  <2>1. verb' = verb /\ sbopt' = sbopt /\ buffer' = buffer /\ start' = start
    BY <1>3 DEF parser
  <2>2. Step(eol, Here, This) = Goto(Here, "SB_DATA_IAC", <<>>)
    BY <1>2, <1>3 DEF Step
  <2>3. Goto(Here, "SB_DATA_IAC", <<>>) = St("SB_DATA_IAC", verb', sbopt', buffer', got \o <<>>)
    BY <1>2, <2>1 DEF Goto
  <2> QED
    BY <1>1, <1>2, <1>3, <2>1, <2>2, <2>3, Moves
<1>4. CASE This # "IAC" /\ BufferByte
  <2>1. Step(eol, Here, This) = Store(Here, This)
    BY <1>2, <1>4 DEF Step
  <2> QED
    BY <1>1, <1>4, <2>1, BufferByteConsumes
<1> QED
  BY <1>3, <1>4 DEF SbData

LEMMA RestartConsumes ==
    ASSUME Reading, i < Len(chunk), mode # "DATA", NEW m, Restart(m),
           Step(eol, Here, This) = Goto(Here, m, <<Sub(sbopt, buffer)>>)
    PROVE  Consumes
<1> DEFINE n == Len(chunk)
           es == <<Sub(sbopt, buffer)>>
<1>1. /\ chunk' = SubSeq(chunk, i + 2, n) /\ i' = 0 /\ start' = 0 /\ mode' = m
      /\ got' = Append(got, Sub(sbopt, buffer)) /\ wire' = wire
      /\ verb' = verb /\ sbopt' = sbopt /\ buffer' = buffer
      /\ UNCHANGED <<eol, sent, items>>
  BY DEF Restart, parser, sender
<1>2. /\ Here.verb = verb /\ Here.sbopt = sbopt /\ Here.buffer = buffer /\ Here.out = got
      /\ i \in Nat /\ got \in Seq(Event) /\ chunk \in Seq(Byte) /\ n \in Nat
      /\ es \in Seq(Event)
  BY HereFields, ReadingFacts, ThisTyped
<1>3. got' = got \o es /\ got' \in Seq(Event)
  <2>1. Sub(sbopt, buffer) \in Event
    BY ReadingFacts, EventFacts
  <2>2. Append(got, Sub(sbopt, buffer)) = got \o es
    BY <1>2, <2>1, AppendIsConcat
  <2> QED
    BY <1>1, <1>2, <2>2, ConcatProperties
<1>4. chunk' \in Seq(Byte)
  <2>1. i + 1 \in Nat /\ (i + 1) + 1 = i + 2 /\ n <= n
    BY <1>2
  <2>2. SubSeq(chunk, (i + 1) + 1, n) \in Seq(Byte)
    BY <1>2, <2>1, SubSeqType
  <2> QED
    BY <1>1, <2>1, <2>2
<1>5. Given(m, got', chunk', start', i') = got'
  <2> DEFINE g == got'
             s == start'
             j == i'
             c == chunk'
  <2>1. g \in Seq(Event) /\ s \in Nat /\ j \in Nat /\ s = j
    BY <1>1, <1>3
  <2> HIDE DEF g, s, j, c
  <2>2. Given(m, g, c, s, j) = g
    BY <2>1, GivenQuiet
  <2> QED
    BY <2>2 DEF g, s, j, c
<1>6. Here' = Goto(Here, m, es)
  BY <1>1, <1>2, <1>3, <1>5 DEF Here, Goto
<1>7. Rest' = SubSeq(chunk, i + 2, n) \o wire
  <2>1. SubSeq(chunk', 1, Len(chunk')) = chunk'
    BY <1>4, SubSeqFull
  <2>2. i' + 1 = 1
    BY <1>1
  <2>3. Rest' = SubSeq(chunk', 1, Len(chunk')) \o wire
    BY <1>1, <2>2 DEF Rest
  <2> QED
    BY <1>1, <2>1, <2>3
<1> QED
  BY <1>1, <1>3, <1>4, <1>6, <1>7 DEF Consumes

LEMMA SbDataIacConsumes == Reading /\ SbDataIac => Consumes
<1> SUFFICES ASSUME Reading, SbDataIac
             PROVE  Consumes
  OBVIOUS
<1>1. mode = "SB_DATA_IAC" /\ i < Len(chunk)
  BY DEF SbDataIac, Looping
<1> DEFINE es == <<Sub(sbopt, buffer)>>
<1>2. /\ Here.mode = "SB_DATA_IAC" /\ Here.verb = verb /\ Here.sbopt = sbopt
      /\ Here.buffer = buffer /\ Here.out = got /\ es \in Seq(Event) /\ Ended(Here) = es
  BY <1>1, HereFields, ReadingFacts, ThisTyped DEF Ended
<1>3. CASE SubEnd
  <2>1. Step(eol, Here, This) = Goto(Here, "DATA", es)
    BY <1>2, <1>3 DEF Step, SubEnd
  <2>2. CASE Restart("DATA")
    BY <1>1, <2>1, <2>2, RestartConsumes
  <2>3. CASE ResumeText("DATA", es) /\ UNCHANGED parser
    <3>1. verb' = verb /\ sbopt' = sbopt /\ buffer' = buffer /\ start' = i + 1
          /\ Next1("DATA", es)
      BY <2>3 DEF parser, ResumeText
    <3> HIDE DEF es
    <3>2. Goto(Here, "DATA", es) = St("DATA", verb', sbopt', buffer', got \o es)
      BY <1>2, <3>1 DEF Goto
    <3> QED
      BY <1>1, <1>2, <2>1, <3>1, <3>2, Moves
  <2> QED
    BY <1>3, <2>2, <2>3 DEF SubEnd
<1>4. CASE This = "IAC" /\ BufferByte
  <2>1. Step(eol, Here, This) = Store(Here, This)
    BY <1>2, <1>4 DEF Step
  <2> QED
    BY <1>1, <1>4, <2>1, BufferByteConsumes
<1>5. CASE SubBroken
  <2>1. This \notin {"SE", "IAC"}
    BY <1>5 DEF SubBroken
  <2>2. CASE Restart("IAC")
    <3>1. sbopt \in Restarts
      BY <2>2 DEF Restart
    <3>2. Step(eol, Here, This) = Goto(Here, "IAC", es)
      BY <1>2, <2>1, <3>1 DEF Step
    <3> QED
      BY <1>1, <2>2, <3>2, RestartConsumes
  <2>3. CASE /\ sbopt \notin Restarts /\ Interpret(es) /\ start' = i + 1
             /\ UNCHANGED <<sbopt, buffer>>
    <3>1. Step(eol, Here, This) = Word(Here, es, This)
      BY <1>2, <2>1, <2>3 DEF Step
    <3> HIDE DEF es
    <3> QED
      BY <1>1, <1>2, <2>3, <3>1, InterpretConsumes
  <2> QED
    BY <1>5, <2>2, <2>3 DEF SubBroken
<1> QED
  BY <1>3, <1>4, <1>5 DEF SbDataIac

-----------------------------------------------------------------------------
\* Bytes that mean these events to a receiver that is not in the middle of something.
Says(e, bytes, meaning) ==
    /\ bytes \in Seq(Byte) /\ meaning \in Seq(Event)
    /\ \A q \in State :
         q.mode = "DATA" =>
           \E r \in State :
              Runs(e, q, bytes, r) /\ r.mode = "DATA" /\ r.out = q.out \o meaning

\* A byte of text, escaped.
LEMMA PiecesRun ==
    ASSUME NEW e, NEW b \in Byte, b = "CR" => ~e
    PROVE  Says(e, Escape(<<b>>), <<Text(b)>>)
<1> DEFINE p == <<b>>
           es == <<Text(b)>>
<1>1. p \in Seq(Byte) /\ Len(p) = 1 /\ p[1] = b /\ Piece(b) \in Seq(Byte) /\ es \in Seq(Event)
  BY PieceType, EventFacts
<1> HIDE DEF p, es
<1>2. Escape(p) \in Seq(Byte)
  BY <1>1, EscapeType
<1>3. ASSUME NEW q \in State, q.mode = "DATA"
      PROVE  \E r \in State :
                Runs(e, q, Escape(p), r) /\ r.mode = "DATA" /\ r.out = q.out \o es
  <2> DEFINE r == Goto(q, "DATA", es)
             A == [k \in 0 .. 1 |-> IF k = 0 THEN q ELSE r]
  <2>1. r \in State
    BY <1>1, GotoTyped DEF Mode
  <2>2. r.mode = "DATA" /\ r.out = q.out \o es
    BY DEF Goto, St
  <2>3. Runs(e, q, Piece(b), r)
    BY <1>3, PieceGiven DEF es
  <2> HIDE DEF r
  <2>4. A \in [0 .. 1 -> State] /\ A[0] = q /\ A[1] = r
    BY <2>1
  <2> HIDE DEF A
  <2>5. \A k \in 0 .. Len(p) - 1 : Runs(e, A[k], Piece(p[k + 1]), A[k + 1])
    <3>1. \A k \in 0 .. Len(p) - 1 : k = 0 /\ k + 1 = 1
      BY <1>1
    <3>2. Runs(e, A[0], Piece(p[1]), A[1])
      BY <1>1, <2>3, <2>4
    <3> QED
      BY <3>1, <3>2
  <2>6. Runs(e, A[0], Escape(p), A[Len(p)])
    BY <1>1, <2>4, <2>5, EscapeRuns
  <2> QED
    BY <1>1, <2>1, <2>2, <2>4, <2>6
<1> QED
  BY <1>1, <1>2, <1>3 DEF Says, p, es

\* What the peer may send means to the receiver what it was sent for.
LEMMA TextSays ==
    ASSUME NEW e \in BOOLEAN, NEW b \in Plain \cup {"IAC", "CR", "LF", "NUL", "SE"}
    PROVE  Says(e, IF e THEN EscapeText(b) ELSE Escape(<<b>>), <<Text(b)>>)
<1>1. b \in Byte /\ "CR" \in Byte /\ "LF" \in Byte /\ "NUL" \in Byte
  BY DEF Byte
<1> DEFINE es == <<Text(b)>>
<1>2. es \in Seq(Event)
  BY <1>1, EventFacts
<1>3. ASSUME e, b = "CR" \/ b = "LF", NEW c, c = IF b = "CR" THEN "NUL" ELSE "LF"
      PROVE  Says(e, <<"CR", c>>, es)
  <2>1. c \in Byte /\ <<"CR", c>> \in Seq(Byte)
    BY <1>1, <1>3, Pair
  <2>2. ASSUME NEW q \in State, q.mode = "DATA"
        PROVE  \E r \in State :
                  Runs(e, q, <<"CR", c>>, r) /\ r.mode = "DATA" /\ r.out = q.out \o es
    <3> DEFINE s == Goto(q, "EOL", <<>>)
    <3>1. Step(e, q, "CR") = s
      BY <1>3, <2>2 DEF Step
    <3>2. /\ s.mode = "EOL" /\ s.verb = q.verb /\ s.sbopt = q.sbopt
          /\ s.buffer = q.buffer /\ s.out = q.out
      BY NoEvents DEF Goto, St
    <3> HIDE DEF s
    <3> DEFINE r == Goto(s, "DATA", es)
    <3>3. Step(e, s, c) = r
      BY <1>3, <3>2 DEF Step
    <3>4. r.mode = "DATA" /\ r.out = q.out \o es
      BY <3>2 DEF Goto, St
    <3> HIDE DEF r
    <3>5. Runs(e, q, <<"CR", c>>, r)
      BY <1>1, <2>1, <3>1, <3>3, RunsTwo
    <3>6. r \in State
      BY <2>1, <3>5, RunsTyped
    <3> QED
      BY <3>4, <3>5, <3>6
  <2> QED
    BY <1>2, <2>1, <2>2 DEF Says
<1>4. CASE e /\ b = "CR"
  <2>1. EscapeText(b) = <<"CR", "NUL">>
    BY <1>4 DEF EscapeText
  <2>2. Says(e, <<"CR", "NUL">>, es)
    BY <1>3, <1>4
  <2> QED
    BY <1>4, <2>1, <2>2
<1>5. CASE e /\ b = "LF"
  <2>1. EscapeText(b) = <<"CR", "LF">>
    BY <1>5 DEF EscapeText
  <2>2. Says(e, <<"CR", "LF">>, es)
    BY <1>3, <1>5
  <2> QED
    BY <1>5, <2>1, <2>2
<1>6. CASE ~e \/ b \notin {"CR", "LF"}
  <2>1. e => EscapeText(b) = Escape(<<b>>)
    BY <1>6 DEF EscapeText
  <2>2. Says(e, Escape(<<b>>), <<Text(b)>>)
    BY <1>1, <1>6, PiecesRun
  <2> QED
    BY <2>1, <2>2
<1> QED
  BY <1>4, <1>5, <1>6

LEMMA CommandSays ==
    ASSUME NEW e, NEW c \in Code
    PROVE  Says(e, <<"IAC", c>>, <<Command(c)>>)
<1>1. c \in Byte /\ "IAC" \in Byte
  BY DEF Byte
<1>2. <<"IAC", c>> \in Seq(Byte) /\ <<Command(c)>> \in Seq(Event)
  BY <1>1, Pair, EventFacts
<1>3. ASSUME NEW q \in State, q.mode = "DATA"
      PROVE  \E r \in State : /\ Runs(e, q, <<"IAC", c>>, r) /\ r.mode = "DATA"
                              /\ r.out = q.out \o <<Command(c)>>
  <2>1. Between(q) /\ Total(q) = q.out
    BY <1>3, TotalType DEF Between
  <2> QED
    BY <2>1, CommandRuns
<1> QED
  BY <1>2, <1>3 DEF Says

LEMMA NegotiationSays ==
    ASSUME NEW e, NEW v \in Verb, NEW o \in Option
    PROVE  Says(e, <<"IAC", v, o>>, <<Negotiation(v, o)>>)
<1>1. v \in Byte /\ o \in Byte /\ "IAC" \in Byte
  BY DEF Byte
<1>2. <<"IAC", v, o>> \in Seq(Byte) /\ <<Negotiation(v, o)>> \in Seq(Event)
  BY <1>1, Triple, EventFacts
<1>3. ASSUME NEW q \in State, q.mode = "DATA"
      PROVE  \E r \in State : /\ Runs(e, q, <<"IAC", v, o>>, r) /\ r.mode = "DATA"
                              /\ r.out = q.out \o <<Negotiation(v, o)>>
  <2>1. Between(q) /\ Total(q) = q.out
    BY <1>3, TotalType DEF Between
  <2>2. \E r \in State : /\ Runs(e, q, <<"IAC", v, o>>, r) /\ r.mode = "DATA"
                         /\ r.out = Total(q) \o <<Negotiation(v, o)>>
    BY <2>1, NegotiationRuns
  <2> QED
    BY <2>1, <2>2
<1> QED
  BY <1>2, <1>3 DEF Says

\* A subnegotiation that is followed by something that ends it.
LEMMA SubThen ==
    ASSUME NEW e, NEW o \in Option, NEW p \in Payload,
           NEW bytes \in Seq(Byte), NEW meaning \in Seq(Event),
           \A s \in State :
              Opened(o, p, s)
              => \E r \in State :
                    Runs(e, s, bytes, r) /\ r.mode = "DATA" /\ r.out = Total(s) \o meaning
    PROVE  Says(e, SubHead(o, p) \o bytes, Arrives(o, p) \o meaning)
<1>1. p \in Seq(Plain \cup {"IAC"})
  BY PayloadIsSeq
<1> DEFINE h == SubHead(o, p)
           a == Arrives(o, p)
<1>2. ASSUME NEW q \in State, q.mode = "DATA"
      PROVE  /\ h \in Seq(Byte) /\ a \in Seq(Event)
             /\ \E r \in State : /\ Runs(e, q, h \o bytes, r) /\ r.mode = "DATA"
                                 /\ r.out = q.out \o (a \o meaning)
  <2>1. Between(q) /\ Total(q) = q.out /\ q.out \in Seq(Event)
    BY <1>2, TotalType DEF Between
  <2>2. h \in Seq(Byte) /\ a \in Seq(Event)
    BY <1>1, <2>1, SubHeadRuns
  <2>3. PICK s \in State :
          /\ Runs(e, q, h, s)
          /\ Opened(o, p, s)
          /\ Total(s) = Total(q) \o a
    <3>1. \E r \in State :
            /\ Runs(e, q, SubHead(o, p), r)
            /\ Opened(o, p, r)
            /\ Total(r) = Total(q) \o Arrives(o, p)
      <4> HIDE DEF h, a
      <4> QED
        BY <1>1, <2>1, SubHeadRuns, ZenonT(30)
    <3> QED
      BY <3>1, Zenon
  <2>4. PICK r \in State :
          Runs(e, s, bytes, r) /\ r.mode = "DATA" /\ r.out = Total(s) \o meaning
    BY <2>3
  <2> HIDE DEF h, a
  <2>5. Runs(e, q, h \o bytes, r)
    BY <2>2, <2>3, <2>4, RunsConcat
  <2>6. r.out = q.out \o (a \o meaning)
    <3>1. (q.out \o a) \o meaning = q.out \o (a \o meaning)
      BY <2>1, <2>2, EventsAssociate
    <3> QED
      BY <2>1, <2>3, <2>4, <3>1
  <2> QED
    BY <2>2, <2>4, <2>5, <2>6
<1>3. \E q \in State : q.mode = "DATA"
  <2>1. PICK v \in Verb : TRUE
    BY ByteAssumption
  <2>2. "NUL" \in Byte /\ <<>> \in Seq(Byte) /\ <<>> \in Seq(Event) /\ "DATA" \in Mode
    BY DEF Byte, Mode
  <2>3. St("DATA", v, "NUL", <<>>, <<>>) \in State
    BY <2>2 DEF St, State
  <2>4. St("DATA", v, "NUL", <<>>, <<>>).mode = "DATA"
    BY DEF St
  <2> QED
    BY <2>3, <2>4
<1>4. h \in Seq(Byte) /\ a \in Seq(Event)
  BY <1>2, <1>3
<1>5. h \o bytes \in Seq(Byte) /\ a \o meaning \in Seq(Event)
  BY <1>4, ConcatProperties
<1> HIDE DEF h, a
<1>6. Says(e, h \o bytes, a \o meaning)
  BY <1>2, <1>5 DEF Says
<1> QED
  BY <1>6 DEF h, a

LEMMA BytesAssociate ==
    \A s, t, u \in Seq(Byte) : s \o (t \o u) = (s \o t) \o u
  BY ConcatAssociative

LEMMA OpenedIsBetween ==
    ASSUME NEW o \in Option, NEW p, NEW q, Opened(o, p, q)
    PROVE  /\ q.mode \in {"DATA", "SB_DATA"}
           /\ o \notin Restarts => Between(q)
  BY DEF Opened, Between

\* A subnegotiation, whole or broken off.
LEMMA SendSubSays ==
    ASSUME NEW e, NEW o \in Option, NEW p \in Payload
    PROVE  Says(e, SubHead(o, p) \o <<"IAC", "SE">>, Arrives(o, p) \o Closing(p))
<1>1. "IAC" \in Byte /\ "SE" \in Byte
  BY DEF Byte
<1>2. <<"IAC", "SE">> \in Seq(Byte) /\ Closing(p) \in Seq(Event)
  BY <1>1, Pair, EventFacts DEF Closing
<1>3. ASSUME NEW s \in State, Opened(o, p, s)
      PROVE  \E r \in State : /\ Runs(e, s, <<"IAC", "SE">>, r) /\ r.mode = "DATA"
                              /\ r.out = Total(s) \o Closing(p)
  <2>1. Closing(p) = IF s.mode = "DATA" THEN <<Command("SE")>> ELSE <<>>
    BY <1>3 DEF Opened, Closing
  <2>2. \E r \in State :
            /\ Runs(e, s, <<"IAC", "SE">>, r) /\ r.mode = "DATA"
            /\ r.out = Total(s) \o (IF s.mode = "DATA" THEN <<Command("SE")>> ELSE <<>>)
    BY <1>3, OpenedIsBetween, ClosedOff
  <2> QED
    BY <2>1, <2>2
<1> QED
  BY <1>2, <1>3, SubThen

LEMMA BreakOffSays ==
    ASSUME NEW e, NEW o \in Option \ Restarts, NEW p \in Payload
    PROVE  /\ \A c \in Code :
                Says(e, SubHead(o, p) \o <<"IAC", c>>, Arrives(o, p) \o <<Command(c)>>)
           /\ \A v \in Verb :
                Says(e, SubHead(o, p) \o <<"IAC", v, o>>,
                     Arrives(o, p) \o <<Negotiation(v, o)>>)
           /\ Says(e, SubHead(o, p) \o SubHead(o, <<>>) \o <<"IAC", "SE">>,
                   Arrives(o, p) \o Arrives(o, <<>>))
<1>1. "IAC" \in Byte /\ "SE" \in Byte /\ o \in Byte /\ o \in Option
  BY DEF Byte
<1>2. \A s \in State : Opened(o, p, s) => Between(s)
  BY OpenedIsBetween
<1>3. ASSUME NEW c \in Code
      PROVE  Says(e, SubHead(o, p) \o <<"IAC", c>>, Arrives(o, p) \o <<Command(c)>>)
  <2>1. c \in Byte
    BY DEF Byte
  <2>2. <<"IAC", c>> \in Seq(Byte) /\ <<Command(c)>> \in Seq(Event)
    BY <1>1, <2>1, Pair, EventFacts
  <2>3. \A s \in State : Opened(o, p, s)
          => \E r \in State : /\ Runs(e, s, <<"IAC", c>>, r) /\ r.mode = "DATA"
                              /\ r.out = Total(s) \o <<Command(c)>>
    BY <1>2, CommandRuns
  <2> QED
    BY <1>1, <2>2, <2>3, SubThen
<1>4. ASSUME NEW v \in Verb
      PROVE  Says(e, SubHead(o, p) \o <<"IAC", v, o>>, Arrives(o, p) \o <<Negotiation(v, o)>>)
  <2>1. v \in Byte
    BY DEF Byte
  <2>2. <<"IAC", v, o>> \in Seq(Byte) /\ <<Negotiation(v, o)>> \in Seq(Event)
    BY <1>1, <2>1, Triple, EventFacts
  <2>3. \A s \in State : Opened(o, p, s)
          => \E r \in State : /\ Runs(e, s, <<"IAC", v, o>>, r) /\ r.mode = "DATA"
                              /\ r.out = Total(s) \o <<Negotiation(v, o)>>
    BY <1>1, <1>2, NegotiationRuns
  <2> QED
    BY <1>1, <2>2, <2>3, SubThen
<1>5. Says(e, SubHead(o, p) \o SubHead(o, <<>>) \o <<"IAC", "SE">>,
           Arrives(o, p) \o Arrives(o, <<>>))
  <2> DEFINE h == SubHead(o, <<>>)
             a == Arrives(o, <<>>)
             z == <<"IAC", "SE">>
             g == SubHead(o, p)
  <2>1. <<>> \in Seq(Plain \cup {"IAC"}) /\ Len(<<>>) = 0 /\ 0 <= BufferLimit
    BY BoundAssumption
  <2>2. z \in Seq(Byte)
    BY <1>1, Pair
  <2>3. ASSUME NEW s \in State, Opened(o, p, s)
        PROVE  /\ h \in Seq(Byte) /\ a \in Seq(Event)
               /\ \E r \in State : /\ Runs(e, s, h \o z, r) /\ r.mode = "DATA"
                                   /\ r.out = Total(s) \o a
    <3>1. Between(s)
      BY <1>2, <2>3
    <3>2. h \in Seq(Byte) /\ a \in Seq(Event)
      BY <1>1, <2>1, <3>1, SubHeadRuns
    <3>3. \E t \in State :
            Runs(e, s, h, t) /\ Opened(o, <<>>, t) /\ Total(t) = Total(s) \o a
      BY <1>1, <2>1, <3>1, SubHeadRuns, ZenonT(30)
    <3>4. PICK t \in State :
            Runs(e, s, h, t) /\ Opened(o, <<>>, t) /\ Total(t) = Total(s) \o a
      BY <3>3
    <3>5. t.mode = "SB_DATA"
      BY <2>1, <3>4 DEF Opened
    <3>6. \E r \in State :
            /\ Runs(e, t, z, r) /\ r.mode = "DATA"
            /\ r.out = Total(t) \o (IF t.mode = "DATA" THEN <<Command("SE")>> ELSE <<>>)
      BY <3>5, ClosedOff
    <3>7. PICK r \in State :
            Runs(e, t, z, r) /\ r.mode = "DATA" /\ r.out = Total(t) \o <<>>
      BY <3>5, <3>6
    <3> HIDE DEF h, a, z
    <3>8. Runs(e, s, h \o z, r)
      BY <2>2, <3>2, <3>4, <3>7, RunsConcat
    <3>9. r.out = Total(s) \o a
      <4>1. Total(t) \in Seq(Event)
        BY TotalType
      <4> QED
        BY <3>4, <3>7, <4>1, ConcatEmptySeq
    <3> QED
      BY <3>2, <3>7, <3>8, <3>9
  <2>4. \E s \in State : Opened(o, p, s)
    <3>1. PICK v \in Verb : TRUE
      BY ByteAssumption
    <3> DEFINE m == IF Len(p) <= BufferLimit THEN "SB_DATA" ELSE "DATA"
    <3>2. <<>> \in Seq(Byte) /\ <<>> \in Seq(Event) /\ m \in Mode
      BY DEF Mode
    <3> HIDE DEF m
    <3>3. St(m, v, o, <<>>, <<>>) \in State
      BY <1>1, <3>2 DEF St, State
    <3>4. Opened(o, p, St(m, v, o, <<>>, <<>>))
      BY DEF Opened, St, m
    <3> QED
      BY <3>3, <3>4
  <2>5. h \in Seq(Byte) /\ a \in Seq(Event)
    BY <2>3, <2>4
  <2>6. g \in Seq(Byte)
    <3>1. p \in Seq(Plain \cup {"IAC"})
      BY PayloadIsSeq
    <3>2. \E s \in State : Between(s)
      BY <1>2, <2>4
    <3> QED
      BY <1>1, <3>1, <3>2, SubHeadRuns
  <2> HIDE DEF h, a, z, g
  <2>7. h \o z \in Seq(Byte)
    BY <2>2, <2>5, ConcatProperties
  <2>8. Says(e, g \o (h \o z), Arrives(o, p) \o a)
    BY <1>1, <2>3, <2>5, <2>7, SubThen DEF g
  <2>9. g \o (h \o z) = (g \o h) \o z
    BY <2>2, <2>5, <2>6, BytesAssociate
  <2> QED
    BY <2>8, <2>9 DEF g, h, a, z
<1> QED
  BY <1>3, <1>4, <1>5

(* Between two calls of _process nothing but wire is left to read. *)
LEMMA Idle ==
    ASSUME Reading, chunk = <<>>
    PROVE  i = 0 /\ (mode = "DATA" => start = 0) /\ Rest = wire
<1>1. /\ i \in Nat /\ start \in Nat /\ i <= Len(chunk) /\ (mode = "DATA" => start <= i)
      /\ Len(chunk) = 0 /\ wire \in Seq(Byte)
  BY DEF Reading, IInv, RunsInBounds, TypeOK
<1>2. i = 0 /\ (mode = "DATA" => start = 0)
  BY <1>1
<1>3. SubSeq(chunk, i + 1, Len(chunk)) = <<>>
  <2>1. i + 1 \in Int /\ Len(chunk) \in Int /\ Len(chunk) < i + 1
    BY <1>1, <1>2
  <2> QED
    BY <2>1, SubSeqEmpty
<1> QED
  BY <1>1, <1>2, <1>3, ConcatEmptySeq DEF Rest

\* What is put on the wire will be understood after all that is under way.
LEMMA PutKeeps ==
    ASSUME Reading, IInv', NEW bytes, NEW meaning, Says(eol, bytes, meaning), Put(bytes, meaning)
    PROVE  Reading' /\ Here' = Here /\ sent' = sent \o meaning /\ meaning \in Seq(Event)
<1>1. /\ chunk = <<>> /\ items' = items + 1 /\ items < MaxItems
      /\ wire' = wire \o bytes /\ sent' = sent \o meaning
      /\ UNCHANGED <<eol, chunk, i, start, mode, verb, sbopt, buffer, got>>
  BY DEF Put, parser
<1>2. Rest = wire /\ wire \in Seq(Byte) /\ bytes \in Seq(Byte) /\ meaning \in Seq(Event)
      /\ sent \in Seq(Event) /\ got \in Seq(Event)
  BY <1>1, Idle DEF Reading, TypeOK, Says
<1>3. Here' = Here
  BY <1>1 DEF Here
<1>4. Rest' = wire \o bytes
  <2>1. Rest' = SubSeq(chunk, i + 1, Len(chunk)) \o (wire \o bytes)
    BY <1>1 DEF Rest
  <2>2. SubSeq(chunk, i + 1, Len(chunk)) = <<>>
    <3>1. i = 0 /\ Len(chunk) = 0
      BY <1>1, Idle
    <3>2. i + 1 \in Int /\ Len(chunk) \in Int /\ Len(chunk) < i + 1
      BY <3>1
    <3> QED
      BY <3>2, SubSeqEmpty
  <2>3. wire \o bytes \in Seq(Byte)
    BY <1>2, ConcatProperties
  <2> QED
    BY <2>1, <2>2, <2>3, ConcatEmptySeq
<1>5. PICK q \in State : Runs(eol, Here, Rest, q) /\ q.mode = "DATA" /\ q.out = sent
  BY DEF Reading, Understood
<1>6. PICK r \in State : Runs(eol, q, bytes, r) /\ r.mode = "DATA" /\ r.out = q.out \o meaning
  BY <1>5 DEF Says
<1>7. Runs(eol, Here, wire \o bytes, r)
  BY <1>2, <1>5, <1>6, RunsConcat
<1>8. Understood'
  BY <1>1, <1>3, <1>4, <1>5, <1>6, <1>7 DEF Understood
<1>9. TypeOK'
  <2>1. wire \o bytes \in Seq(Byte)
    BY <1>2, ConcatProperties
  <2>2. items + 1 \in 0 .. MaxItems
    BY <1>1, BoundAssumption DEF Reading, TypeOK
  <2> QED
    BY <1>1, <2>1, <2>2 DEF Reading, TypeOK
<1>10. sent' \in Seq(Event) /\ got' \in Seq(Event)
  BY <1>1, <1>2, ConcatProperties
<1> QED
  BY <1>1, <1>2, <1>3, <1>8, <1>9, <1>10 DEF Reading

LEMMA SendingKeeps ==
    ASSUME Reading, IInv', Sending
    PROVE  Reading' /\ Here' = Here /\ \E es \in Seq(Event) : sent' = sent \o es
<1>1. eol \in BOOLEAN
  BY DEF Reading, TypeOK
<1>2. \E bytes, meaning : Says(eol, bytes, meaning) /\ Put(bytes, meaning)
  <2>1. ASSUME NEW b \in Plain \cup {"IAC", "CR", "LF", "NUL", "SE"}, SendText(b)
        PROVE  \E bytes, meaning : Says(eol, bytes, meaning) /\ Put(bytes, meaning)
    BY <1>1, <2>1, TextSays DEF SendText
  <2>2. ASSUME NEW c \in Code, SendCommand(c)
        PROVE  \E bytes, meaning : Says(eol, bytes, meaning) /\ Put(bytes, meaning)
    BY <2>2, CommandSays DEF SendCommand
  <2>3. ASSUME NEW v \in Verb, NEW o \in Option, SendNegotiation(v, o)
        PROVE  \E bytes, meaning : Says(eol, bytes, meaning) /\ Put(bytes, meaning)
    BY <2>3, NegotiationSays DEF SendNegotiation
  <2>4. ASSUME NEW o \in Option, NEW p \in Payload, SendSub(o, p)
        PROVE  \E bytes, meaning : Says(eol, bytes, meaning) /\ Put(bytes, meaning)
    BY <2>4, SendSubSays DEF SendSub
  <2>5. ASSUME NEW o \in Option, NEW p \in Payload, BreakOff(o, p)
        PROVE  \E bytes, meaning : Says(eol, bytes, meaning) /\ Put(bytes, meaning)
    BY <2>5, BreakOffSays DEF BreakOff
  <2> QED
    BY <2>1, <2>2, <2>3, <2>4, <2>5 DEF Sending
<1>3. PICK bytes, meaning : Says(eol, bytes, meaning) /\ Put(bytes, meaning)
  BY <1>2
<1> QED
  BY <1>3, PutKeeps

\* A piece is cut off the wire, or has been taken: nothing is understood yet.
LEMMA ReadKeeps ==
    ASSUME Reading, IInv', Read
    PROVE  Reading' /\ Here' = Here /\ sent' = sent
<1>1. PICK n \in 1 .. MaxWire :
        n <= Len(wire) /\ chunk' = SubSeq(wire, 1, n) /\ wire' = SubSeq(wire, n + 1, Len(wire))
  BY DEF Read
<1>2. /\ chunk = <<>>
      /\ UNCHANGED <<eol, sent, items, i, start, mode, verb, sbopt, buffer, got>>
  BY DEF Read, sender, parser
<1>3. i = 0 /\ (mode = "DATA" => start = 0) /\ Rest = wire /\ wire \in Seq(Byte)
  BY <1>2, Idle DEF Reading, TypeOK
<1>4. n \in Nat /\ Len(wire) \in Nat /\ n \in 0 .. Len(wire) /\ 1 \in 1 .. Len(wire) + 1
      /\ n \in 1 - 1 .. Len(wire) /\ Len(wire) \in n .. Len(wire)
  BY <1>1, <1>3, BoundAssumption
<1>5. chunk' \in Seq(Byte) /\ wire' \in Seq(Byte)
  <2>1. SubSeq(wire, 0 + 1, n) \in Seq(Byte) /\ 0 + 1 = 1
    BY <1>1, <1>3, <1>4, SubSeqType
  <2>2. SubSeq(wire, n + 1, Len(wire)) \in Seq(Byte)
    BY <1>3, <1>4, SubSeqType
  <2> QED
    BY <1>1, <2>1, <2>2
<1>6. Rest' = wire
  <2>1. SubSeq(chunk', 1, Len(chunk')) = chunk'
    BY <1>5, SubSeqFull
  <2>2. i' + 1 = 1
    BY <1>2, <1>3
  <2>3. Rest' = chunk' \o wire'
    BY <2>1, <2>2 DEF Rest
  <2>4. SubSeq(wire, 1, n) \o SubSeq(wire, n + 1, Len(wire)) = SubSeq(wire, 1, Len(wire))
    BY <1>3, <1>4, ConcatAdjacentSubSeq
  <2> QED
    BY <1>1, <1>3, <2>3, <2>4, SubSeqFull
<1>7. Here' = Here
  <2>1. Given(mode, got, chunk', start, i) = Given(mode, got, chunk, start, i)
    <3>1. mode # "DATA" \/ start = i
      BY <1>3
    <3>2. i \in Nat /\ start \in Nat /\ got \in Seq(Event)
      BY ReadingFacts
    <3> QED
      BY <3>1, <3>2, GivenQuiet
  <2> QED
    BY <1>2, <2>1 DEF Here
<1>8. Understood'
  BY <1>2, <1>3, <1>6, <1>7 DEF Understood, Reading
<1>9. TypeOK'
  BY <1>2, <1>5 DEF Reading, TypeOK
<1> QED
  BY <1>2, <1>7, <1>8, <1>9 DEF Reading

LEMMA FinishKeeps ==
    ASSUME Reading, IInv', Finish
    PROVE  Reading' /\ Here' = Here /\ sent' = sent
<1>1. /\ i = Len(chunk) /\ got' = got \o Texts(Run)
      /\ chunk' = <<>> /\ i' = 0 /\ start' = 0
      /\ UNCHANGED <<eol, sent, items, wire, mode, verb, sbopt, buffer>>
  BY DEF Finish, sender, parser
<1>2. i \in Nat /\ start \in Nat /\ got \in Seq(Event) /\ chunk \in Seq(Byte) /\ wire \in Seq(Byte)
  BY ReadingFacts DEF Reading, TypeOK
<1> DEFINE g == Given(mode, got, chunk, start, i)
<1>3. g \in Seq(Event) /\ got' = g
  <2>1. i <= Len(chunk)
    BY <1>1, <1>2
  <2> QED
    BY <1>1, <1>2, <2>1, GivenType, GivenIsReceived
<1> HIDE DEF g
<1>4. Given(mode, g, <<>>, 0, 0) = g
  BY <1>3, GivenQuiet
<1>5. Here' = Here
  BY <1>1, <1>3, <1>4 DEF Here, g
<1>6. Rest = wire
  <2>1. i + 1 \in Int /\ Len(chunk) \in Int /\ Len(chunk) < i + 1
    BY <1>1, <1>2
  <2>2. SubSeq(chunk, i + 1, Len(chunk)) = <<>>
    BY <2>1, SubSeqEmpty
  <2> QED
    BY <1>2, <2>2, ConcatEmptySeq DEF Rest
<1>7. Rest' = wire
  <2>1. i' + 1 \in Int /\ Len(chunk') \in Int /\ Len(chunk') < i' + 1
    BY <1>1
  <2>2. SubSeq(chunk', i' + 1, Len(chunk')) = <<>>
    BY <2>1, SubSeqEmpty
  <2> QED
    BY <1>1, <1>2, <2>2, ConcatEmptySeq DEF Rest
<1>8. Understood'
  BY <1>1, <1>5, <1>6, <1>7 DEF Understood, Reading
<1>9. TypeOK'
  BY <1>1 DEF Reading, TypeOK, Byte
<1> QED
  BY <1>1, <1>3, <1>5, <1>8, <1>9 DEF Reading

\* An iteration takes one byte; what the program has been given only grows.
LEMMA LoopKeeps ==
    ASSUME Reading, IInv', Loop
    PROVE  Reading' /\ Extends(Here'.out, Here.out) /\ sent' = sent
<1>1. Consumes /\ i < Len(chunk)
  <2>1. Consumes
    BY DataConsumes, EolConsumes, IacConsumes, NegConsumes, SbConsumes, SbDataConsumes,
       SbDataIacConsumes DEF Loop
  <2>2. i < Len(chunk)
    BY DEF Loop, Data, Eol, Iac, Neg, Sb, SbData, SbDataIac, Looping
  <2> QED
    BY <2>1, <2>2
<1>2. sent' = sent
  BY <1>1 DEF Consumes
<1> QED
  BY <1>1, <1>2, ConsumesKeeps

-----------------------------------------------------------------------------
LEMMA InitReads == Init => Reading
<1> SUFFICES ASSUME Init PROVE Reading
  OBVIOUS
<1>1. IInv
  BY InitSafe
<1>2. TypeOK
  BY BoundAssumption DEF Init, TypeOK, Mode, Byte
<1>3. got = <<>> /\ sent = <<>> /\ <<>> \in Seq(Event) /\ i = 0 /\ start = 0 /\ mode = "DATA"
        /\ wire = <<>> /\ chunk = <<>>
  BY DEF Init
<1>4. Here \in State /\ Here.mode = "DATA" /\ Here.out = <<>>
  <2>1. Here \in State
    BY <1>1, <1>2, <1>3, HereTyped
  <2>2. got \in Seq(Event) /\ i \in Nat /\ start \in Nat /\ start = i
    BY <1>3
  <2>3. Given(mode, got, chunk, start, i) = got
    BY <2>2, GivenQuiet
  <2> QED
    BY <1>3, <2>1, <2>3, HereFields
<1>5. Rest = <<>>
  <2>1. i + 1 \in Int /\ Len(chunk) \in Int /\ Len(chunk) < i + 1
    BY <1>3
  <2>2. SubSeq(chunk, i + 1, Len(chunk)) = <<>>
    BY <2>1, SubSeqEmpty
  <2> QED
    BY <1>2, <1>3, <2>2, ConcatEmptySeq DEF Rest, TypeOK
<1>6. Runs(eol, Here, Rest, Here)
  BY <1>4, <1>5, RunsNothing
<1>7. Understood
  BY <1>3, <1>4, <1>6 DEF Understood
<1> QED
  BY <1>1, <1>2, <1>3, <1>7 DEF Reading

LEMMA NextReads == Reading /\ [Next]_vars => Reading'
<1> SUFFICES ASSUME Reading, [Next]_vars PROVE Reading'
  OBVIOUS
<1>1. IInv'
  BY NextSafe DEF Reading
<1>2. CASE UNCHANGED vars
  BY <1>1, <1>2 DEF vars, sender, parser, Reading, TypeOK, Understood, Here, Rest
<1> QED
  BY <1>1, <1>2, SendingKeeps, ReadKeeps, LoopKeeps, FinishKeeps DEF Next

(* However the bytes are cut into pieces, what _process has not taken yet    *)
(* would be understood as the rest of what was sent.                        *)
THEOREM ReadingInvariant == Spec => []Reading
<1> QED
  BY InitReads, NextReads, PTL DEF Spec

(* Every variable keeps its type: the option of a subnegotiation and the    *)
(* verb of a negotiation are bytes of the stream, and both indices numbers.  *)
THEOREM TypeCorrect == Spec => []TypeOK
<1>1. Reading => TypeOK
  BY DEF Reading
<1> QED
  BY ReadingInvariant, <1>1, PTL

\* The refinement: got, with the text run at hand, is the pipe's received.
LEMMA ExtensionIsPrefix ==
    ASSUME NEW s \in Seq(Event), NEW es \in Seq(Event)
    PROVE  /\ s \o es \in Seq(Event) /\ Len(s) \in Nat /\ Len(s \o es) \in Nat
           /\ Len(s) <= Len(s \o es)
           /\ SubSeq(s \o es, 1, Len(s)) = s
           /\ s \o es # s => Len(s) + 1 <= Len(s \o es)
<1>1. /\ s \o es \in Seq(Event) /\ Len(s \o es) = Len(s) + Len(es)
      /\ \A k \in 1 .. Len(s) + Len(es) :
            (s \o es)[k] = IF k <= Len(s) THEN s[k] ELSE es[k - Len(s)]
  BY ConcatProperties
<1>2. Len(s) \in Nat /\ Len(es) \in Nat
  OBVIOUS
<1> DEFINE u == s \o es
<1> HIDE DEF u
<1>3. SubSeq(u, 1, Len(s)) = s
  <2>1. Len(s) <= Len(u) /\ u \in Seq(Event)
    BY <1>1, <1>2 DEF u
  <2>2. /\ SubSeq(u, 1, Len(s)) \in Seq(Event) /\ Len(SubSeq(u, 1, Len(s))) = Len(s)
        /\ \A k \in 1 .. Len(s) : SubSeq(u, 1, Len(s))[k] = u[k]
    BY <1>2, <2>1
  <2>3. \A k \in 1 .. Len(s) : u[k] = s[k]
    BY <1>1, <1>2 DEF u
  <2> QED
    BY <2>2, <2>3, SeqEqual
<1>4. u # s => Len(es) # 0
  <2>1. Len(es) = 0 => es = <<>>
    BY EmptySeq
  <2>2. es = <<>> => u = s
    BY ConcatEmptySeq DEF u
  <2> QED
    BY <2>1, <2>2
<1>5. u \in Seq(Event) /\ Len(u) = Len(s) + Len(es)
  BY <1>1 DEF u
<1>6. Len(u) \in Nat /\ Len(s) <= Len(u) /\ (u # s => Len(s) + 1 <= Len(u))
  BY <1>2, <1>4, <1>5
<1> QED
  BY <1>2, <1>3, <1>5, <1>6 DEF u

LEMMA ReceivedIsHere ==
    /\ got \o Texts(Run) = Here.out
    /\ (got \o Texts(Run))' = Here'.out
<1>1. got \o Texts(Run) = Here.out
  BY GivenIsReceived, HereFields
<1>2. (got \o Texts(Run))' = Here'.out
  BY DEF Here, St, Given, Run
<1> QED
  BY <1>1, <1>2

(* What was sent begins with what was received. *)
LEMMA SentExtendsHere == Reading => Here.out \in Seq(Event) /\ Extends(sent, Here.out)
<1> SUFFICES ASSUME Reading PROVE Here.out \in Seq(Event) /\ Extends(sent, Here.out)
  OBVIOUS
<1>1. Here \in State /\ Rest \in Seq(Byte)
  BY HereTyped DEF Reading
<1>2. PICK r \in State : Runs(eol, Here, Rest, r) /\ r.mode = "DATA" /\ r.out = sent
  BY DEF Reading, Understood
<1>3. Extends(r.out, Here.out)
  BY <1>1, <1>2, RunsExtend
<1>4. Here.out \in Seq(Event)
  <2> HIDE DEF Here
  <2> QED
    BY <1>1 DEF State
<1> QED
  BY <1>2, <1>3, <1>4

\* More was received: a longer prefix of what was sent.
LEMMA AheadIsReceived ==
    ASSUME Reading', Reading, sent' = sent,
           Extends(Here'.out, Here.out), Here'.out # Here.out
    PROVE  \E n \in Len(Here.out) + 1 .. Len(sent) : Here'.out = SubSeq(sent, 1, n)
<1>1. /\ Here.out \in Seq(Event) /\ Here'.out \in Seq(Event) /\ sent \in Seq(Event)
      /\ Extends(sent, Here'.out)
  <2>1. Here.out \in Seq(Event)
    BY SentExtendsHere
  <2>2. (Here.out \in Seq(Event) /\ Extends(sent, Here.out))'
    BY SentExtendsHere, PTL
  <2> QED
    BY <2>1, <2>2 DEF Reading
<1> DEFINE s == Here.out
           t == Here'.out
<1>2. PICK es \in Seq(Event) : t = s \o es
  BY DEF Extends
<1>3. PICK fs \in Seq(Event) : sent = t \o fs
  BY <1>1 DEF Extends
<1> HIDE DEF s, t
<1>4. Len(s) \in Nat /\ Len(t) \in Nat /\ Len(s) + 1 <= Len(t)
  BY <1>1, <1>2, ExtensionIsPrefix DEF s, t
<1>5. t \in Seq(Event) /\ Len(sent) \in Nat /\ Len(t) <= Len(sent) /\ SubSeq(sent, 1, Len(t)) = t
  BY <1>1, <1>3, ExtensionIsPrefix DEF t
<1>6. Len(t) \in Len(s) + 1 .. Len(sent)
  BY <1>4, <1>5
<1> QED
  BY <1>5, <1>6 DEF s, t

LEMMA InitRefines == Init => Pipe!Init
<1> SUFFICES ASSUME Init PROVE Pipe!Init
  OBVIOUS
<1>1. got \in Seq(Event) /\ i \in Nat /\ start \in Nat /\ start = i
  BY DEF Init
<1>2. Given(mode, got, chunk, start, i) = got
  BY <1>1, GivenQuiet
<1> QED
  BY <1>1, <1>2, GivenIsReceived DEF Init, Pipe!Init

LEMMA NextRefines ==
    ASSUME Reading, [Next]_vars
    PROVE  [Pipe!Send \/ Pipe!Receive]_<<sent, got \o Texts(Run)>>
<1>1. Reading' /\ IInv' /\ sent \in Seq(Event)
  BY NextReads DEF Reading
<1> DEFINE received == got \o Texts(Run)
<1>2. received = Here.out /\ received' = Here'.out
  BY ReceivedIsHere
<1>3. CASE Sending
  <2>1. PICK es \in Seq(Event) : sent' = sent \o es
    BY <1>1, <1>3, SendingKeeps
  <2>2. received' = received
    BY <1>1, <1>2, <1>3, SendingKeeps
  <2>3. sent' # sent => Pipe!Send
    BY <1>1, <2>1, <2>2, ExtensionIsPrefix
       DEF Pipe!Send, Pipe!IsStrictPrefix, Pipe!IsPrefix
  <2> QED
    BY <2>2, <2>3
<1>4. CASE Loop
  <2>1. Extends(Here'.out, Here.out) /\ sent' = sent
    BY <1>1, <1>4, LoopKeeps
  <2>2. received' # received => Pipe!Receive
    BY <1>1, <1>2, <2>1, AheadIsReceived DEF Pipe!Receive
  <2> QED
    BY <2>1, <2>2
<1>5. CASE Read \/ Finish
  BY <1>1, <1>2, <1>5, ReadKeeps, FinishKeeps
<1>6. CASE UNCHANGED vars
  BY <1>6 DEF vars, sender, parser, Run
<1> QED
  BY <1>3, <1>4, <1>5, <1>6 DEF Next

(* The loop implements the abstract connection: the program is given what    *)
(* was sent, in the order sent, each event once and none made up, for every *)
(* way of cutting the bytes into pieces.                                    *)
THEOREM InOrderHolds == Spec => InOrder
<1>1. Init => Pipe!Init
  BY InitRefines
<1>2. Reading /\ [Next]_vars => [Pipe!Send \/ Pipe!Receive]_<<sent, got \o Texts(Run)>>
  BY NextRefines
<1> QED
  BY <1>1, <1>2, ReadingInvariant, PTL DEF Spec, InOrder, Pipe!Spec

=============================================================================
