-------------------------- MODULE GameStream_proofs --------------------------
(***************************************************************************)
(* What passes through locid keeps its order and its meaning: the arguments *)
(* for Intact and for CharsetAgree of module GameLink.                     *)
(*                                                                         *)
(* Text passes whole and in order, in both directions, however compression *)
(* is switched on and off.                                                 *)
(*                                                                         *)
(* Each end's MCCPX goes round: off, agreed to, in use, off again.  The    *)
(* number of such steps it has taken is a place, and every place there is  *)
(* shows in the libtelnet of one of the ends.  A word on its way takes a   *)
(* place to the next one (Moves), and all that is under way takes what the *)
(* receiver has seen to what the sender has announced (Path).  The same is *)
(* said of the decoder, which each word must find able to read it, and of  *)
(* the lines of text, of which each must be the next, or at least a later  *)
(* one after a websocket was lost.  A handler takes the first word off one *)
(* path and appends its answers to the other.                              *)
(*                                                                         *)
(* Of charsets, the last word counts: the last that is on its way to the   *)
(* game, or to the browser, names what the session uses, or there is none  *)
(* on its way and the charset is in use already (Agreed).  This needs that *)
(* the game can read whatever locid says (Readable): locid never ends a    *)
(* stream of its own, and the game has no reason to ask it to.             *)
(***************************************************************************)
EXTENDS GameLink_proofs, WellFoundedInduction

-----------------------------------------------------------------------------
(* Places, and what words make of them *)

(* A side of MCCPX is off, then agreed to, then in use, then off again: the *)
(* number of such steps up to some moment is its place.                    *)
IsOff(x)    == \E k \in Nat : x = 3 * k
IsOpened(x) == \E k \in Nat : x = 3 * k + 1
IsOn(x)     == \E k \in Nat : x = 3 * k + 2

\* What an item makes of the place that its sender has announced for his side,
Announces(x, i, y) ==
    \/ i.say = "WILL" /\ IsOff(x) /\ y = x + 2
    \/ i.say = "WONT" /\ IsOn(x) /\ y = x + 1
    \/ i.say \notin {"WILL", "WONT"} /\ y = x

\* ... of the place in which he has seen the other's side,
Answers(x, i, y) ==
    \/ i.say = "DO" /\ IsOff(x) /\ y = x + 1
    \/ i.say = "ACCEPT" /\ IsOpened(x) /\ y = x + 1
    \/ i.say = "DONT" /\ IsOn(x) /\ y = x + 1
    \/ i.say \notin {"DO", "ACCEPT", "DONT"} /\ y = x

\* ... of a decoder, which must be able to read it,
Decodes(x, i, y) ==
    /\ i.enc = x
    /\ y = IF i.say = "WONT" THEN 0 ELSE IF i.say = "BEGIN" /\ x = 0 THEN i.arg ELSE x

\* ... and of the number of lines read.
Counts(x, i, y) ==
    \/ i.say = "TEXT" /\ i.arg = x + 1 /\ y = x + 1
    \/ i.say # "TEXT" /\ y = x

\* The same of lines typed, on their way to locid.
Types(x, m, y) ==
    \/ m.cmd = "TERM" /\ m.arg = x + 1 /\ y = x + 1
    \/ m.cmd # "TERM" /\ y = x

\* Where lines may be missing, each is at least a later one.
Skips(x, i, y) ==
    \/ i.say = "TEXT" /\ x < i.arg /\ y = i.arg
    \/ i.say # "TEXT" /\ y = x
Leaps(x, m, y) ==
    \/ m.cmd = "TERM" /\ x < m.arg /\ y = m.arg
    \/ m.cmd # "TERM" /\ y = x

Moves(kind, x, i, y) ==
    CASE kind = "announced" -> Announces(x, i, y)
      [] kind = "answered"  -> Answers(x, i, y)
      [] kind = "decoded"   -> Decodes(x, i, y)
      [] kind = "read"      -> Counts(x, i, y)
      [] kind = "typed"     -> Types(x, i, y)
      [] kind = "skipped"   -> Skips(x, i, y)
      [] OTHER              -> Leaps(x, i, y)

LEMMA MovesFacts ==
    \A x, i, y : /\ Moves("announced", x, i, y) <=> Announces(x, i, y)
                 /\ Moves("answered", x, i, y) <=> Answers(x, i, y)
                 /\ Moves("decoded", x, i, y) <=> Decodes(x, i, y)
                 /\ Moves("read", x, i, y) <=> Counts(x, i, y)
                 /\ Moves("typed", x, i, y) <=> Types(x, i, y)
                 /\ Moves("skipped", x, i, y) <=> Skips(x, i, y)
                 /\ Moves("leapt", x, i, y) <=> Leaps(x, i, y)
  BY DEF Moves

LEMMA Places ==
    ASSUME NEW x \in Nat
    PROVE  /\ IsOff(x) => IsOpened(x + 1) /\ IsOn(x + 2)
           /\ IsOpened(x) => IsOn(x + 1) /\ IsOff(x + 2)
           /\ IsOn(x) => IsOff(x + 1)
           /\ ~ (IsOff(x) /\ IsOpened(x)) /\ ~ (IsOff(x) /\ IsOn(x))
           /\ ~ (IsOpened(x) /\ IsOn(x))
<1>1. \A k \in Nat : k + 1 \in Nat /\ 3 * (k + 1) = 3 * k + 3
  OBVIOUS
<1>2. IsOff(x) => IsOpened(x + 1) /\ IsOn(x + 2)
  BY DEF IsOff, IsOpened, IsOn
<1>3. IsOpened(x) => IsOn(x + 1) /\ IsOff(x + 2)
  BY <1>1 DEF IsOff, IsOpened, IsOn
<1>4. IsOn(x) => IsOff(x + 1)
  BY <1>1 DEF IsOff, IsOn
<1>5. \A j, k \in Nat : 3 * j # 3 * k + 1 /\ 3 * j # 3 * k + 2 /\ 3 * j + 1 # 3 * k + 2
  OBVIOUS
<1>6. ~ (IsOff(x) /\ IsOpened(x)) /\ ~ (IsOff(x) /\ IsOn(x)) /\ ~ (IsOpened(x) /\ IsOn(x))
  BY <1>5 DEF IsOff, IsOpened, IsOn
<1> QED
  BY <1>2, <1>3, <1>4, <1>6

(* What the words of a wire make of a number, one by one. *)
Path(kind, x, w, y) ==
    \E D \in [0 .. Len(w) -> Nat] :
        /\ D[0] = x /\ D[Len(w)] = y
        /\ \A k \in 1 .. Len(w) : Moves(kind, D[k - 1], w[k], D[k])

LEMMA PathNothing ==
    ASSUME NEW kind, NEW x \in Nat
    PROVE  Path(kind, x, <<>>, x)
<1> DEFINE D == [k \in 0 .. 0 |-> x]
<1>1. Len(<<>>) = 0 /\ 1 .. 0 = {} /\ D \in [0 .. 0 -> Nat] /\ D[0] = x
  OBVIOUS
<1> HIDE DEF D
<1> QED
  BY <1>1 DEF Path

LEMMA PathEnds ==
    ASSUME NEW kind, NEW x, NEW y, NEW S, NEW w \in Seq(S), Path(kind, x, w, y)
    PROVE  x \in Nat /\ y \in Nat
<1>1. PICK D \in [0 .. Len(w) -> Nat] : D[0] = x /\ D[Len(w)] = y
  BY DEF Path
<1>2. Len(w) \in Nat /\ 0 \in 0 .. Len(w) /\ Len(w) \in 0 .. Len(w)
  OBVIOUS
<1> QED
  BY <1>1, <1>2

LEMMA PathAppend ==
    ASSUME NEW kind, NEW S, NEW w \in Seq(S), NEW i \in S,
           NEW x, NEW y, NEW z \in Nat, Path(kind, x, w, y), Moves(kind, y, i, z)
    PROVE  Path(kind, x, Append(w, i), z)
<1> DEFINE n == Len(w)
           v == Append(w, i)
<1>1. PICK D \in [0 .. n -> Nat] :
        /\ D[0] = x /\ D[n] = y
        /\ \A k \in 1 .. n : Moves(kind, D[k - 1], w[k], D[k])
  BY DEF Path
<1>2. /\ n \in Nat /\ Len(v) = n + 1 /\ v[n + 1] = i
      /\ \A k \in 1 .. n : v[k] = w[k]
  BY AppendProperties
<1> HIDE DEF n, v
<1> DEFINE C == [k \in 0 .. n + 1 |-> IF k = n + 1 THEN z ELSE D[k]]
<1>3. C \in [0 .. n + 1 -> Nat]
  BY <1>2
<1>4. C[0] = x /\ C[n + 1] = z /\ C[n] = y
  BY <1>1, <1>2
<1>5. \A k \in 0 .. n : C[k] = D[k]
  BY <1>2
<1> HIDE DEF C
<1>6. ASSUME NEW k \in 1 .. n + 1
      PROVE  Moves(kind, C[k - 1], v[k], C[k])
  <2>1. CASE k = n + 1
    <3>1. k - 1 = n
      BY <1>2, <2>1
    <3> QED
      BY <1>2, <1>4, <2>1, <3>1
  <2>2. CASE k # n + 1
    <3>1. k \in 1 .. n /\ k - 1 \in 0 .. n /\ k \in 0 .. n
      BY <1>2, <2>2
    <3> QED
      BY <1>1, <1>2, <1>5, <3>1
  <2> QED
    BY <2>1, <2>2
<1> QED
  BY <1>2, <1>3, <1>4, <1>6 DEF Path, v

LEMMA PathConcat ==
    ASSUME NEW kind, NEW S, NEW v \in Seq(S), NEW w \in Seq(S),
           NEW x, NEW y, NEW z, Path(kind, x, v, y), Path(kind, y, w, z)
    PROVE  Path(kind, x, v \o w, z)
<1> DEFINE m == Len(v)
           n == Len(w)
           u == v \o w
<1>1. PICK D \in [0 .. m -> Nat] :
        /\ D[0] = x /\ D[m] = y
        /\ \A k \in 1 .. m : Moves(kind, D[k - 1], v[k], D[k])
  BY DEF Path
<1>2. PICK C \in [0 .. n -> Nat] :
        /\ C[0] = y /\ C[n] = z
        /\ \A k \in 1 .. n : Moves(kind, C[k - 1], w[k], C[k])
  BY DEF Path
<1>3. /\ m \in Nat /\ n \in Nat /\ Len(u) = m + n
      /\ \A k \in 1 .. m + n : u[k] = IF k <= m THEN v[k] ELSE w[k - m]
  BY ConcatProperties
<1> HIDE DEF m, n, u
<1> DEFINE B == [k \in 0 .. m + n |-> IF k <= m THEN D[k] ELSE C[k - m]]
<1>4. B \in [0 .. m + n -> Nat]
  BY <1>3
<1>5. \A k \in 0 .. m : B[k] = D[k]
  BY <1>3
<1>6. ASSUME NEW k \in 0 .. n
      PROVE  B[m + k] = C[k]
  <2>1. CASE k = 0
    BY <1>1, <1>2, <1>3, <2>1
  <2>2. CASE k # 0
    <3>1. m + k \in 0 .. m + n /\ ~ (m + k <= m) /\ (m + k) - m = k
      BY <1>3, <2>2
    <3> QED
      BY <3>1
  <2> QED
    BY <2>1, <2>2
<1> HIDE DEF B
<1>7. B[0] = x /\ B[m + n] = z
  <2>1. 0 \in 0 .. m /\ n \in 0 .. n
    BY <1>3
  <2> QED
    BY <1>1, <1>2, <1>5, <1>6, <2>1
<1>8. ASSUME NEW k \in 1 .. m + n
      PROVE  Moves(kind, B[k - 1], u[k], B[k])
  <2>1. CASE k <= m
    <3>1. k \in 1 .. m /\ k - 1 \in 0 .. m /\ k \in 0 .. m
      BY <1>3, <2>1
    <3> QED
      BY <1>1, <1>3, <1>5, <2>1, <3>1
  <2>2. CASE ~ (k <= m)
    <3> DEFINE j == k - m
    <3>1. j \in 1 .. n /\ j - 1 \in 0 .. n /\ j \in 0 .. n /\ m + j = k /\ m + (j - 1) = k - 1
      BY <1>3, <2>2
    <3>2. u[k] = w[j]
      BY <1>3, <2>2
    <3> HIDE DEF j
    <3>3. B[k] = C[j] /\ B[k - 1] = C[j - 1]
      BY <1>6, <3>1
    <3>4. Moves(kind, C[j - 1], w[j], C[j])
      BY <1>2, <3>1
    <3> QED
      BY <3>2, <3>3, <3>4
  <2> QED
    BY <2>1, <2>2
<1> QED
  BY <1>3, <1>4, <1>7, <1>8 DEF Path, u

\* The first word, and then the rest.
LEMMA PathFirst ==
    ASSUME NEW kind, NEW S, NEW w \in Seq(S), w # <<>>, NEW x, NEW z,
           Path(kind, x, w, z)
    PROVE  \E y \in Nat : Moves(kind, x, Head(w), y) /\ Path(kind, y, Tail(w), z)
<1> DEFINE n == Len(w)
           v == Tail(w)
<1>1. PICK D \in [0 .. n -> Nat] :
        /\ D[0] = x /\ D[n] = z
        /\ \A k \in 1 .. n : Moves(kind, D[k - 1], w[k], D[k])
  BY DEF Path
<1>2. /\ n \in Nat /\ n >= 1 /\ Len(v) = n - 1 /\ Head(w) = w[1]
      /\ \A k \in 1 .. n - 1 : v[k] = w[k + 1]
  <2>1. n \in Nat /\ n # 0
    BY EmptySeq
  <2> QED
    BY <2>1, HeadTailProperties
<1> HIDE DEF n, v
<1> DEFINE C == [k \in 0 .. n - 1 |-> D[k + 1]]
<1>3. C \in [0 .. n - 1 -> Nat] /\ C[0] = D[1] /\ C[n - 1] = z
  BY <1>1, <1>2
<1>4. \A k \in 0 .. n - 1 : C[k] = D[k + 1]
  OBVIOUS
<1> HIDE DEF C
<1>5. ASSUME NEW k \in 1 .. n - 1
      PROVE  Moves(kind, C[k - 1], v[k], C[k])
  <2>1. /\ k + 1 \in 1 .. n /\ (k + 1) - 1 = k /\ k - 1 \in 0 .. n - 1 /\ k \in 0 .. n - 1
        /\ (k - 1) + 1 = k
    BY <1>2
  <2> QED
    BY <1>1, <1>2, <1>4, <2>1
<1>6. D[1] \in Nat /\ Moves(kind, x, w[1], D[1])
  <2>1. 1 \in 1 .. n /\ 1 - 1 = 0 /\ 1 \in 0 .. n
    BY <1>2
  <2> QED
    BY <1>1, <2>1
<1>7. Path(kind, D[1], v, z)
  BY <1>2, <1>3, <1>5 DEF Path
<1> QED
  BY <1>2, <1>6, <1>7 DEF v

\* What every word keeps, all of them keep.
LEMMA PathKeeps ==
    ASSUME NEW kind, NEW S, NEW w \in Seq(S), NEW x, NEW z, Path(kind, x, w, z),
           NEW G, x \in G,
           \A y \in Nat, i \in S, v \in Nat : y \in G /\ Moves(kind, y, i, v) => v \in G
    PROVE  z \in G
<1> DEFINE n == Len(w)
<1>1. PICK D \in [0 .. n -> Nat] :
        /\ D[0] = x /\ D[n] = z
        /\ \A k \in 1 .. n : Moves(kind, D[k - 1], w[k], D[k])
  BY DEF Path
<1>2. n \in Nat /\ \A k \in 1 .. n : w[k] \in S
  BY ElementOfSeq
<1> HIDE DEF n
<1> DEFINE T == {k \in 0 .. n : D[k] \notin G}
           R == {p \in Nat \X Nat : p[1] < p[2]}
<1> SUFFICES ASSUME z \notin G PROVE FALSE
  OBVIOUS
<1>3. n \in T /\ T \in SUBSET Nat
  BY <1>1, <1>2
<1>4. IsWellFoundedOn(R, Nat)
  BY NatLessThanWellFounded DEF OpToRel
<1>5. \A k, m \in Nat : <<m, k>> \in R <=> m < k
  OBVIOUS
<1> HIDE DEF R, T
<1>6. PICK k \in T : \A m \in T : ~ (<<m, k>> \in R)
  BY <1>3, <1>4, WFMin
<1>7. k \in 0 .. n /\ D[k] \notin G /\ k # 0
  BY <1>1, <1>6 DEF T
<1>8. k \in 1 .. n /\ k - 1 \in 0 .. n /\ k - 1 < k /\ k - 1 \in Nat /\ k \in Nat
  BY <1>2, <1>7
<1>9. k - 1 \notin T
  BY <1>5, <1>6, <1>8
<1>10. D[k - 1] \in G
  BY <1>8, <1>9 DEF T
<1>11. Moves(kind, D[k - 1], w[k], D[k]) /\ D[k - 1] \in Nat /\ D[k] \in Nat /\ w[k] \in S
  BY <1>1, <1>2, <1>7, <1>8
<1> QED
  BY <1>7, <1>10, <1>11

\* The next line is a later one.
LEMMA PathSkips ==
    ASSUME NEW S, NEW w \in Seq(S), NEW x, NEW y, Path("read", x, w, y)
    PROVE  Path("skipped", x, w, y)
<1>1. PICK D \in [0 .. Len(w) -> Nat] :
        /\ D[0] = x /\ D[Len(w)] = y
        /\ \A k \in 1 .. Len(w) : Moves("read", D[k - 1], w[k], D[k])
  BY DEF Path
<1>2. ASSUME NEW k \in 1 .. Len(w)
      PROVE  Moves("skipped", D[k - 1], w[k], D[k])
  <2>1. k - 1 \in 0 .. Len(w) /\ k \in 0 .. Len(w)
    OBVIOUS
  <2>2. D[k - 1] \in Nat /\ D[k] \in Nat
    BY <2>1
  <2>3. Counts(D[k - 1], w[k], D[k])
    BY <1>1, MovesFacts
  <2>4. Skips(D[k - 1], w[k], D[k])
    BY <2>2, <2>3 DEF Counts, Skips
  <2> QED
    BY <2>4, MovesFacts
<1> QED
  BY <1>1, <1>2 DEF Path

-----------------------------------------------------------------------------
(* One end, its own side *)

(* An end whose own side is in state us has been answered up to place p, and *)
(* has announced place t.                                                   *)
Own(us, p, t) ==
    \/ us = "NO" /\ IsOff(p) /\ t = p
    \/ us \in {"WANTYES", "WANTYES_OP"} /\ IsOff(p) /\ t = p + 2
    \/ us = "YES" /\ ((IsOpened(p) /\ t = p + 1) \/ (IsOn(p) /\ t = p))
    \/ /\ us \in {"WANTNO", "WANTNO_OP"}
       /\ (IsOpened(p) /\ t = p + 2) \/ (IsOn(p) /\ t = p + 1)

\* It has seen the other's side up to place a.
Watch(him, a) == (him = "NO" /\ IsOff(a)) \/ (him = "YES" /\ IsOn(a))

\* What it is about to say takes the other end along.
Voice(s, t0, t, a0, a, d0) ==
    /\ Path("announced", t0, s.out, t)
    /\ Path("answered", a0, s.out, a)
    /\ Path("decoded", d0, s.out, s.enc)
    /\ \A n \in Nat : Path("read", n, s.out, n)

LEMMA NothingSaid ==
    ASSUME NEW s, s.out = <<>>, NEW t \in Nat, NEW a \in Nat, s.enc \in Nat
    PROVE  Voice(s, t, t, a, a, s.enc)
  BY PathNothing DEF Voice

\* One word more.
LEMMA SayVoice ==
    ASSUME NEW e, NEW s \in Speaking(e), NEW i \in Wording(e), i.say # "TEXT",
           NEW t0, NEW t, NEW a0, NEW a, NEW d0, Voice(s, t0, t, a0, a, d0),
           NEW t1 \in Nat, NEW a1 \in Nat, NEW r, r.out = Append(s.out, i), r.enc \in Nat,
           Announces(t, i, t1), Answers(a, i, a1), Decodes(s.enc, i, r.enc)
    PROVE  Voice(r, t0, t1, a0, a1, d0)
<1>1. s.out \in Seq(Wording(e))
  BY DEF Speaking
<1>2. Path("announced", t0, r.out, t1)
  BY <1>1, MovesFacts, PathAppend DEF Voice
<1>3. Path("answered", a0, r.out, a1)
  BY <1>1, MovesFacts, PathAppend DEF Voice
<1>4. Path("decoded", d0, r.out, r.enc)
  BY <1>1, MovesFacts, PathAppend DEF Voice
<1>5. ASSUME NEW n \in Nat
      PROVE  Path("read", n, r.out, n)
  <2>1. Path("read", n, s.out, n)
    BY DEF Voice
  <2>2. Moves("read", n, i, n)
    BY MovesFacts DEF Counts
  <2> QED
    BY <1>1, <2>1, <2>2, PathAppend
<1> QED
  BY <1>2, <1>3, <1>4, <1>5 DEF Voice

\* Ours and His, with the one answer that a transition may have.
LEMMA OursFields ==
    ASSUME NEW e, NEW s \in Speaking(e), NEW tr
    PROVE  /\ Ours(s, tr).us = tr.state /\ Ours(s, tr).him = s.him
           /\ Ours(s, tr).enc = s.enc /\ Ours(s, tr).dec = s.dec
           /\ Ours(s, tr).made = s.made
           /\ tr.say = <<>> => Ours(s, tr).out = s.out
           /\ tr.say = <<"yes">> => Ours(s, tr).out = Append(s.out, Item(s.enc, "WILL", 0))
           /\ tr.say = <<"no">> => Ours(s, tr).out = Append(s.out, Item(s.enc, "WONT", 0))
<1> DEFINE new == [i \in DOMAIN tr.say |-> Item(s.enc, IF tr.say[i] = "yes" THEN "WILL" ELSE "WONT", 0)]
           o == s.out \o new
<1>1. s.out \in Seq(Wording(e)) /\ s.enc \in Nat
  BY DEF Speaking
<1>2. Ours(s, tr) = [s EXCEPT !.us = tr.state, !.out = o]
  BY DEF Ours
<1>3. tr.say = <<>> => o = s.out
  <2>1. tr.say = <<>> => new = <<>>
    OBVIOUS
  <2> QED
    BY <1>1, <2>1, ConcatEmptySeq
<1>4. tr.say = <<"yes">> => o = Append(s.out, Item(s.enc, "WILL", 0))
  <2>1. tr.say = <<"yes">> => new = <<Item(s.enc, "WILL", 0)>>
    OBVIOUS
  <2>2. Item(s.enc, "WILL", 0) \in Wording(e)
    BY <1>1, ItemType DEF About
  <2> QED
    BY <1>1, <2>1, <2>2, AppendIsConcat
<1>5. tr.say = <<"no">> => o = Append(s.out, Item(s.enc, "WONT", 0))
  <2>1. tr.say = <<"no">> => new = <<Item(s.enc, "WONT", 0)>>
    OBVIOUS
  <2>2. Item(s.enc, "WONT", 0) \in Wording(e)
    BY <1>1, ItemType DEF About
  <2> QED
    BY <1>1, <2>1, <2>2, AppendIsConcat
<1> HIDE DEF o, new
<1> QED
  BY <1>2, <1>3, <1>4, <1>5 DEF Speaking

LEMMA HisFields ==
    ASSUME NEW e, NEW s \in Speaking(e), NEW tr
    PROVE  /\ His(s, tr).him = tr.state /\ His(s, tr).us = s.us
           /\ His(s, tr).enc = s.enc /\ His(s, tr).dec = s.dec
           /\ His(s, tr).made = s.made
           /\ tr.say = <<>> => His(s, tr).out = s.out
           /\ tr.say = <<"yes">> => His(s, tr).out = Append(s.out, Item(s.enc, "DO", 0))
           /\ tr.say = <<"no">> => His(s, tr).out = Append(s.out, Item(s.enc, "DONT", 0))
<1> DEFINE new == [i \in DOMAIN tr.say |-> Item(s.enc, IF tr.say[i] = "yes" THEN "DO" ELSE "DONT", 0)]
           o == s.out \o new
<1>1. s.out \in Seq(Wording(e)) /\ s.enc \in Nat
  BY DEF Speaking
<1>2. His(s, tr) = [s EXCEPT !.him = tr.state, !.out = o]
  BY DEF His
<1>3. tr.say = <<>> => o = s.out
  <2>1. tr.say = <<>> => new = <<>>
    OBVIOUS
  <2> QED
    BY <1>1, <2>1, ConcatEmptySeq
<1>4. tr.say = <<"yes">> => o = Append(s.out, Item(s.enc, "DO", 0))
  <2>1. tr.say = <<"yes">> => new = <<Item(s.enc, "DO", 0)>>
    OBVIOUS
  <2>2. Item(s.enc, "DO", 0) \in Wording(e)
    BY <1>1, ItemType DEF About
  <2> QED
    BY <1>1, <2>1, <2>2, AppendIsConcat
<1>5. tr.say = <<"no">> => o = Append(s.out, Item(s.enc, "DONT", 0))
  <2>1. tr.say = <<"no">> => new = <<Item(s.enc, "DONT", 0)>>
    OBVIOUS
  <2>2. Item(s.enc, "DONT", 0) \in Wording(e)
    BY <1>1, ItemType DEF About
  <2> QED
    BY <1>1, <2>1, <2>2, AppendIsConcat
<1> HIDE DEF o, new
<1> QED
  BY <1>2, <1>3, <1>4, <1>5 DEF Speaking

LEMMA OwnPlaces ==
    ASSUME NEW us, NEW p \in Nat, NEW t \in Nat, Own(us, p, t)
    PROVE  /\ p <= t
           /\ us \in {"NO", "WANTNO", "WANTNO_OP"} => IsOff(t)
           /\ us \in {"YES", "WANTYES", "WANTYES_OP"} => IsOn(t)
<1>1. IsOpened(p) => IsOff(p + 2) /\ IsOn(p + 1)
  BY Places
<1>2. IsOn(p) => IsOff(p + 1)
  BY Places
<1>3. IsOff(p) => IsOn(p + 2)
  BY Places
<1> QED
  BY <1>1, <1>2, <1>3 DEF Own

\* WILL and WONT.
LEMMA OursVoice ==
    ASSUME NEW e, NEW s \in Speaking(e), NEW tr,
           NEW t0, NEW t \in Nat, NEW a0, NEW a \in Nat, NEW d0, Voice(s, t0, t, a0, a, d0)
    PROVE  /\ tr.say = <<>> => Voice(Ours(s, tr), t0, t, a0, a, d0)
           /\ tr.say = <<"yes">> /\ IsOff(t) => Voice(Ours(s, tr), t0, t + 2, a0, a, d0)
           /\ tr.say = <<"no">> /\ IsOn(t)
              => \A r : r.out = Ours(s, tr).out /\ r.enc = 0 => Voice(r, t0, t + 1, a0, a, d0)
<1>1. s.enc \in Nat
  BY DEF Speaking
<1>2. ASSUME tr.say = <<>>
      PROVE  Voice(Ours(s, tr), t0, t, a0, a, d0)
  BY <1>2, OursFields DEF Voice
<1>3. ASSUME tr.say = <<"yes">>, IsOff(t)
      PROVE  Voice(Ours(s, tr), t0, t + 2, a0, a, d0)
  <2> DEFINE i == Item(s.enc, "WILL", 0)
             r == Ours(s, tr)
  <2>1. i \in Wording(e) /\ i.say = "WILL" /\ i.enc = s.enc
    BY <1>1, ItemType DEF About, Item
  <2>2. r.out = Append(s.out, i) /\ r.enc = s.enc
    BY <1>3, OursFields
  <2> HIDE DEF i, r
  <2>3. Announces(t, i, t + 2) /\ Answers(a, i, a) /\ Decodes(s.enc, i, r.enc)
    BY <1>3, <2>1, <2>2 DEF Announces, Answers, Decodes
  <2>4. t + 2 \in Nat /\ r.enc \in Nat /\ i.say # "TEXT"
    BY <1>1, <2>1, <2>2
  <2>5. Voice(r, t0, t + 2, a0, a, d0)
    BY <2>1, <2>2, <2>3, <2>4, SayVoice
  <2> QED
    BY <2>5 DEF r
<1>4. ASSUME tr.say = <<"no">>, IsOn(t), NEW r, r.out = Ours(s, tr).out, r.enc = 0
      PROVE  Voice(r, t0, t + 1, a0, a, d0)
  <2> DEFINE i == Item(s.enc, "WONT", 0)
  <2>1. i \in Wording(e) /\ i.say = "WONT" /\ i.enc = s.enc
    BY <1>1, ItemType DEF About, Item
  <2>2. r.out = Append(s.out, i)
    BY <1>4, OursFields
  <2> HIDE DEF i
  <2>3. Announces(t, i, t + 1) /\ Answers(a, i, a) /\ Decodes(s.enc, i, r.enc)
    BY <1>4, <2>1 DEF Announces, Answers, Decodes
  <2>4. t + 1 \in Nat /\ r.enc \in Nat /\ i.say # "TEXT"
    BY <1>4, <2>1
  <2> QED
    BY <2>1, <2>2, <2>3, <2>4, SayVoice
<1> QED
  BY <1>2, <1>3, <1>4

(* The program wants its side on. *)
LEMMA AskYesVoice ==
    ASSUME NEW e, NEW s \in Speaking(e), NEW p \in Nat, NEW t \in Nat, Own(s.us, p, t),
           NEW t0, NEW a0, NEW a \in Nat, NEW d0, Voice(s, t0, t, a0, a, d0)
    PROVE  \E t1 \in Nat : /\ t <= t1 /\ Own(Ours(s, AskYes(s.us)).us, p, t1)
                           /\ Voice(Ours(s, AskYes(s.us)), t0, t1, a0, a, d0)
<1> DEFINE tr == AskYes(s.us)
           r == Ours(s, tr)
<1>1. CASE s.us = "NO"
  <2>1. tr.say = <<"yes">> /\ tr.state = "WANTYES"
    BY <1>1 DEF AskYes, Transition
  <2>2. IsOff(t) /\ t = p
    BY <1>1 DEF Own
  <2>3. r.us = "WANTYES" /\ t + 2 \in Nat /\ t <= t + 2
    BY <2>1, OursFields
  <2>4. Voice(r, t0, t + 2, a0, a, d0)
    BY <2>1, <2>2, OursVoice
  <2>5. Own("WANTYES", p, t + 2)
    BY <2>2 DEF Own
  <2> QED
    BY <2>3, <2>4, <2>5
<1>2. CASE s.us # "NO"
  <2>1. /\ tr.say = <<>>
        /\ tr.state = s.us \/ (s.us = "WANTNO" /\ tr.state = "WANTNO_OP")
             \/ (s.us = "WANTYES_OP" /\ tr.state = "WANTYES")
    BY <1>2 DEF AskYes, Transition, Stay
  <2>2. Own(tr.state, p, t)
    BY <2>1 DEF Own
  <2>3. r.us = tr.state /\ t <= t
    BY OursFields
  <2>4. Voice(r, t0, t, a0, a, d0)
    BY <2>1, OursVoice
  <2> QED
    BY <2>2, <2>3, <2>4
<1> QED
  BY <1>1, <1>2

(* It wants it off, and ends its stream: with a WONT, or there is none. *)
LEMMA EndSendVoice ==
    ASSUME NEW e, NEW s \in Speaking(e), NEW p \in Nat, NEW t \in Nat, Own(s.us, p, t),
           s.enc = 0 \/ s.us = "YES",
           NEW t0, NEW a0, NEW a \in Nat, NEW d0, Voice(s, t0, t, a0, a, d0)
    PROVE  \E t1 \in Nat : /\ t <= t1 /\ Own(EndSend(s).us, p, t1)
                           /\ Voice(EndSend(s), t0, t1, a0, a, d0)
<1> DEFINE tr == AskNo(s.us)
           q == Ours(s, tr)
           r == EndSend(s)
<1>1. r.us = q.us /\ r.out = q.out /\ r.enc = 0 /\ q.us = tr.state
  <2>1. q \in Speaking(e)
    BY HearingTypes, OursType DEF Speaking
  <2>2. q.us = tr.state
    BY OursFields
  <2> HIDE DEF q
  <2>3. [q EXCEPT !.enc = 0].us = q.us /\ [q EXCEPT !.enc = 0].out = q.out
          /\ [q EXCEPT !.enc = 0].enc = 0
    BY <2>1 DEF Speaking
  <2> QED
    BY <2>2, <2>3 DEF EndSend, q
<1>2. CASE s.us = "YES"
  <2>1. tr.say = <<"no">> /\ tr.state = "WANTNO"
    BY <1>2 DEF AskNo, Transition
  <2>2. IsOn(t)
    BY <1>2, OwnPlaces
  <2>3. Voice(r, t0, t + 1, a0, a, d0)
    BY <1>1, <2>1, <2>2, OursVoice
  <2>4. Own("WANTNO", p, t + 1)
    BY <1>2 DEF Own
  <2>5. t + 1 \in Nat /\ t <= t + 1
    OBVIOUS
  <2> QED
    BY <1>1, <2>1, <2>3, <2>4, <2>5
<1>3. CASE s.us # "YES"
  <2>1. /\ tr.say = <<>>
        /\ tr.state = s.us \/ (s.us = "WANTYES" /\ tr.state = "WANTYES_OP")
             \/ (s.us = "WANTNO_OP" /\ tr.state = "WANTNO")
    BY <1>3 DEF AskNo, Transition, Stay
  <2>2. Own(tr.state, p, t)
    BY <2>1 DEF Own
  <2>3. Voice(q, t0, t, a0, a, d0) /\ q.enc = s.enc
    BY <2>1, OursVoice, OursFields
  <2>4. Voice(r, t0, t, a0, a, d0)
    BY <1>1, <1>3, <2>3 DEF Voice
  <2> QED
    BY <1>1, <2>2, <2>4
<1> QED
  BY <1>2, <1>3

-----------------------------------------------------------------------------
(* One end hears a word *)

(* An end that has been answered up to p, has announced t, and has seen the *)
(* other's side up to a.  It only compresses what has been agreed.          *)
Tuned(l, p, t, a) ==
    Own(l.us, p, t) /\ Watch(l.him, a) /\ (IsOff(p) => l.enc = 0)

\* What it is once it has heard a word, and what it says to it.
Heard(s, l, t, a0, p, a, d) ==
    /\ l.dec = d
    /\ \E u \in Nat : t <= u /\ Tuned(l, p, u, a) /\ Voice(l, t, u, a0, a, s.enc)

LEMMA WatchPlaces ==
    ASSUME NEW him, NEW a \in Nat, Watch(him, a)
    PROVE  (IsOff(a) => him = "NO") /\ (IsOn(a) => him = "YES")
  BY Places DEF Watch

\* WILL: DO, our list, and our own offer.
LEMMA HearWill ==
    ASSUME NEW e, NEW s \in Speaking(e), s.out = <<>>,
           NEW p \in Nat, NEW t \in Nat, NEW a \in Nat, Tuned(s, p, t, a),
           NEW item, item.say = "WILL", IsOff(a)
    PROVE  Heard(s, Hear(s, item), t, a, p, a + 2, s.dec)
<1> DEFINE tr == Transition("YES", <<"yes">>, "on")
           b == His(s, tr)
           c == Send(b, "ACCEPT", 0)
           l == Ours(c, AskYes(b.us))
<1>1. s.him = "NO" /\ s.enc \in Nat /\ s.us \in QState
  BY WatchPlaces DEF Tuned, Speaking
<1>2. HearYes(s.him, TRUE) = tr
  BY <1>1 DEF HearYes
<1>3. Hear(s, item) = l
  <2>1. Hear(s, item) = HisSide(s, tr)
    BY <1>2 DEF Hear
  <2>2. tr.tell = "on"
    BY DEF Transition
  <2> HIDE DEF tr
  <2> QED
    BY <2>1, <2>2 DEF HisSide
<1>4. tr \in Transitions
  BY <1>2, <1>1, HearingTypes DEF QState
<1>5. b \in Speaking(e)
  BY <1>4, HisType
<1>6. /\ b.him = "YES" /\ b.us = s.us /\ b.enc = s.enc /\ b.dec = s.dec
      /\ b.out = Append(s.out, Item(s.enc, "DO", 0))
  BY HisFields DEF Transition
<1>7. /\ c \in Speaking(e) /\ c.him = b.him /\ c.us = b.us /\ c.enc = b.enc /\ c.dec = b.dec
      /\ c.out = Append(b.out, Item(b.enc, "ACCEPT", 0))
  <2>1. Item(b.enc, "ACCEPT", 0) \in Wording(e)
    BY <1>1, <1>6, ItemType DEF About
  <2>2. c \in Speaking(e)
    BY <1>5, <2>1, SendType
  <2> HIDE DEF b
  <2> QED
    BY <1>5, <2>2 DEF Send, Speaking
<1> HIDE DEF tr
<1>8. Voice(s, t, t, a, a, s.enc)
  BY <1>1, NothingSaid
<1>9. Voice(b, t, t, a, a + 1, s.enc)
  <2> DEFINE i == Item(s.enc, "DO", 0)
  <2>1. i \in Wording(e) /\ i.say = "DO" /\ i.enc = s.enc
    BY <1>1, ItemType DEF About, Item
  <2>2. b.out = Append(s.out, i) /\ b.enc = s.enc
    BY <1>6
  <2> HIDE DEF i, b
  <2>3. Announces(t, i, t) /\ Answers(a, i, a + 1) /\ Decodes(s.enc, i, b.enc)
    BY <2>1, <2>2 DEF Announces, Answers, Decodes
  <2>4. a + 1 \in Nat /\ b.enc \in Nat /\ i.say # "TEXT"
    BY <1>1, <2>1, <2>2
  <2> QED
    BY <1>8, <2>1, <2>2, <2>3, <2>4, SayVoice
<1>10. Voice(c, t, t, a, a + 2, s.enc)
  <2> DEFINE i == Item(b.enc, "ACCEPT", 0)
  <2>1. i \in Wording(e) /\ i.say = "ACCEPT" /\ i.enc = b.enc
    BY <1>1, <1>6, ItemType DEF About, Item
  <2>2. c.out = Append(b.out, i) /\ c.enc = b.enc
    BY <1>7
  <2> HIDE DEF i, b, c
  <2>3. Announces(t, i, t) /\ Answers(a + 1, i, a + 2) /\ Decodes(b.enc, i, c.enc)
    <3>1. IsOpened(a + 1)
      BY Places
    <3>2. (a + 1) + 1 = a + 2
      OBVIOUS
    <3> QED
      BY <2>1, <2>2, <3>1, <3>2 DEF Announces, Answers, Decodes
  <2>4. a + 2 \in Nat /\ c.enc \in Nat /\ i.say # "TEXT"
    BY <1>1, <1>6, <1>7, <2>1
  <2> QED
    BY <1>5, <1>9, <2>1, <2>2, <2>3, <2>4, SayVoice
<1>11. /\ Own(c.us, p, t) /\ b.us = c.us
  BY <1>6, <1>7 DEF Tuned
<1>12. l.him = "YES" /\ l.enc = s.enc /\ l.dec = s.dec
  <2> HIDE DEF b, c
  <2> QED
    BY <1>6, <1>7, OursFields
<1> HIDE DEF b, c
<1>13. \E u \in Nat : t <= u /\ Own(l.us, p, u) /\ Voice(l, t, u, a, a + 2, s.enc)
  <2>1. a + 2 \in Nat
    OBVIOUS
  <2> QED
    BY <1>7, <1>10, <1>11, <2>1, AskYesVoice, ZenonT(30)
<1>14. Watch("YES", a + 2)
  BY Places DEF Watch
<1> HIDE DEF l
<1>15. ASSUME NEW u, Own(l.us, p, u)
       PROVE  Tuned(l, p, u, a + 2)
  BY <1>12, <1>14, <1>15 DEF Tuned
<1> QED
  BY <1>3, <1>12, <1>13, <1>15 DEF Heard

\* WONT: DONT, and our decoder is gone.
LEMMA HearWont ==
    ASSUME NEW e, NEW s \in Speaking(e), s.out = <<>>,
           NEW p \in Nat, NEW t \in Nat, NEW a \in Nat, Tuned(s, p, t, a),
           NEW item, item.say = "WONT", IsOn(a)
    PROVE  Heard(s, Hear(s, item), t, a, p, a + 1, 0)
<1> DEFINE tr == Transition("NO", <<"no">>, "off")
           b == His(s, tr)
           c == [b EXCEPT !.dec = 0]
           l == His(c, AskNo(c.him))
<1>1. s.him = "YES" /\ s.enc \in Nat /\ s.us \in QState
  BY WatchPlaces DEF Tuned, Speaking
<1>2. HearNo(s.him) = tr
  BY <1>1 DEF HearNo
<1>4. tr \in Transitions
  BY <1>2, <1>1, HearingTypes DEF QState
<1>5. b \in Speaking(e)
  BY <1>4, HisType
<1>6. /\ b.him = "NO" /\ b.us = s.us /\ b.enc = s.enc
      /\ b.out = Append(s.out, Item(s.enc, "DONT", 0))
  BY HisFields DEF Transition
<1>3. Hear(s, item) = EndRecv(b)
  BY <1>2 DEF Hear, HisSide, Transition
<1>7. /\ c \in Speaking(e) /\ c.him = "NO" /\ c.us = b.us /\ c.enc = b.enc /\ c.dec = 0
      /\ c.out = b.out
  <2> HIDE DEF b
  <2> QED
    BY <1>5, <1>6 DEF Speaking
<1>8. Hear(s, item) = l
  BY <1>3, <1>6, <1>7 DEF EndRecv
<1>9. AskNo(c.him).say = <<>> /\ AskNo(c.him).state = "NO"
  <2> HIDE DEF c
  <2> QED
    BY <1>7 DEF AskNo, Stay, Transition
<1> HIDE DEF tr
<1>10. /\ l.him = "NO" /\ l.us = s.us /\ l.enc = s.enc /\ l.dec = 0
       /\ l.out = Append(s.out, Item(s.enc, "DONT", 0))
  <2> DEFINE st == AskNo(c.him)
  <2> HIDE DEF st
  <2>1. /\ His(c, st).him = st.state /\ His(c, st).us = c.us
        /\ His(c, st).enc = c.enc /\ His(c, st).dec = c.dec
        /\ st.say = <<>> => His(c, st).out = c.out
    <3> HIDE DEF c
    <3> QED
      BY <1>7, HisFields
  <2>2. st.say = <<>> /\ st.state = "NO" /\ l = His(c, st)
    BY <1>9 DEF st
  <2> HIDE DEF b, c, l
  <2> QED
    BY <1>6, <1>7, <2>1, <2>2
<1> HIDE DEF l
<1>11. Voice(s, t, t, a, a, s.enc)
  BY <1>1, NothingSaid
<1>12. Voice(l, t, t, a, a + 1, s.enc)
  <2> DEFINE i == Item(s.enc, "DONT", 0)
  <2>1. i \in Wording(e) /\ i.say = "DONT" /\ i.enc = s.enc
    BY <1>1, ItemType DEF About, Item
  <2>2. l.out = Append(s.out, i) /\ l.enc = s.enc
    BY <1>10
  <2> HIDE DEF i
  <2>3. Announces(t, i, t) /\ Answers(a, i, a + 1) /\ Decodes(s.enc, i, l.enc)
    BY <2>1, <2>2 DEF Announces, Answers, Decodes
  <2>4. a + 1 \in Nat /\ l.enc \in Nat /\ i.say # "TEXT"
    BY <1>1, <2>1, <2>2
  <2> QED
    BY <1>11, <2>1, <2>2, <2>3, <2>4, SayVoice
<1>13. Watch("NO", a + 1)
  <2>1. IsOff(a + 1)
    BY Places
  <2>2. \A him, x : him = "NO" /\ IsOff(x) => Watch(him, x)
    BY DEF Watch
  <2> QED
    BY <2>1, <2>2
<1>14. Tuned(l, p, t, a + 1)
  BY <1>10, <1>13 DEF Tuned
<1>15. t <= t
  OBVIOUS
<1> QED
  BY <1>8, <1>10, <1>12, <1>14, <1>15 DEF Heard

\* DO: our offer is agreed to; or we have thought better of it.
LEMMA HearDo ==
    ASSUME NEW e, NEW s \in Speaking(e), s.out = <<>>,
           NEW p \in Nat, NEW t \in Nat, NEW a \in Nat, Tuned(s, p, t, a),
           NEW item, item.say = "DO", IsOff(p), p + 1 <= t
    PROVE  Heard(s, Hear(s, item), t, a, p + 1, a, s.dec)
<1> DEFINE tr == HearYes(s.us, TRUE)
           l == Ours(s, tr)
<1>1. s.enc = 0 /\ s.us \in QState /\ Watch(s.him, a) /\ Own(s.us, p, t)
  BY DEF Tuned, Speaking
<1>2. s.us \in {"WANTYES", "WANTYES_OP"} /\ t = p + 2
  <2>1. ~ IsOpened(p) /\ ~ IsOn(p) /\ t # p
    BY Places
  <2> QED
    BY <1>1, <2>1 DEF Own
<1>3. /\ tr.tell = "on"
      /\ s.us = "WANTYES" => tr.state = "YES" /\ tr.say = <<>>
      /\ s.us = "WANTYES_OP" => tr.state = "WANTNO" /\ tr.say = <<"no">>
  BY <1>2 DEF HearYes, Transition
<1> HIDE DEF tr
<1>4. Hear(s, item) = l
  <2>1. Hear(s, item) = OurSide(s, tr)
    BY DEF Hear, tr
  <2> QED
    BY <1>3, <2>1 DEF OurSide
<1>5. l.us = tr.state /\ l.him = s.him /\ l.enc = 0 /\ l.dec = s.dec
  BY <1>1, OursFields
<1>6. Voice(s, t, t, a, a, s.enc)
  BY <1>1, NothingSaid
<1>7. IsOpened(p + 1) /\ ~ IsOff(p + 1) /\ IsOn(t)
  BY <1>2, Places
<1>8. CASE s.us = "WANTYES"
  <2>1. Voice(l, t, t, a, a, s.enc)
    BY <1>3, <1>6, <1>8, OursVoice
  <2>2. Own("YES", p + 1, t)
    <3>1. t = (p + 1) + 1
      BY <1>2
    <3> QED
      BY <1>7, <3>1 DEF Own
  <2>3. Tuned(l, p + 1, t, a) /\ t <= t
    <3> HIDE DEF l
    <3> QED
      BY <1>1, <1>3, <1>5, <1>8, <2>2 DEF Tuned
  <2> HIDE DEF l
  <2> QED
    BY <1>4, <1>5, <2>1, <2>3 DEF Heard
<1>9. CASE s.us = "WANTYES_OP"
  <2>1. Voice(l, t, t + 1, a, a, s.enc)
    BY <1>3, <1>5, <1>6, <1>7, <1>9, OursVoice
  <2>2. Own("WANTNO", p + 1, t + 1)
    <3>1. t + 1 = (p + 1) + 2
      BY <1>2
    <3> QED
      BY <1>7, <3>1 DEF Own
  <2>3. Tuned(l, p + 1, t + 1, a) /\ t <= t + 1 /\ t + 1 \in Nat
    <3> HIDE DEF l
    <3> QED
      BY <1>1, <1>3, <1>5, <1>9, <2>2 DEF Tuned
  <2> HIDE DEF l
  <2> QED
    BY <1>4, <1>5, <2>1, <2>3 DEF Heard
<1> QED
  BY <1>2, <1>8, <1>9

\* DONT, to the WONT that ended our stream: there is none left to end.
LEMMA HearDont ==
    ASSUME NEW e, NEW s \in Speaking(e), s.out = <<>>,
           NEW p \in Nat, NEW t \in Nat, NEW a \in Nat, Tuned(s, p, t, a),
           NEW item, item.say = "DONT", IsOn(p), p + 1 <= t, ~Hushed(s, Hear(s, item))
    PROVE  Heard(s, Hear(s, item), t, a, p + 1, a, s.dec)
<1> DEFINE tr == HearNo(s.us)
           b == Ours(s, tr)
           st == AskNo(b.us)
           c == Ours(b, st)
           l == EndSend(b)
<1>1. s.enc \in Nat /\ s.dec \in Nat /\ s.us \in QState /\ Watch(s.him, a) /\ Own(s.us, p, t)
  BY DEF Tuned, Speaking
<1>2. s.us \in {"WANTNO", "WANTNO_OP"} /\ t = p + 1
  <2>1. ~ IsOpened(p) /\ ~ IsOff(p) /\ t # p
    BY Places
  <2> QED
    BY <1>1, <2>1 DEF Own
<1>3. /\ tr.tell = "off"
      /\ s.us = "WANTNO" => tr.state = "NO" /\ tr.say = <<>>
      /\ s.us = "WANTNO_OP" => tr.state = "WANTYES" /\ tr.say = <<"yes">>
      /\ tr \in Transitions
  <2>1. tr \in Transitions
    BY <1>1, HearingTypes
  <2> QED
    BY <1>2, <2>1 DEF HearNo, Transition
<1> HIDE DEF tr
<1>4. Hear(s, item) = l
  <2>1. Hear(s, item) = OurSide(s, tr)
    BY DEF Hear, tr
  <2> QED
    BY <1>3, <2>1 DEF OurSide
<1>5. /\ b \in Speaking(e)
      /\ b.us = tr.state /\ b.him = s.him /\ b.enc = s.enc /\ b.dec = s.dec
      /\ tr.say = <<>> => b.out = s.out
      /\ tr.say = <<"yes">> => b.out = Append(s.out, Item(s.enc, "WILL", 0))
  BY <1>3, OursType, OursFields
<1> HIDE DEF b
<1>6. st.say = <<>> /\ (s.us = "WANTNO" => st.state = "NO")
        /\ (s.us = "WANTNO_OP" => st.state = "WANTYES_OP")
  BY <1>2, <1>3, <1>5 DEF AskNo, Transition, Stay
<1>7. /\ c.us = st.state /\ c.him = b.him /\ c.dec = b.dec /\ c.out = b.out
      /\ c \in Speaking(e)
  <2>1. st \in Transitions
    BY <1>5, HearingTypes DEF Speaking
  <2> HIDE DEF st
  <2> QED
    BY <1>5, <1>6, <2>1, OursType, OursFields
<1>8. l = [c EXCEPT !.enc = 0]
  BY DEF EndSend
<1> HIDE DEF c, st, l
<1>9. /\ l.us = st.state /\ l.him = s.him /\ l.enc = 0 /\ l.dec = s.dec /\ l.out = b.out
  BY <1>5, <1>7, <1>8 DEF Speaking
<1>10. s.enc = 0
  <2>1. CASE s.us = "WANTNO"
    <3>1. l.out = <<>>
      BY <1>3, <1>5, <1>9, <2>1
    <3>2. \A i \in DOMAIN l.out : l.out[i].say # "WONT"
      BY <3>1
    <3> QED
      BY <1>4, <1>9, <3>2 DEF Hushed
  <2>2. CASE s.us = "WANTNO_OP"
    <3>1. l.out = <<Item(s.enc, "WILL", 0)>>
      BY <1>3, <1>5, <1>9, <2>2
    <3>2. \A i \in DOMAIN l.out : l.out[i].say # "WONT"
      BY <3>1 DEF Item
    <3> QED
      BY <1>4, <1>9, <3>2 DEF Hushed
  <2> QED
    BY <1>2, <2>1, <2>2
<1>11. Voice(s, t, t, a, a, s.enc)
  BY <1>1, NothingSaid
<1>12. IsOff(t) /\ IsOff(p + 1)
  BY <1>2, Places
<1>13. CASE s.us = "WANTNO"
  <2>1. Voice(l, t, t, a, a, s.enc)
    BY <1>3, <1>5, <1>9, <1>10, <1>11, <1>13 DEF Voice
  <2>2. Own("NO", p + 1, t)
    BY <1>2, <1>12 DEF Own
  <2>3. Tuned(l, p + 1, t, a) /\ t <= t
    BY <1>1, <1>6, <1>9, <1>13, <2>2 DEF Tuned
  <2> QED
    BY <1>4, <1>9, <2>1, <2>3 DEF Heard
<1>14. CASE s.us = "WANTNO_OP"
  <2>1. Voice(b, t, t + 2, a, a, s.enc)
    BY <1>3, <1>11, <1>12, <1>14, OursVoice DEF b
  <2>2. Voice(l, t, t + 2, a, a, s.enc)
    BY <1>5, <1>9, <1>10, <2>1 DEF Voice
  <2>3. Own("WANTYES_OP", p + 1, t + 2)
    <3>1. t + 2 = (p + 1) + 2
      BY <1>2
    <3> QED
      BY <1>12, <3>1 DEF Own
  <2>4. Tuned(l, p + 1, t + 2, a) /\ t <= t + 2 /\ t + 2 \in Nat
    BY <1>1, <1>6, <1>9, <1>14, <2>3 DEF Tuned
  <2> QED
    BY <1>4, <1>9, <2>2, <2>4 DEF Heard
<1> QED
  BY <1>2, <1>13, <1>14

\* ACCEPT: our stream begins.
LEMMA HearAccepts ==
    ASSUME NEW e, NEW s \in Speaking(e), s.out = <<>>,
           NEW p \in Nat, NEW t \in Nat, NEW a \in Nat, Tuned(s, p, t, a),
           NEW item, item.say = "ACCEPT", IsOpened(p), p + 1 <= t
    PROVE  Heard(s, Hear(s, item), t, a, p + 1, a, s.dec)
<1> DEFINE l == HearAccept(s)
           n == IF s.enc = 0 THEN s.made + 1 ELSE s.enc
           i == Item(s.enc, "BEGIN", n)
<1>1. /\ s.enc \in Nat /\ s.dec \in Nat /\ s.made \in Nat
      /\ Watch(s.him, a) /\ Own(s.us, p, t)
  BY DEF Tuned, Speaking
<1>2. Hear(s, item) = l
  BY DEF Hear
<1>3. /\ l.us = s.us /\ l.him = s.him /\ l.enc = n /\ l.dec = s.dec
      /\ l.out = Append(s.out, i)
  <2>1. CASE s.enc = 0
    <3> DEFINE b == Send(s, "BEGIN", s.made + 1)
    <3>1. /\ b \in Speaking(e) /\ b.us = s.us /\ b.him = s.him /\ b.dec = s.dec
          /\ b.out = Append(s.out, i)
      <4>1. Item(s.enc, "BEGIN", s.made + 1) \in Wording(e)
        BY <1>1, ItemType DEF About
      <4>2. b \in Speaking(e)
        BY <4>1, SendType
      <4> QED
        BY <2>1, <4>2 DEF Send, Speaking
    <3>2. l = [b EXCEPT !.enc = s.made + 1, !.made = @ + 1]
      BY <2>1 DEF HearAccept
    <3> HIDE DEF b, l
    <3> QED
      BY <2>1, <3>1, <3>2 DEF Speaking
  <2>2. CASE s.enc # 0
    BY <2>2 DEF HearAccept, Send, Speaking
  <2> QED
    BY <2>1, <2>2
<1>4. n \in Nat /\ (s.enc = 0 \/ n = s.enc)
  BY <1>1
<1>5. i \in Wording(e) /\ i.say = "BEGIN" /\ i.enc = s.enc /\ i.arg = n
  BY <1>1, <1>4, ItemType DEF About, Item
<1> HIDE DEF l, i
<1>6. Voice(s, t, t, a, a, s.enc)
  BY <1>1, NothingSaid
<1>7. Voice(l, t, t, a, a, s.enc)
  <2>1. Announces(t, i, t) /\ Answers(a, i, a)
    BY <1>5 DEF Announces, Answers
  <2>2. Decodes(s.enc, i, l.enc)
    BY <1>3, <1>4, <1>5 DEF Decodes
  <2>3. l.enc \in Nat /\ i.say # "TEXT"
    BY <1>3, <1>4, <1>5
  <2> HIDE DEF n
  <2> QED
    BY <1>3, <1>5, <1>6, <2>1, <2>2, <2>3, SayVoice
<1>8. IsOn(p + 1) /\ ~ IsOff(p + 1) /\ ~ IsOff(p) /\ ~ IsOn(p)
  BY Places
<1>9. Own(s.us, p + 1, t)
  <2>1. \A x \in Nat : x = p + 1 => x = p + 1
    OBVIOUS
  <2>2. (t = p + 2 => t = (p + 1) + 1)
    OBVIOUS
  <2> QED
    BY <1>1, <1>8, <2>2 DEF Own
<1>10. Tuned(l, p + 1, t, a) /\ t <= t
  BY <1>1, <1>3, <1>8, <1>9 DEF Tuned
<1> QED
  BY <1>2, <1>3, <1>7, <1>10 DEF Heard

\* BEGIN: the other's begins.
LEMMA HearBegins ==
    ASSUME NEW e, NEW s \in Speaking(e), s.out = <<>>,
           NEW p \in Nat, NEW t \in Nat, NEW a \in Nat, Tuned(s, p, t, a),
           NEW item, item.say = "BEGIN"
    PROVE  Heard(s, Hear(s, item), t, a, p, a, IF s.dec = 0 THEN item.arg ELSE s.dec)
<1> DEFINE l == HearBegin(s, item.arg)
<1>1. s.enc \in Nat
  BY DEF Speaking
<1>2. Hear(s, item) = l
  BY DEF Hear
<1>3. /\ l.us = s.us /\ l.him = s.him /\ l.enc = s.enc /\ l.out = s.out
      /\ l.dec = IF s.dec = 0 THEN item.arg ELSE s.dec
  BY DEF HearBegin, Speaking
<1> HIDE DEF l
<1>4. Voice(s, t, t, a, a, s.enc)
  BY <1>1, NothingSaid
<1>5. Voice(l, t, t, a, a, s.enc)
  BY <1>3, <1>4 DEF Voice
<1>6. Tuned(l, p, t, a) /\ t <= t
  BY <1>3 DEF Tuned
<1> QED
  BY <1>2, <1>3, <1>5, <1>6 DEF Heard

\* All of them.
LEMMA HearVoice ==
    ASSUME NEW e, NEW s \in Speaking(e), s.out = <<>>,
           NEW p \in Nat, NEW t \in Nat, NEW a \in Nat, Tuned(s, p, t, a),
           NEW item, item.say \in About,
           NEW a1, Announces(a, item, a1), NEW p1 \in Nat, Answers(p, item, p1), p1 <= t,
           NEW d1, Decodes(s.dec, item, d1), ~Hushed(s, Hear(s, item))
    PROVE  Heard(s, Hear(s, item), t, a, p1, a1, d1)
<1>1. CASE item.say = "WILL"
  <2>1. IsOff(a) /\ a1 = a + 2 /\ p1 = p /\ d1 = s.dec
    BY <1>1 DEF Announces, Answers, Decodes
  <2> QED
    BY <1>1, <2>1, HearWill
<1>2. CASE item.say = "WONT"
  <2>1. IsOn(a) /\ a1 = a + 1 /\ p1 = p /\ d1 = 0
    BY <1>2 DEF Announces, Answers, Decodes
  <2> QED
    BY <1>2, <2>1, HearWont
<1>3. CASE item.say = "DO"
  <2>1. IsOff(p) /\ a1 = a /\ p1 = p + 1 /\ d1 = s.dec
    BY <1>3 DEF Announces, Answers, Decodes
  <2> QED
    BY <1>3, <2>1, HearDo
<1>4. CASE item.say = "DONT"
  <2>1. IsOn(p) /\ a1 = a /\ p1 = p + 1 /\ d1 = s.dec
    BY <1>4 DEF Announces, Answers, Decodes
  <2> QED
    BY <1>4, <2>1, HearDont
<1>5. CASE item.say = "ACCEPT"
  <2>1. IsOpened(p) /\ a1 = a /\ p1 = p + 1 /\ d1 = s.dec
    BY <1>5 DEF Announces, Answers, Decodes
  <2> QED
    BY <1>5, <2>1, HearAccepts
<1>6. CASE item.say = "BEGIN"
  <2>1. a1 = a /\ p1 = p /\ d1 = IF s.dec = 0 THEN item.arg ELSE s.dec
    BY <1>6 DEF Announces, Answers, Decodes
  <2> QED
    BY <1>6, <2>1, HearBegins
<1> QED
  BY <1>1, <1>2, <1>3, <1>4, <1>5, <1>6 DEF About

-----------------------------------------------------------------------------
(* Both ends *)

Other(e) == IF e = Locid THEN Game ELSE Locid
Wires == {w \in [End -> UNION {Seq(Wording(e)) : e \in End}] :
             \A e \in End : w[e] \in Seq(Wording(e))}

(* The ends agree: what is on its way to e takes it from what it has seen   *)
(* to what the other has announced, from what it has been answered to what  *)
(* the other has seen, and its decoder to the other's compressor.           *)
Linked(l, w, p, t, a) ==
    \A e \in End :
        /\ Tuned(l[e], p[e], t[e], a[e])
        /\ Path("announced", a[e], w[e], t[Other(e)])
        /\ Path("answered", p[e], w[e], a[Other(e)])
        /\ Path("decoded", l[e].dec, w[e], l[Other(e)].enc)
Tied(l, w) == \E p, t, a \in [End -> Nat] : Linked(l, w, p, t, a)

\* End e becomes r and says what r says; v is left on its way to e.
Turn(l, w, e, r, v, l2, w2) ==
    /\ l2[e] = [r EXCEPT !.out = <<>>] /\ l2[Other(e)] = l[Other(e)]
    /\ w2[e] = v /\ w2[Other(e)] = w[Other(e)] \o r.out

LEMMA OtherFacts ==
    ASSUME NEW e \in End
    PROVE  /\ Other(e) \in End /\ Other(e) # e /\ Other(Other(e)) = e
           /\ End = {e, Other(e)}
           /\ Other(Locid) = Game /\ Other(Game) = Locid
           /\ Locid \in End /\ Game \in End
  BY EndsAssumption DEF End, Other

LEMMA PathRises ==
    ASSUME NEW kind \in {"announced", "answered", "leapt"}, NEW S, NEW w \in Seq(S), NEW x, NEW y,
           Path(kind, x, w, y)
    PROVE  x <= y
<1> DEFINE G == {n \in Nat : x <= n}
<1>1. x \in Nat /\ y \in Nat
  BY PathEnds
<1>2. x \in G
  BY <1>1
<1>3. ASSUME NEW k \in Nat, NEW i \in S, NEW v \in Nat, k \in G, Moves(kind, k, i, v)
      PROVE  v \in G
  <2>1. v = k \/ v = k + 1 \/ v = k + 2 \/ k < v
    BY <1>3, MovesFacts DEF Announces, Answers, Leaps
  <2>2. k <= v
    BY <1>3, <2>1
  <2> QED
    BY <1>1, <1>3, <2>2
<1> HIDE DEF G
<1>4. y \in G
  BY <1>2, <1>3, PathKeeps
<1> QED
  BY <1>4 DEF G

LEMMA TiedMoves ==
    ASSUME NEW l \in [End -> EndType], NEW w \in Wires,
           NEW p \in [End -> Nat], NEW t \in [End -> Nat], NEW a \in [End -> Nat],
           Linked(l, w, p, t, a),
           NEW e \in End, NEW r \in Speaking(Other(e)), NEW v \in Seq(Wording(e)),
           NEW p1 \in Nat, NEW t1 \in Nat, NEW a1 \in Nat, Tuned(r, p1, t1, a1),
           Path("announced", a1, v, t[Other(e)]),
           Path("answered", p1, v, a[Other(e)]),
           Path("decoded", r.dec, v, l[Other(e)].enc),
           Path("announced", t[e], r.out, t1),
           Path("answered", a[e], r.out, a1),
           Path("decoded", l[e].enc, r.out, r.enc),
           NEW l2, NEW w2, Turn(l, w, e, r, v, l2, w2)
    PROVE  Tied(l2, w2)
<1> DEFINE o == Other(e)
           p2 == [p EXCEPT ![e] = p1]
           t2 == [t EXCEPT ![e] = t1]
           a2 == [a EXCEPT ![e] = a1]
<1>1. o \in End /\ o # e /\ Other(o) = e /\ End = {e, o}
  BY OtherFacts
<1>2. /\ l2[e] = [r EXCEPT !.out = <<>>] /\ l2[o] = l[o] /\ w2[e] = v /\ w2[o] = w[o] \o r.out
  BY DEF Turn
<1>3. w[o] \in Seq(Wording(o)) /\ r.out \in Seq(Wording(o))
  BY <1>1 DEF Wires, Speaking
<1>4. /\ l2[e].us = r.us /\ l2[e].him = r.him /\ l2[e].enc = r.enc /\ l2[e].dec = r.dec
  BY <1>2 DEF Speaking
<1>5. /\ p2 \in [End -> Nat] /\ t2 \in [End -> Nat] /\ a2 \in [End -> Nat]
      /\ p2[e] = p1 /\ t2[e] = t1 /\ a2[e] = a1
      /\ p2[o] = p[o] /\ t2[o] = t[o] /\ a2[o] = a[o]
  BY <1>1
<1> HIDE DEF p2, t2, a2
<1>6. /\ Tuned(l[o], p[o], t[o], a[o])
      /\ Path("announced", a[o], w[o], t[e])
      /\ Path("answered", p[o], w[o], a[e])
      /\ Path("decoded", l[o].dec, w[o], l[e].enc)
  BY <1>1 DEF Linked
<1> HIDE DEF o
<1>7. /\ Tuned(l2[e], p2[e], t2[e], a2[e])
      /\ Path("announced", a2[e], w2[e], t2[o])
      /\ Path("answered", p2[e], w2[e], a2[o])
      /\ Path("decoded", l2[e].dec, w2[e], l2[o].enc)
  <2>1. Tuned(l2[e], p2[e], t2[e], a2[e])
    BY <1>4, <1>5 DEF Tuned
  <2> QED
    BY <1>2, <1>4, <1>5, <2>1 DEF o
<1>8. /\ Tuned(l2[o], p2[o], t2[o], a2[o])
      /\ Path("announced", a2[o], w2[o], t2[e])
      /\ Path("answered", p2[o], w2[o], a2[e])
      /\ Path("decoded", l2[o].dec, w2[o], l2[e].enc)
  <2>1. /\ Path("announced", a[o], w[o] \o r.out, t1)
        /\ Path("answered", p[o], w[o] \o r.out, a1)
        /\ Path("decoded", l[o].dec, w[o] \o r.out, r.enc)
    BY <1>3, <1>6, PathConcat
  <2> QED
    BY <1>2, <1>4, <1>5, <1>6, <2>1
<1>9. Linked(l2, w2, p2, t2, a2)
  <2>1. ASSUME NEW x \in End
        PROVE  /\ Tuned(l2[x], p2[x], t2[x], a2[x])
               /\ Path("announced", a2[x], w2[x], t2[Other(x)])
               /\ Path("answered", p2[x], w2[x], a2[Other(x)])
               /\ Path("decoded", l2[x].dec, w2[x], l2[Other(x)].enc)
    <3>1. (x = e /\ Other(x) = o) \/ (x = o /\ Other(x) = e)
      BY <1>1 DEF o
    <3> QED
      BY <1>7, <1>8, <3>1
  <2> QED
    BY <2>1 DEF Linked
<1> QED
  BY <1>5, <1>9 DEF Tied

(* What the first word does, when the ends agree. *)
LEMMA TiedFirst ==
    ASSUME NEW l \in [End -> EndType], NEW w \in Wires,
           NEW p \in [End -> Nat], NEW t \in [End -> Nat], NEW a \in [End -> Nat],
           Linked(l, w, p, t, a), NEW e \in End, w[e] # <<>>
    PROVE  \E p1, a1, d1 \in Nat :
               /\ Announces(a[e], Head(w[e]), a1) /\ Answers(p[e], Head(w[e]), p1)
               /\ Decodes(l[e].dec, Head(w[e]), d1)
               /\ Path("announced", a1, Tail(w[e]), t[Other(e)])
               /\ Path("answered", p1, Tail(w[e]), a[Other(e)])
               /\ Path("decoded", d1, Tail(w[e]), l[Other(e)].enc)
               /\ p1 <= t[e]
<1> DEFINE o == Other(e)
<1>1. o \in End /\ Other(o) = e /\ w[e] \in Seq(Wording(e)) /\ w[o] \in Seq(Wording(o))
  BY OtherFacts DEF Wires
<1>2. /\ Path("announced", a[e], w[e], t[o])
      /\ Path("answered", p[e], w[e], a[o])
      /\ Path("decoded", l[e].dec, w[e], l[o].enc)
      /\ Path("announced", a[o], w[o], t[e])
  BY <1>1 DEF Linked
<1> HIDE DEF o
<1>3. PICK a1 \in Nat : /\ Moves("announced", a[e], Head(w[e]), a1)
                        /\ Path("announced", a1, Tail(w[e]), t[o])
  BY <1>1, <1>2, PathFirst
<1>4. PICK p1 \in Nat : /\ Moves("answered", p[e], Head(w[e]), p1)
                        /\ Path("answered", p1, Tail(w[e]), a[o])
  BY <1>1, <1>2, PathFirst
<1>5. PICK d1 \in Nat : /\ Moves("decoded", l[e].dec, Head(w[e]), d1)
                        /\ Path("decoded", d1, Tail(w[e]), l[o].enc)
  BY <1>1, <1>2, PathFirst
<1>6. p1 <= t[e]
  <2>1. Tail(w[e]) \in Seq(Wording(e))
    BY <1>1, HeadTailProperties
  <2>2. p1 <= a[o]
    BY <1>4, <2>1, PathRises
  <2>3. a[o] <= t[e]
    BY <1>1, <1>2, PathRises
  <2> QED
    BY <1>1, <2>2, <2>3
<1>7. /\ Announces(a[e], Head(w[e]), a1) /\ Answers(p[e], Head(w[e]), p1)
      /\ Decodes(l[e].dec, Head(w[e]), d1)
  BY <1>3, <1>4, <1>5, MovesFacts
<1> QED
  BY <1>3, <1>4, <1>5, <1>6, <1>7 DEF o

-----------------------------------------------------------------------------
(* What either end does *)

(* Words that are not about MCCPX, and those that are not text. *)
Plain(w, enc) ==
    /\ \A x \in Nat : Path("announced", x, w, x) /\ Path("answered", x, w, x)
    /\ Path("decoded", enc, w, enc)
Mute(w) == \A n \in Nat : Path("read", n, w, n)
SameEnd(s, r) == r.us = s.us /\ r.him = s.him /\ r.enc = s.enc /\ r.dec = s.dec

LEMMA PlainNothing ==
    ASSUME NEW enc \in Nat
    PROVE  Plain(<<>>, enc) /\ Mute(<<>>)
  BY PathNothing DEF Plain, Mute

LEMMA PlainWord ==
    ASSUME NEW e, NEW i \in Wording(e), i.say \notin About
    PROVE  /\ Plain(<<i>>, i.enc)
           /\ i.say # "TEXT" => Mute(<<i>>)
           /\ \A n \in Nat : i.say = "TEXT" /\ i.arg = n + 1 => Path("read", n, <<i>>, n + 1)
           /\ \A n \in Nat : i.say = "TEXT" /\ n < i.arg => Path("skipped", n, <<i>>, i.arg)
<1>1. <<>> \in Seq(Wording(e)) /\ Append(<<>>, i) = <<i>> /\ i.enc \in Nat
  BY DEF Wording
<1>2. ASSUME NEW kind, NEW x \in Nat, NEW y \in Nat, Moves(kind, x, i, y)
      PROVE  Path(kind, x, <<i>>, y)
  <2>1. Path(kind, x, <<>>, x)
    BY PathNothing
  <2>2. Path(kind, x, Append(<<>>, i), y)
    BY <1>1, <1>2, <2>1, PathAppend
  <2> QED
    BY <1>1, <2>2
<1>3. ASSUME NEW x \in Nat
      PROVE  Moves("announced", x, i, x) /\ Moves("answered", x, i, x)
  BY MovesFacts DEF Announces, Answers, About
<1>4. Moves("decoded", i.enc, i, i.enc)
  BY MovesFacts DEF Decodes, About
<1>5. ASSUME NEW n \in Nat
      PROVE  /\ i.say # "TEXT" => Moves("read", n, i, n)
             /\ i.say = "TEXT" /\ i.arg = n + 1 => Moves("read", n, i, n + 1)
  BY MovesFacts DEF Counts
<1>6. Plain(<<i>>, i.enc)
  BY <1>1, <1>2, <1>3, <1>4 DEF Plain
<1>7. i.say # "TEXT" => Mute(<<i>>)
  BY <1>2, <1>5 DEF Mute
<1>8. ASSUME NEW n \in Nat, i.say = "TEXT", i.arg = n + 1
      PROVE  Path("read", n, <<i>>, n + 1)
  <2>1. n + 1 \in Nat
    OBVIOUS
  <2> QED
    BY <1>2, <1>5, <1>8, <2>1
<1>9. ASSUME NEW n \in Nat, i.say = "TEXT", n < i.arg
      PROVE  Path("skipped", n, <<i>>, i.arg)
  <2>1. i.arg \in Nat
    BY <1>9 DEF Wording
  <2>2. Moves("skipped", n, i, i.arg)
    BY <1>9, MovesFacts DEF Skips
  <2> QED
    BY <1>2, <2>1, <2>2
<1> QED
  BY <1>6, <1>7, <1>8, <1>9

LEMMA SendPlain ==
    ASSUME NEW e, NEW s \in Speaking(e), s.out = <<>>, NEW say, NEW arg,
           Item(s.enc, say, arg) \in Wording(e), say \notin About
    PROVE  LET r == Send(s, say, arg) IN
           /\ r \in Speaking(e) /\ SameEnd(s, r) /\ Plain(r.out, r.enc)
           /\ say # "TEXT" => Mute(r.out)
           /\ \A n \in Nat : say = "TEXT" /\ arg = n + 1 => Path("read", n, r.out, n + 1)
           /\ \A n \in Nat : say = "TEXT" /\ n < arg => Path("skipped", n, r.out, arg)
<1> DEFINE r == Send(s, say, arg)
           i == Item(s.enc, say, arg)
<1>1. r \in Speaking(e)
  BY SendType
<1>2. SameEnd(s, r) /\ r.out = <<i>>
  BY DEF Send, Speaking, SameEnd
<1>3. i.say = say /\ i.enc = s.enc /\ i.arg = arg
  BY DEF Item
<1> HIDE DEF r, i
<1>4. i \in Wording(e)
  BY DEF i
<1>5. /\ Plain(<<i>>, i.enc)
      /\ i.say # "TEXT" => Mute(<<i>>)
      /\ \A n \in Nat : i.say = "TEXT" /\ i.arg = n + 1 => Path("read", n, <<i>>, n + 1)
      /\ \A n \in Nat : i.say = "TEXT" /\ n < i.arg => Path("skipped", n, <<i>>, i.arg)
  BY <1>3, <1>4, PlainWord
<1>6. r.enc = i.enc
  BY <1>2, <1>3 DEF SameEnd
<1> QED
  BY <1>1, <1>2, <1>3, <1>5, <1>6 DEF r

LEMMA TiedSays ==
    ASSUME NEW l \in [End -> EndType], NEW w \in Wires, Tied(l, w),
           NEW e \in End, NEW r \in Speaking(Other(e)), SameEnd(l[e], r), Plain(r.out, r.enc),
           NEW l2, NEW w2, Turn(l, w, e, r, w[e], l2, w2)
    PROVE  Tied(l2, w2)
<1>1. PICK p, t, a \in [End -> Nat] : Linked(l, w, p, t, a)
  BY DEF Tied
<1>2. /\ Tuned(l[e], p[e], t[e], a[e])
      /\ Path("announced", a[e], w[e], t[Other(e)])
      /\ Path("answered", p[e], w[e], a[Other(e)])
      /\ Path("decoded", l[e].dec, w[e], l[Other(e)].enc)
  BY <1>1 DEF Linked
<1>3. Tuned(r, p[e], t[e], a[e]) /\ r.dec = l[e].dec /\ r.enc = l[e].enc
  BY <1>2 DEF Tuned, SameEnd
<1>4. /\ Path("announced", t[e], r.out, t[e]) /\ Path("answered", a[e], r.out, a[e])
      /\ Path("decoded", l[e].enc, r.out, r.enc)
  BY <1>3 DEF Plain
<1>5. w[e] \in Seq(Wording(e)) /\ p[e] \in Nat /\ t[e] \in Nat /\ a[e] \in Nat
  BY DEF Wires
<1> QED
  BY <1>1, <1>2, <1>3, <1>4, <1>5, TiedMoves

LEMMA TiedReads ==
    ASSUME NEW l \in [End -> EndType], NEW w \in Wires, Tied(l, w),
           NEW e \in End, w[e] # <<>>, Head(w[e]).say \notin About,
           NEW r \in Speaking(Other(e)), SameEnd(l[e], r), Plain(r.out, r.enc),
           NEW l2, NEW w2, Turn(l, w, e, r, Tail(w[e]), l2, w2)
    PROVE  Tied(l2, w2)
<1>1. PICK p, t, a \in [End -> Nat] : Linked(l, w, p, t, a)
  BY DEF Tied
<1>2. Tuned(l[e], p[e], t[e], a[e])
  BY <1>1 DEF Linked
<1>3. PICK p1, a1, d1 \in Nat :
               /\ Announces(a[e], Head(w[e]), a1) /\ Answers(p[e], Head(w[e]), p1)
               /\ Decodes(l[e].dec, Head(w[e]), d1)
               /\ Path("announced", a1, Tail(w[e]), t[Other(e)])
               /\ Path("answered", p1, Tail(w[e]), a[Other(e)])
               /\ Path("decoded", d1, Tail(w[e]), l[Other(e)].enc)
               /\ p1 <= t[e]
  BY <1>1, TiedFirst
<1>4. p1 = p[e] /\ a1 = a[e] /\ d1 = l[e].dec
  BY <1>3 DEF Announces, Answers, Decodes, About
<1>5. Tuned(r, p[e], t[e], a[e]) /\ r.dec = l[e].dec /\ r.enc = l[e].enc
  BY <1>2 DEF Tuned, SameEnd
<1>6. /\ Path("announced", t[e], r.out, t[e]) /\ Path("answered", a[e], r.out, a[e])
      /\ Path("decoded", l[e].enc, r.out, r.enc)
  BY <1>5 DEF Plain
<1>7. Tail(w[e]) \in Seq(Wording(e)) /\ p[e] \in Nat /\ t[e] \in Nat /\ a[e] \in Nat
  BY HeadTailProperties DEF Wires
<1> QED
  BY <1>1, <1>3, <1>4, <1>5, <1>6, <1>7, TiedMoves

LEMMA TiedHears ==
    ASSUME NEW l \in [End -> EndType], NEW w \in Wires, Tied(l, w),
           NEW e \in End, w[e] # <<>>, Head(w[e]).say \in About,
           ~Hushed(l[e], Hear(l[e], Head(w[e]))),
           NEW l2, NEW w2, Turn(l, w, e, Hear(l[e], Head(w[e])), Tail(w[e]), l2, w2)
    PROVE  /\ Hear(l[e], Head(w[e])) \in Speaking(Other(e))
           /\ Tied(l2, w2) /\ Mute(Hear(l[e], Head(w[e])).out)
<1> DEFINE i == Head(w[e])
           r == Hear(l[e], i)
<1>1. PICK p, t, a \in [End -> Nat] : Linked(l, w, p, t, a)
  BY DEF Tied
<1>2. Tuned(l[e], p[e], t[e], a[e])
  BY <1>1 DEF Linked
<1>3. PICK p1, a1, d1 \in Nat :
               /\ Announces(a[e], i, a1) /\ Answers(p[e], i, p1)
               /\ Decodes(l[e].dec, i, d1)
               /\ Path("announced", a1, Tail(w[e]), t[Other(e)])
               /\ Path("answered", p1, Tail(w[e]), a[Other(e)])
               /\ Path("decoded", d1, Tail(w[e]), l[Other(e)].enc)
               /\ p1 <= t[e]
  BY <1>1, TiedFirst
<1>4. /\ l[e] \in Speaking(Other(e)) /\ l[e].out = <<>>
      /\ Tail(w[e]) \in Seq(Wording(e)) /\ i \in Wording(e)
      /\ p[e] \in Nat /\ t[e] \in Nat /\ a[e] \in Nat
  BY EndSpeaks, HeadTailProperties DEF Wires
<1>5. i.say = "BEGIN" => i.arg \in Nat
  BY <1>4 DEF Wording
<1> HIDE DEF i
<1>6. r \in Speaking(Other(e))
  BY <1>4, <1>5, HearType DEF i
<1>7. Heard(l[e], r, t[e], a[e], p1, a1, d1)
  BY <1>2, <1>3, <1>4, HearVoice DEF i
<1> HIDE DEF r
<1>8. PICK u \in Nat : /\ t[e] <= u /\ Tuned(r, p1, u, a1)
                       /\ Voice(r, t[e], u, a[e], a1, l[e].enc)
  BY <1>7 DEF Heard
<1>9. r.dec = d1
  BY <1>7 DEF Heard
<1>10. /\ Path("announced", t[e], r.out, u) /\ Path("answered", a[e], r.out, a1)
       /\ Path("decoded", l[e].enc, r.out, r.enc) /\ Mute(r.out)
  BY <1>8 DEF Voice, Mute
<1>11. Turn(l, w, e, r, Tail(w[e]), l2, w2)
  BY DEF r, i
<1>12. Tied(l2, w2)
  BY <1>1, <1>3, <1>4, <1>6, <1>8, <1>9, <1>10, <1>11, TiedMoves
<1> QED
  BY <1>6, <1>10, <1>12 DEF r, i

LEMMA TiedReadable ==
    ASSUME NEW l \in [End -> EndType], NEW w \in Wires, Tied(l, w),
           NEW e \in End, w[e] # <<>>
    PROVE  Head(w[e]).enc = l[e].dec
<1>1. PICK p, t, a \in [End -> Nat] : Linked(l, w, p, t, a)
  BY DEF Tied
<1>2. \E p1, a1, d1 \in Nat : Decodes(l[e].dec, Head(w[e]), d1)
  BY <1>1, TiedFirst
<1> QED
  BY <1>2 DEF Decodes

\* The program's own wishes.
LEMMA TiedAsks ==
    ASSUME NEW l \in [End -> EndType], NEW w \in Wires, Tied(l, w), NEW e \in End,
           NEW r, \/ r = Ours(l[e], AskYes(l[e].us))
                  \/ r = EndSend(l[e]) /\ ~Hushed(l[e], r),
           NEW l2, NEW w2, Turn(l, w, e, r, w[e], l2, w2)
    PROVE  r \in Speaking(Other(e)) /\ Tied(l2, w2) /\ Mute(r.out)
<1>1. PICK p, t, a \in [End -> Nat] : Linked(l, w, p, t, a)
  BY DEF Tied
<1>2. /\ Tuned(l[e], p[e], t[e], a[e])
      /\ Path("announced", a[e], w[e], t[Other(e)])
      /\ Path("answered", p[e], w[e], a[Other(e)])
      /\ Path("decoded", l[e].dec, w[e], l[Other(e)].enc)
  BY <1>1 DEF Linked
<1>3. /\ l[e] \in Speaking(Other(e)) /\ l[e].out = <<>>
      /\ p[e] \in Nat /\ t[e] \in Nat /\ a[e] \in Nat /\ w[e] \in Seq(Wording(e))
      /\ l[e].us \in QState /\ l[e].enc \in Nat
  BY EndSpeaks DEF Wires, EndType
<1>4. Voice(l[e], t[e], t[e], a[e], a[e], l[e].enc)
  BY <1>3, NothingSaid
<1>5. Own(l[e].us, p[e], t[e])
  BY <1>2 DEF Tuned
<1>6. \E u \in Nat : Own(r.us, p[e], u) /\ Voice(r, t[e], u, a[e], a[e], l[e].enc)
  <2>1. CASE r = Ours(l[e], AskYes(l[e].us))
    BY <1>3, <1>4, <1>5, <2>1, AskYesVoice, ZenonT(30)
  <2>2. CASE r = EndSend(l[e]) /\ ~Hushed(l[e], r)
    <3>1. l[e].enc = 0 \/ l[e].us = "YES"
      <4> DEFINE tr == AskNo(l[e].us)
                 c == Ours(l[e], tr)
      <4>1. ASSUME l[e].us # "YES"
            PROVE  tr.say = <<>> /\ tr \in Transitions
        BY <1>3, <4>1, HearingTypes DEF AskNo, Transition, Stay
      <4>2. ASSUME l[e].us # "YES"
            PROVE  c.out = <<>> /\ c \in Speaking(Other(e))
        <5> HIDE DEF tr
        <5> QED
          BY <1>3, <4>1, <4>2, OursFields, OursType
      <4>3. r = [c EXCEPT !.enc = 0]
        BY <2>2 DEF EndSend
      <4> HIDE DEF c, tr
      <4>4. ASSUME l[e].us # "YES"
            PROVE  r.out = <<>> /\ r.enc = 0
        BY <4>2, <4>3, <4>4 DEF Speaking
      <4>5. ASSUME l[e].us # "YES"
            PROVE  \A i \in DOMAIN r.out : r.out[i].say # "WONT"
        BY <4>4, <4>5
      <4> QED
        BY <2>2, <4>4, <4>5 DEF Hushed
    <3> QED
      BY <1>3, <1>4, <1>5, <2>2, <3>1, EndSendVoice, ZenonT(30)
  <2> QED
    BY <2>1, <2>2
<1>7. /\ r \in Speaking(Other(e)) /\ r.him = l[e].him /\ r.dec = l[e].dec
      /\ IsOff(p[e]) => r.enc = 0
  <2>1. l[e].us \in QState
    BY <1>3
  <2>2. /\ AskYes(l[e].us) \in Transitions /\ AskNo(l[e].us) \in Transitions
    BY <2>1, HearingTypes
  <2>3. CASE r = Ours(l[e], AskYes(l[e].us))
    <3> DEFINE tr == AskYes(l[e].us)
    <3> HIDE DEF tr
    <3>1. /\ Ours(l[e], tr) \in Speaking(Other(e)) /\ Ours(l[e], tr).him = l[e].him
          /\ Ours(l[e], tr).dec = l[e].dec /\ Ours(l[e], tr).enc = l[e].enc
      BY <1>3, <2>2, OursType, OursFields DEF tr
    <3> QED
      BY <1>2, <2>3, <3>1 DEF Tuned, tr
  <2>4. CASE r = EndSend(l[e])
    <3> DEFINE tr == AskNo(l[e].us)
               c == Ours(l[e], tr)
    <3> HIDE DEF tr
    <3>1. c \in Speaking(Other(e)) /\ c.him = l[e].him /\ c.dec = l[e].dec
      BY <1>3, <2>2, OursType, OursFields DEF tr
    <3>2. r = [c EXCEPT !.enc = 0]
      BY <2>4 DEF EndSend, tr
    <3> HIDE DEF c
    <3>3. r.him = c.him /\ r.dec = c.dec /\ r.enc = 0 /\ r \in Speaking(Other(e))
      BY <3>1, <3>2 DEF Speaking
    <3> QED
      BY <3>1, <3>3
  <2> QED
    BY <2>3, <2>4
<1>8. PICK u \in Nat : Own(r.us, p[e], u) /\ Voice(r, t[e], u, a[e], a[e], l[e].enc)
  BY <1>6
<1>9. Tuned(r, p[e], u, a[e])
  BY <1>2, <1>7, <1>8 DEF Tuned
<1>10. /\ Path("announced", t[e], r.out, u) /\ Path("answered", a[e], r.out, a[e])
       /\ Path("decoded", l[e].enc, r.out, r.enc) /\ Mute(r.out)
  BY <1>8 DEF Voice, Mute
<1>11. Path("decoded", r.dec, w[e], l[Other(e)].enc)
  BY <1>2, <1>7
<1>12. Tied(l2, w2)
  BY <1>1, <1>2, <1>3, <1>7, <1>8, <1>9, <1>10, <1>11, TiedMoves
<1> QED
  BY <1>7, <1>10, <1>12

-----------------------------------------------------------------------------
(* Text on its way *)

\* The lines g have been read, and w brings those up to n.
Arrives(g, w, n) == FirstOnes(g) /\ Path("read", Len(g), w, n)

\* Of the lines up to n some are missing.
Below(g, n) == \A i \in DOMAIN g : g[i] <= n
Comes(g, w, n) ==
    Rising(g) /\ \E k \in Nat : Below(g, k) /\ Path("skipped", k, w, n)

(* The ends agree, and text is on its way in order: the game's to locid,    *)
(* and the user's through the websocket to the game.                       *)
Flow(l, w, u, h) ==
    /\ Tied(l, w)
    /\ Arrives(h.got[Locid], w[Locid], h.sent[Locid])
    /\ ~h.dropped => \E m \in Nat : /\ Arrives(h.got[Game], w[Game], m)
                                    /\ Path("typed", m, u, h.sent[Game])
    /\ \E m \in Nat, n \in Nat : /\ Comes(h.got[Game], w[Game], m)
                                  /\ Path("leapt", m, u, n) /\ n <= h.sent[Game]

LEMMA ArrivesFirst ==
    ASSUME NEW g \in Seq(Nat), NEW e, NEW w \in Seq(Wording(e)), w # <<>>, NEW n,
           Arrives(g, w, n)
    PROVE  /\ Head(w).say # "TEXT" => Arrives(g, Tail(w), n)
           /\ Head(w).say = "TEXT" => Arrives(Append(g, Head(w).arg), Tail(w), n)
<1> DEFINE i == Head(w)
           v == Append(g, i.arg)
<1>1. FirstOnes(g) /\ Path("read", Len(g), w, n) /\ Len(g) \in Nat
  BY DEF Arrives
<1>2. PICK y \in Nat : Moves("read", Len(g), i, y) /\ Path("read", y, Tail(w), n)
  BY <1>1, PathFirst
<1>3. Counts(Len(g), i, y)
  BY <1>2, MovesFacts
<1>4. i \in Wording(e)
  BY HeadTailProperties
<1> HIDE DEF i
<1>5. ASSUME i.say # "TEXT"
      PROVE  Arrives(g, Tail(w), n)
  <2>1. y = Len(g)
    BY <1>3, <1>5 DEF Counts
  <2> QED
    BY <1>1, <1>2, <2>1 DEF Arrives
<1>6. ASSUME i.say = "TEXT"
      PROVE  Arrives(v, Tail(w), n)
  <2>1. y = Len(g) + 1 /\ i.arg = Len(g) + 1
    BY <1>3, <1>6 DEF Counts
  <2>2. i.arg \in Nat
    BY <1>4, <1>6 DEF Wording
  <2>3. /\ Len(v) = Len(g) + 1 /\ v[Len(g) + 1] = i.arg
        /\ \A k \in 1 .. Len(g) : v[k] = g[k]
        /\ DOMAIN v = 1 .. Len(v) /\ DOMAIN g = 1 .. Len(g)
    BY <2>2, AppendProperties
  <2> HIDE DEF v
  <2>4. FirstOnes(v)
    <3>1. ASSUME NEW k \in 1 .. Len(g) + 1
          PROVE  v[k] = k
      <4>1. CASE k = Len(g) + 1
        BY <2>1, <2>3, <4>1
      <4>2. CASE k # Len(g) + 1
        <5>1. k \in 1 .. Len(g)
          BY <1>1, <4>2
        <5> QED
          BY <1>1, <2>3, <5>1 DEF FirstOnes
      <4> QED
        BY <4>1, <4>2
    <3> QED
      BY <2>3, <3>1 DEF FirstOnes
  <2> QED
    BY <1>2, <2>1, <2>3, <2>4 DEF Arrives
<1> QED
  BY <1>5, <1>6 DEF i

LEMMA ArrivesMute ==
    ASSUME NEW g, NEW e, NEW w \in Seq(Wording(e)), NEW n, Arrives(g, w, n),
           NEW v \in Seq(Wording(e)), Mute(v)
    PROVE  Arrives(g, w \o v, n)
<1>1. Path("read", Len(g), w, n) /\ n \in Nat
  BY PathEnds DEF Arrives
<1>2. Path("read", n, v, n)
  BY <1>1 DEF Mute
<1>3. Path("read", Len(g), w \o v, n)
  BY <1>1, <1>2, PathConcat
<1> QED
  BY <1>3 DEF Arrives

LEMMA ComesFirst ==
    ASSUME NEW g \in Seq(Nat), NEW e, NEW w \in Seq(Wording(e)), w # <<>>, NEW n,
           Comes(g, w, n)
    PROVE  /\ Head(w).say # "TEXT" => Comes(g, Tail(w), n)
           /\ Head(w).say = "TEXT" => Comes(Append(g, Head(w).arg), Tail(w), n)
<1> DEFINE i == Head(w)
           v == Append(g, i.arg)
<1>1. PICK k \in Nat : Rising(g) /\ Below(g, k) /\ Path("skipped", k, w, n)
  BY DEF Comes
<1>2. PICK y \in Nat : Moves("skipped", k, i, y) /\ Path("skipped", y, Tail(w), n)
  BY <1>1, PathFirst
<1>3. Skips(k, i, y)
  BY <1>2, MovesFacts
<1>4. i \in Wording(e)
  BY HeadTailProperties
<1> HIDE DEF i
<1>5. ASSUME i.say # "TEXT"
      PROVE  Comes(g, Tail(w), n)
  <2>1. y = k
    BY <1>3, <1>5 DEF Skips
  <2> QED
    BY <1>1, <1>2, <2>1 DEF Comes
<1>6. ASSUME i.say = "TEXT"
      PROVE  Comes(v, Tail(w), n)
  <2>1. y = i.arg /\ k < y
    BY <1>3, <1>6 DEF Skips
  <2>2. /\ Len(v) = Len(g) + 1 /\ v[Len(g) + 1] = y
        /\ \A j \in 1 .. Len(g) : v[j] = g[j] /\ v[j] \in Nat
        /\ DOMAIN v = 1 .. Len(v) /\ DOMAIN g = 1 .. Len(g) /\ Len(g) \in Nat
    BY <2>1, AppendProperties
  <2> HIDE DEF v
  <2>3. \A j \in 1 .. Len(g) : v[j] < y
    BY <1>1, <2>1, <2>2 DEF Below
  <2>4. Rising(v)
    <3>1. ASSUME NEW a \in DOMAIN v, NEW b \in DOMAIN v, a < b
          PROVE  v[a] < v[b]
      <4>1. a \in 1 .. Len(g)
        BY <2>2, <3>1
      <4>2. CASE b \in 1 .. Len(g)
        BY <1>1, <2>2, <3>1, <4>1, <4>2 DEF Rising
      <4>3. CASE b = Len(g) + 1
        BY <2>2, <2>3, <4>1, <4>3
      <4> QED
        BY <2>2, <4>2, <4>3
    <3> QED
      BY <3>1 DEF Rising
  <2>5. Below(v, y)
    <3>1. ASSUME NEW a \in DOMAIN v
          PROVE  v[a] <= y
      <4>1. a \in 1 .. Len(g) \/ a = Len(g) + 1
        BY <2>2
      <4> QED
        BY <2>2, <2>3, <4>1
    <3> QED
      BY <3>1 DEF Below
  <2> QED
    BY <1>2, <2>4, <2>5 DEF Comes
<1> QED
  BY <1>5, <1>6 DEF i

LEMMA ComesMute ==
    ASSUME NEW g, NEW e, NEW w \in Seq(Wording(e)), NEW n, Comes(g, w, n),
           NEW v \in Seq(Wording(e)), Mute(v)
    PROVE  Comes(g, w \o v, n)
<1>1. PICK k \in Nat : Rising(g) /\ Below(g, k) /\ Path("skipped", k, w, n)
  BY DEF Comes
<1>2. n \in Nat
  BY <1>1, PathEnds
<1>3. Path("skipped", n, v, n)
  BY <1>2, PathSkips DEF Mute
<1>4. Path("skipped", k, w \o v, n)
  BY <1>1, <1>3, PathConcat
<1> QED
  BY <1>1, <1>4 DEF Comes

(* End e has nothing, or the first word on its way; v is left of them, and  *)
(* h2 has what h did not.                                                   *)
Takes(e, w, v, h, h2) ==
    /\ h2.dropped = h.dropped /\ h2.sent = h.sent
    /\ h2.got[Other(e)] = h.got[Other(e)]
    /\ \/ v = w[e] /\ h2.got[e] = h.got[e]
       \/ /\ v = Tail(w[e]) /\ w[e] # <<>> /\ Head(w[e]).say # "TEXT"
          /\ h2.got[e] = h.got[e]
       \/ /\ v = Tail(w[e]) /\ w[e] # <<>> /\ Head(w[e]).say = "TEXT"
          /\ h2.got[e] = Append(h.got[e], Head(w[e]).arg)

\* A turn of either end that sends no text.
LEMMA FlowTurn ==
    ASSUME NEW l, NEW w \in Wires, NEW u, NEW h \in History, Flow(l, w, u, h),
           NEW e \in End, NEW r, r.out \in Seq(Wording(Other(e))), Mute(r.out), NEW v,
           NEW l2, NEW w2, Turn(l, w, e, r, v, l2, w2), Tied(l2, w2),
           NEW h2, Takes(e, w, v, h, h2)
    PROVE  Flow(l2, w2, u, h2)
<1>1. /\ Other(e) \in End /\ Locid \in End /\ Game \in End /\ End = {e, Other(e)}
      /\ w[e] \in Seq(Wording(e)) /\ w[Other(e)] \in Seq(Wording(Other(e)))
      /\ h.got[e] \in Seq(Nat) /\ h.got[Other(e)] \in Seq(Nat)
  BY OtherFacts DEF Wires, History
<1>2. ASSUME NEW n, Arrives(h.got[e], w[e], n)
      PROVE  Arrives(h2.got[e], w2[e], n)
  <2> DEFINE g == h.got[e]
             x == w[e]
  <2>1. w2[e] = v
    BY DEF Turn
  <2>2. g \in Seq(Nat) /\ x \in Seq(Wording(e)) /\ Arrives(g, x, n)
    BY <1>1, <1>2
  <2>3. x # <<>> => /\ Head(x).say # "TEXT" => Arrives(g, Tail(x), n)
                    /\ Head(x).say = "TEXT" => Arrives(Append(g, Head(x).arg), Tail(x), n)
    <3> HIDE DEF g, x
    <3> QED
      BY <2>2, ArrivesFirst
  <2> QED
    BY <2>1, <2>2, <2>3 DEF Takes
<1>3. ASSUME NEW n, Arrives(h.got[Other(e)], w[Other(e)], n)
      PROVE  Arrives(h2.got[Other(e)], w2[Other(e)], n)
  <2>1. Arrives(h.got[Other(e)], w[Other(e)] \o r.out, n)
    BY <1>1, <1>3, ArrivesMute
  <2> QED
    BY <2>1 DEF Turn, Takes
<1>4. ASSUME NEW x \in End, NEW n, Arrives(h.got[x], w[x], n)
      PROVE  Arrives(h2.got[x], w2[x], n)
  BY <1>1, <1>2, <1>3, <1>4
<1>5. Arrives(h2.got[Locid], w2[Locid], h2.sent[Locid])
  BY <1>1, <1>4 DEF Flow, Takes
<1>6. ASSUME NEW n, Comes(h.got[e], w[e], n)
      PROVE  Comes(h2.got[e], w2[e], n)
  <2> DEFINE g == h.got[e]
             x == w[e]
  <2>1. w2[e] = v
    BY DEF Turn
  <2>2. g \in Seq(Nat) /\ x \in Seq(Wording(e)) /\ Comes(g, x, n)
    BY <1>1, <1>6
  <2>3. x # <<>> => /\ Head(x).say # "TEXT" => Comes(g, Tail(x), n)
                    /\ Head(x).say = "TEXT" => Comes(Append(g, Head(x).arg), Tail(x), n)
    <3> HIDE DEF g, x
    <3> QED
      BY <2>2, ComesFirst
  <2> QED
    BY <2>1, <2>2, <2>3 DEF Takes
<1>7. ASSUME NEW n, Comes(h.got[Other(e)], w[Other(e)], n)
      PROVE  Comes(h2.got[Other(e)], w2[Other(e)], n)
  <2>1. Comes(h.got[Other(e)], w[Other(e)] \o r.out, n)
    BY <1>1, <1>7, ComesMute
  <2> QED
    BY <2>1 DEF Turn, Takes
<1>8. \E m \in Nat, n \in Nat : /\ Comes(h2.got[Game], w2[Game], m)
                                 /\ Path("leapt", m, u, n) /\ n <= h2.sent[Game]
  <2>1. PICK m \in Nat, n \in Nat : /\ Comes(h.got[Game], w[Game], m)
                                    /\ Path("leapt", m, u, n) /\ n <= h.sent[Game]
    BY DEF Flow
  <2>2. Comes(h2.got[Game], w2[Game], m)
    BY <1>1, <1>6, <1>7, <2>1
  <2> QED
    BY <2>1, <2>2 DEF Takes
<1>9. ASSUME ~h2.dropped
      PROVE  \E m \in Nat : /\ Arrives(h2.got[Game], w2[Game], m)
                            /\ Path("typed", m, u, h2.sent[Game])
  <2>1. PICK m \in Nat : Arrives(h.got[Game], w[Game], m) /\ Path("typed", m, u, h.sent[Game])
    BY <1>9 DEF Flow, Takes
  <2>2. Arrives(h2.got[Game], w2[Game], m)
    BY <1>1, <1>4, <2>1
  <2> QED
    BY <2>1, <2>2 DEF Takes
<1> QED
  BY <1>5, <1>9, <1>8 DEF Flow

\* The game sends its next line.
LEMMA FlowText ==
    ASSUME NEW l \in [End -> EndType], NEW w \in Wires, NEW u, NEW h \in History,
           Flow(l, w, u, h),
           NEW r, r = Send(l[Game], "TEXT", h.sent[Locid] + 1),
           NEW l2, NEW w2, Turn(l, w, Game, r, w[Game], l2, w2),
           NEW h2, h2.dropped = h.dropped, h2.sent[Locid] = h.sent[Locid] + 1,
           h2.sent[Game] = h.sent[Game], h2.got = h.got
    PROVE  r \in Speaking(Locid) /\ Flow(l2, w2, u, h2)
<1>1. /\ Locid \in End /\ Game \in End /\ Other(Game) = Locid
      /\ w[Locid] \in Seq(Wording(Locid)) /\ h.sent[Locid] \in Nat
      /\ l[Game] \in Speaking(Locid) /\ l[Game].out = <<>> /\ l[Game].enc \in Nat
  BY OtherFacts, EndSpeaks DEF Wires, History, EndType, End
<1> DEFINE n == h.sent[Locid] + 1
<1>2. n \in Nat
  BY <1>1
<1>3. Item(l[Game].enc, "TEXT", n) \in Wording(Locid)
  BY <1>1, <1>2 DEF Item, Wording, Said, Arg
<1>4. /\ r \in Speaking(Locid) /\ SameEnd(l[Game], r) /\ Plain(r.out, r.enc)
      /\ \A k \in Nat : n = k + 1 => Path("read", k, r.out, k + 1)
  <2> HIDE DEF n
  <2>1. "TEXT" \notin About
    BY DEF About
  <2>2. LET q == Send(l[Game], "TEXT", n) IN
        /\ q \in Speaking(Locid) /\ SameEnd(l[Game], q) /\ Plain(q.out, q.enc)
        /\ \A k \in Nat : "TEXT" = "TEXT" /\ n = k + 1 => Path("read", k, q.out, k + 1)
    BY <1>1, <1>3, <2>1, SendPlain
  <2>3. r = Send(l[Game], "TEXT", n)
    BY DEF n
  <2> QED
    BY <2>2, <2>3
<1>5. Tied(l2, w2)
  BY <1>1, <1>4, TiedSays DEF Flow
<1>6. Path("read", h.sent[Locid], r.out, h.sent[Locid] + 1)
  BY <1>1, <1>4
<1>7. Arrives(h2.got[Locid], w2[Locid], h2.sent[Locid])
  <2>1. r.out \in Seq(Wording(Locid))
    BY <1>4 DEF Speaking
  <2>2. Path("read", Len(h.got[Locid]), w[Locid], h.sent[Locid]) /\ FirstOnes(h.got[Locid])
    BY DEF Flow, Arrives
  <2>3. Path("read", Len(h.got[Locid]), w[Locid] \o r.out, h.sent[Locid] + 1)
    BY <1>1, <1>6, <2>1, <2>2, PathConcat
  <2> QED
    BY <1>1, <2>2, <2>3 DEF Arrives, Turn
<1>8. w2[Game] = w[Game]
  BY DEF Turn
<1> QED
  BY <1>4, <1>5, <1>7, <1>8 DEF Flow

\* The user's line goes on from the websocket to the game.
LEMMA FlowTyped ==
    ASSUME NEW l \in [End -> EndType], NEW w \in Wires, NEW u \in Seq(Wishes), u # <<>>,
           NEW h \in History, Flow(l, w, u, h), Head(u).cmd = "TERM",
           NEW r, r = Send(l[Locid], "TEXT", Head(u).arg),
           NEW l2, NEW w2, Turn(l, w, Locid, r, w[Locid], l2, w2)
    PROVE  r \in Speaking(Game) /\ Flow(l2, w2, Tail(u), h)
<1> DEFINE n == Head(u).arg
<1>1. /\ Locid \in End /\ Game \in End /\ Other(Locid) = Game
      /\ w[Game] \in Seq(Wording(Game))
      /\ l[Locid] \in Speaking(Game) /\ l[Locid].out = <<>> /\ l[Locid].enc \in Nat
  BY OtherFacts, EndSpeaks DEF Wires, EndType, End
<1>2. n \in Nat
  <2>1. Head(u) \in Wishes
    BY HeadTailProperties
  <2> QED
    BY <2>1 DEF Wishes
<1>3. Item(l[Locid].enc, "TEXT", n) \in Wording(Game)
  BY <1>1, <1>2 DEF Item, Wording, Said, Arg
<1>4. /\ r \in Speaking(Game) /\ SameEnd(l[Locid], r) /\ Plain(r.out, r.enc)
      /\ \A k \in Nat : n = k + 1 => Path("read", k, r.out, k + 1)
      /\ \A k \in Nat : k < n => Path("skipped", k, r.out, n)
  <2> HIDE DEF n
  <2>1. "TEXT" \notin About
    BY DEF About
  <2>2. LET q == Send(l[Locid], "TEXT", n) IN
        /\ q \in Speaking(Game) /\ SameEnd(l[Locid], q) /\ Plain(q.out, q.enc)
        /\ \A k \in Nat : "TEXT" = "TEXT" /\ n = k + 1 => Path("read", k, q.out, k + 1)
        /\ \A k \in Nat : "TEXT" = "TEXT" /\ k < n => Path("skipped", k, q.out, n)
    BY <1>1, <1>3, <2>1, SendPlain
  <2>3. r = Send(l[Locid], "TEXT", n)
    BY DEF n
  <2> QED
    BY <2>2, <2>3
<1> HIDE DEF n
<1>5. Tied(l2, w2)
  BY <1>1, <1>4, TiedSays DEF Flow
<1>6. w2[Locid] = w[Locid] /\ w2[Game] = w[Game] \o r.out
  BY <1>1 DEF Turn
<1>7. ASSUME ~h.dropped
      PROVE  \E m \in Nat : /\ Arrives(h.got[Game], w2[Game], m)
                            /\ Path("typed", m, Tail(u), h.sent[Game])
  <2>1. PICK m \in Nat : Arrives(h.got[Game], w[Game], m) /\ Path("typed", m, u, h.sent[Game])
    BY <1>7 DEF Flow
  <2>2. PICK k \in Nat : Moves("typed", m, Head(u), k) /\ Path("typed", k, Tail(u), h.sent[Game])
    BY <2>1, PathFirst
  <2>3. k = m + 1 /\ n = m + 1
    BY <2>2, MovesFacts DEF Types, n
  <2>4. Path("read", m, r.out, m + 1)
    BY <1>4, <2>3
  <2>5. r.out \in Seq(Wording(Game))
    BY <1>4 DEF Speaking
  <2>6. Path("read", Len(h.got[Game]), w[Game], m) /\ FirstOnes(h.got[Game])
    BY <2>1 DEF Arrives
  <2>7. Path("read", Len(h.got[Game]), w[Game] \o r.out, m + 1)
    BY <1>1, <2>4, <2>5, <2>6, PathConcat
  <2>8. Arrives(h.got[Game], w2[Game], k)
    BY <1>6, <2>3, <2>6, <2>7 DEF Arrives
  <2> QED
    BY <2>2, <2>8
<1>8. \E m \in Nat, p \in Nat : /\ Comes(h.got[Game], w2[Game], m)
                                 /\ Path("leapt", m, Tail(u), p) /\ p <= h.sent[Game]
  <2>1. PICK m \in Nat, p \in Nat : /\ Comes(h.got[Game], w[Game], m)
                                    /\ Path("leapt", m, u, p) /\ p <= h.sent[Game]
    BY DEF Flow
  <2>2. PICK k \in Nat : Moves("leapt", m, Head(u), k) /\ Path("leapt", k, Tail(u), p)
    BY <2>1, PathFirst
  <2>3. k = n /\ m < n
    BY <2>2, MovesFacts DEF Leaps, n
  <2>4. Path("skipped", m, r.out, n)
    BY <1>4, <2>3
  <2>5. r.out \in Seq(Wording(Game))
    BY <1>4 DEF Speaking
  <2>6. PICK j \in Nat : Below(h.got[Game], j) /\ Path("skipped", j, w[Game], m)
    BY <2>1 DEF Comes
  <2>7. Path("skipped", j, w[Game] \o r.out, n)
    BY <1>1, <2>4, <2>5, <2>6, PathConcat
  <2>8. Comes(h.got[Game], w2[Game], k)
    BY <1>6, <2>1, <2>3, <2>6, <2>7 DEF Comes
  <2> QED
    BY <2>1, <2>2, <2>8
<1> QED
  BY <1>4, <1>5, <1>6, <1>7, <1>8 DEF Flow

\* Another wish of the browser is taken up, or made.
LEMMA FlowWishes ==
    ASSUME NEW l, NEW w, NEW u \in Seq(Wishes), NEW h, Flow(l, w, u, h)
    PROVE  /\ u # <<>> /\ Head(u).cmd # "TERM" => Flow(l, w, Tail(u), h)
           /\ \A i \in Wishes : i.cmd # "TERM" => Flow(l, w, Append(u, i), h)
<1>1. ASSUME u # <<>>, Head(u).cmd # "TERM", NEW m \in Nat, Path("typed", m, u, h.sent[Game])
      PROVE  Path("typed", m, Tail(u), h.sent[Game])
  <2>1. PICK k \in Nat : Moves("typed", m, Head(u), k) /\ Path("typed", k, Tail(u), h.sent[Game])
    BY <1>1, PathFirst
  <2>2. k = m
    BY <1>1, <2>1, MovesFacts DEF Types
  <2> QED
    BY <2>1, <2>2
<1>2. ASSUME NEW i \in Wishes, i.cmd # "TERM", NEW m \in Nat, Path("typed", m, u, h.sent[Game])
      PROVE  Path("typed", m, Append(u, i), h.sent[Game])
  <2>1. h.sent[Game] \in Nat
    BY <1>2, PathEnds
  <2>2. Moves("typed", h.sent[Game], i, h.sent[Game])
    BY <1>2, MovesFacts DEF Types
  <2> QED
    BY <1>2, <2>1, <2>2, PathAppend
<1>3. ASSUME u # <<>>, Head(u).cmd # "TERM", NEW m \in Nat, NEW n \in Nat, Path("leapt", m, u, n)
      PROVE  Path("leapt", m, Tail(u), n)
  <2>1. PICK k \in Nat : Moves("leapt", m, Head(u), k) /\ Path("leapt", k, Tail(u), n)
    BY <1>3, PathFirst
  <2>2. k = m
    BY <1>3, <2>1, MovesFacts DEF Leaps
  <2> QED
    BY <2>1, <2>2
<1>4. ASSUME NEW i \in Wishes, i.cmd # "TERM", NEW m \in Nat, NEW n \in Nat, Path("leapt", m, u, n)
      PROVE  Path("leapt", m, Append(u, i), n)
  <2>1. Moves("leapt", n, i, n)
    BY <1>4, MovesFacts DEF Leaps
  <2> QED
    BY <1>4, <2>1, PathAppend
<1> QED
  BY <1>1, <1>2, <1>3, <1>4 DEF Flow

\* The user types a line.
LEMMA FlowInput ==
    ASSUME NEW l, NEW w, NEW u \in Seq(Wishes), NEW h \in History, Flow(l, w, u, h),
           NEW i \in Wishes, i.cmd = "TERM", i.arg = h.sent[Game] + 1,
           NEW h2, h2.dropped = h.dropped, h2.sent[Game] = h.sent[Game] + 1,
           h2.sent[Locid] = h.sent[Locid], h2.got = h.got
    PROVE  Flow(l, w, Append(u, i), h2)
<1>1. h.sent[Game] \in Nat /\ h2.sent[Game] \in Nat
  BY DEF History, End
<1>2. Moves("typed", h.sent[Game], i, h2.sent[Game])
  BY MovesFacts DEF Types
<1>3. ASSUME NEW m \in Nat, Path("typed", m, u, h.sent[Game])
      PROVE  Path("typed", m, Append(u, i), h2.sent[Game])
  BY <1>1, <1>2, <1>3, PathAppend
<1>4. \E m \in Nat, n \in Nat : /\ Comes(h2.got[Game], w[Game], m)
                                 /\ Path("leapt", m, Append(u, i), n) /\ n <= h2.sent[Game]
  <2>1. PICK m \in Nat, n \in Nat : /\ Comes(h.got[Game], w[Game], m)
                                    /\ Path("leapt", m, u, n) /\ n <= h.sent[Game]
    BY DEF Flow
  <2>2. Moves("leapt", n, i, h2.sent[Game])
    <3>1. n < i.arg /\ i.arg = h2.sent[Game]
      BY <1>1, <2>1
    <3> QED
      BY <3>1, MovesFacts DEF Leaps
  <2>3. Path("leapt", m, Append(u, i), h2.sent[Game])
    BY <1>1, <2>1, <2>2, PathAppend
  <2> QED
    BY <1>1, <2>1, <2>3
<1> QED
  BY <1>3, <1>4 DEF Flow

-----------------------------------------------------------------------------
(* The state *)

\* Nothing has happened that is known to break a stream.
Clean(h) == ~h.spanned /\ ~h.hushed /\ ~h.bypassed /\ ~h.refed
InStep(h) ==
    /\ FirstOnes(h.got[Locid]) /\ Rising(h.got[Game])
    /\ ~h.dropped => FirstOnes(h.got[Game])

(* Locid handles what it reads only while the game is neither closing nor   *)
(* down.  A closing game's bytes are thrown away, but it goes on as if they *)
(* were still on their way.                                                *)
StreamInv ==
    /\ rx.left > 0 => sess.st \in {"BLOCKING", "UP"}
    /\ sess.st = "DOWN" => wire[Game] = <<>>
    /\ Clean(hist) =>
         /\ rx.left > 0 => rx.freed \/ rx.dec = lib[Locid].dec
         /\ InStep(hist)
         /\ sess.st # "DOWN" =>
               \E w \in Wires : /\ w[Game] = wire[Game]
                                /\ sess.st # "CLOSING" => w[Locid] = wire[Locid]
                                /\ Flow(lib, w, up, hist)

\* What the properties of the streams depend on.
SameStreams(h, g) ==
    /\ g.got = h.got /\ g.sent = h.sent /\ g.dropped = h.dropped
    /\ g.spanned = h.spanned /\ g.hushed = h.hushed /\ g.bypassed = h.bypassed
    /\ g.refed = h.refed

LEMMA StKept ==
    ASSUME NEW s, "st" \in DOMAIN s
    PROVE  /\ \A cmd, arg : "st" \in DOMAIN Push(s, cmd, arg) /\ Push(s, cmd, arg).st = s.st
           /\ \A flags : "st" \in DOMAIN Checked(s, flags) /\ Checked(s, flags).st = s.st
           /\ "st" \in DOMAIN PushEcho(s) /\ PushEcho(s).st = s.st
           /\ \A n : "st" \in DOMAIN Show(s, n) /\ Show(s, n).st = s.st
           /\ \A opt : "st" \in DOMAIN Stray(s, opt) /\ Stray(s, opt).st = s.st
<1>1. ASSUME NEW x, "st" \in DOMAIN x, NEW cmd, NEW arg
      PROVE  "st" \in DOMAIN Push(x, cmd, arg) /\ Push(x, cmd, arg).st = x.st
  BY <1>1 DEF Push
<1>2. ASSUME NEW x, "st" \in DOMAIN x, NEW flags
      PROVE  "st" \in DOMAIN Checked(x, flags) /\ Checked(x, flags).st = x.st
  BY <1>2 DEF Checked
<1>3. ASSUME NEW x, "st" \in DOMAIN x
      PROVE  "st" \in DOMAIN PushEcho(x) /\ PushEcho(x).st = x.st
  BY <1>1, <1>3 DEF PushEcho
<1>4. ASSUME NEW n
      PROVE  "st" \in DOMAIN Show(s, n) /\ Show(s, n).st = s.st
  <2> DEFINE b == [s EXCEPT !.spoken = TRUE]
             c == IF s.spoken THEN s ELSE PushEcho(b)
  <2>1. "st" \in DOMAIN b /\ b.st = s.st
    OBVIOUS
  <2> HIDE DEF b
  <2>2. "st" \in DOMAIN c /\ c.st = s.st
    BY <1>3, <2>1
  <2>3. Show(s, n) = Push(c, "TERM", n)
    BY DEF Show, b
  <2> HIDE DEF c
  <2> QED
    BY <1>1, <2>2, <2>3
<1>5. ASSUME NEW opt
      PROVE  "st" \in DOMAIN Stray(s, opt) /\ Stray(s, opt).st = s.st
  <2>1. \/ Stray(s, opt) = s
        \/ Stray(s, opt) = Checked(s, {"MSSP"})
        \/ Stray(s, opt) = Push(Checked(s, {"MUD"}), "GMCP", 0)
    BY DEF Stray
  <2> QED
    BY <1>1, <1>2, <2>1
<1> QED
  BY <1>1, <1>2, <1>3, <1>4, <1>5

LEMMA FlowFirst ==
    ASSUME NEW l, NEW w, NEW u, NEW h, Flow(l, w, u, h)
    PROVE  InStep(h)
  BY DEF Flow, Arrives, Comes, InStep

LEMMA TypeFacts ==
    ASSUME TypeInv
    PROVE  /\ lib \in [End -> EndType] /\ wire \in Wires /\ up \in Seq(Wishes)
           /\ hist \in History /\ sess \in Session /\ "st" \in DOMAIN sess
           /\ sess.st \in {"BLOCKING", "UP", "CLOSING", "DOWN"}
           /\ Locid \in End /\ Game \in End /\ Locid # Game /\ End = {Locid, Game}
           /\ lib[Locid] \in Speaking(Game) /\ lib[Game] \in Speaking(Locid)
           /\ lib[Locid].out = <<>> /\ lib[Game].out = <<>>
           /\ lib[Locid].enc \in Nat /\ lib[Game].enc \in Nat
<1>1. Locid \in End /\ Game \in End /\ End = {Locid, Game}
  BY DEF End
<1>2. wire \in Wires
  BY DEF TypeInv, Wires
<1>3. sess \in Session /\ "st" \in DOMAIN sess /\ sess.st \in {"BLOCKING", "UP", "CLOSING", "DOWN"}
  BY DEF TypeInv, Session
<1>4. lib[Locid] \in EndType /\ lib[Game] \in EndType
  BY <1>1 DEF TypeInv
<1>5. lib[Locid].enc \in Nat /\ lib[Game].enc \in Nat
  BY <1>4 DEF EndType
<1> QED
  BY <1>1, <1>2, <1>3, <1>4, <1>5, EndsAssumption, EndSpeaks DEF TypeInv

\* What is known while locid reads.
LEMMA ReadingFlow ==
    ASSUME TypeInv, StreamInv, rx.left > 0
    PROVE  /\ sess.st \in {"BLOCKING", "UP"}
           /\ wire[Locid] # <<>> /\ It = Head(wire[Locid]) /\ It \in Wording(Locid)
           /\ Clean(hist) => Flow(lib, wire, up, hist)
<1>1. sess.st \in {"BLOCKING", "UP"}
  BY DEF StreamInv
<1>2. wire[Locid] # <<>>
  BY DEF TypeInv
<1>3. ASSUME Clean(hist)
      PROVE  Flow(lib, wire, up, hist)
  <2>1. PICK w \in Wires : /\ w[Game] = wire[Game]
                           /\ sess.st # "CLOSING" => w[Locid] = wire[Locid]
                           /\ Flow(lib, w, up, hist)
    BY <1>1, <1>3 DEF StreamInv
  <2>2. w[Game] = wire[Game] /\ w[Locid] = wire[Locid]
    BY <1>1, <2>1
  <2>3. w = wire
    <3>1. \A e \in End : w[e] = wire[e]
      BY <2>2 DEF End
    <3>2. /\ w \in [End -> UNION {Seq(Wording(e)) : e \in End}]
          /\ wire \in [End -> UNION {Seq(Wording(e)) : e \in End}]
      BY TypeFacts DEF Wires
    <3> QED
      BY <3>1, <3>2
  <2> QED
    BY <2>1, <2>3
<1> QED
  BY <1>1, <1>2, <1>3, ReadFacts DEF It

\* Done is a turn of locid's.
LEMMA DoneTurn ==
    ASSUME TypeInv, rx.left > 0, NEW l \in Speaking(Game), NEW s, NEW r, Done(1, l, s, r)
    PROVE  Turn(lib, wire, Locid, l, Tail(wire[Locid]), lib', wire')
<1>1. wire \in Wires /\ lib \in [End -> EndType] /\ Locid \in End /\ Game \in End /\ Locid # Game
  BY TypeFacts
<1>2. wire[Locid] # <<>> /\ wire[Locid] \in Seq(Wording(Locid))
  BY <1>1 DEF TypeInv, Wires
<1>3. SubSeq(wire[Locid], 1 + 1, Len(wire[Locid])) = Tail(wire[Locid])
  <2>1. Tail(wire[Locid]) = SubSeq(wire[Locid], 2, Len(wire[Locid]))
    BY <1>2, TailIsSubSeq
  <2>2. 1 + 1 = 2
    OBVIOUS
  <2> QED
    BY <2>1, <2>2
<1>4. Other(Locid) = Game
  BY <1>1, OtherFacts
<1>5. /\ lib' = [lib EXCEPT ![Locid] = [l EXCEPT !.out = <<>>]]
      /\ wire' = [wire EXCEPT ![Locid] = SubSeq(@, 1 + 1, Len(@)), ![Game] = @ \o l.out]
  BY DEF Done
<1>6. lib'[Locid] = [l EXCEPT !.out = <<>>] /\ lib'[Game] = lib[Game]
  BY <1>1, <1>5
<1>7. wire'[Locid] = SubSeq(wire[Locid], 1 + 1, Len(wire[Locid])) /\ wire'[Game] = wire[Game] \o l.out
  BY <1>1, <1>5 DEF Wires
<1> QED
  BY <1>3, <1>4, <1>6, <1>7 DEF Turn

\* The session goes on, and with it the streams.
LEMMA DoneFlows ==
    ASSUME TypeInv, TypeInv', StreamInv, rx.left > 0, NEW n, NEW l, l.dec \in Nat, l \in Speaking(Game),
           NEW s, "st" \in DOMAIN s, s.st = sess.st, NEW r, Done(n, l, s, r),
           r \in Calls, n \in 1 .. rx.left,
           Clean(hist') => /\ n < rx.left => r.freed \/ r.dec = l.dec
                           /\ Flow(lib', wire', up', hist')
    PROVE  StreamInv'
<1>1. sess.st \in {"BLOCKING", "UP"}
  BY DEF StreamInv
<1>2. sess'.st \in {"BLOCKING", "UP"}
  BY <1>1 DEF Done, Unblocked
<1>3. lib'[Locid].dec = l.dec
  <2>1. lib' = [lib EXCEPT ![Locid] = [l EXCEPT !.out = <<>>]] /\ Locid \in DOMAIN lib
    BY TypeFacts DEF Done
  <2>2. lib'[Locid] = [l EXCEPT !.out = <<>>]
    BY <2>1
  <2> QED
    BY <2>2 DEF Speaking
<1>4. r.left = rx.left /\ rx.left \in Nat /\ r.left \in Nat
  <2>1. rx.left \in Nat
    BY DEF TypeInv
  <2> QED
    BY <2>1 DEF Calls
<1>5. ASSUME Clean(hist'), rx'.left > 0
      PROVE  rx'.freed \/ rx'.dec = lib'[Locid].dec
  <2>1. CASE r.left = n
    BY <1>5, <2>1 DEF Done, NotReading
  <2>2. CASE r.left # n
    <3>1. rx' = [r EXCEPT !.left = @ - n]
      BY <2>2 DEF Done
    <3>2. rx'.freed = r.freed /\ rx'.dec = r.dec
      BY <3>1 DEF Calls
    <3>3. n < rx.left
      BY <1>4, <2>2
    <3> QED
      BY <1>3, <1>5, <3>2, <3>3
  <2> QED
    BY <2>1, <2>2
<1>6. ASSUME Clean(hist')
      PROVE  InStep(hist') /\ Flow(lib', wire', up', hist')
  BY <1>6, FlowFirst
<1>7. wire' \in Wires
  BY DEF TypeInv, Wires
<1> QED
  BY <1>2, <1>5, <1>6, <1>7 DEF StreamInv

-----------------------------------------------------------------------------
(* Locid reads *)

LEMMA FlowFields ==
    ASSUME NEW h \in History
    PROVE  /\ \A x : SameStreams(h, [h EXCEPT !.spoke = x])
           /\ \A x, y : SameStreams(h, [h EXCEPT !.spoke = x, !.strayed = y])
           /\ \A x : SameStreams(h, [h EXCEPT !.failed = x])
           /\ \A x : SameStreams(h, [h EXCEPT !.unsettled = x])
           /\ \A x : SameStreams(h, [h EXCEPT !.disputed = x])
           /\ \A x : SameStreams(h, [h EXCEPT !.stalled = x])
           /\ \A x, y : SameStreams(h, [h EXCEPT !.failed = x, !.closed = y])
           /\ SameStreams(h, h)
  BY DEF SameStreams, History

\* Locid reads a word that is neither text nor about MCCPX.
LEMMA RxPlain ==
    ASSUME TypeInv, TypeInv', StreamInv, rx.left > 0, It.say \notin About, It.say # "TEXT",
           NEW l \in Speaking(Game), NEW s, "st" \in DOMAIN s, s.st = sess.st, Done(1, l, s, rx),
           hist'.got = hist.got, hist'.sent = hist.sent, hist'.dropped = hist.dropped,
           Clean(hist') => Clean(hist) /\ SameEnd(lib[Locid], l) /\ Plain(l.out, l.enc) /\ Mute(l.out)
    PROVE  StreamInv'
<1>1. /\ wire[Locid] # <<>> /\ It = Head(wire[Locid])
      /\ Clean(hist) => Flow(lib, wire, up, hist)
  BY ReadingFlow
<1>2. Turn(lib, wire, Locid, l, Tail(wire[Locid]), lib', wire')
  BY DoneTurn
<1>3. /\ lib \in [End -> EndType] /\ wire \in Wires /\ hist \in History
      /\ Locid \in End /\ Game \in End /\ Other(Locid) = Game
      /\ "st" \in DOMAIN sess
  BY TypeFacts, OtherFacts
<1>4. l.dec \in Nat /\ l.out \in Seq(Wording(Game))
  BY DEF Speaking
<1>5. up' = up
  BY DEF Done
<1>6. ASSUME Clean(hist')
      PROVE  /\ rx.freed \/ rx.dec = l.dec
             /\ Flow(lib', wire', up', hist')
  <2>1. /\ Clean(hist) /\ SameEnd(lib[Locid], l) /\ Plain(l.out, l.enc) /\ Mute(l.out)
        /\ Flow(lib, wire, up, hist) /\ Tied(lib, wire)
    BY <1>1, <1>6 DEF Flow
  <2>2. Tied(lib', wire')
    BY <1>1, <1>2, <1>3, <2>1, TiedReads
  <2>3. Flow(lib', wire', up, hist')
    <3>1. /\ l.out \in Seq(Wording(Other(Locid)))
          /\ hist'.got[Other(Locid)] = hist.got[Other(Locid)]
          /\ hist'.got[Locid] = hist.got[Locid]
          /\ Head(wire[Locid]).say # "TEXT"
      BY <1>1, <1>3, <1>4
    <3>2. Takes(Locid, wire, Tail(wire[Locid]), hist, hist')
      BY <1>1, <3>1 DEF Takes
    <3> QED
      BY <1>2, <1>3, <2>1, <2>2, <3>1, <3>2, FlowTurn
  <2>4. rx.freed \/ rx.dec = lib[Locid].dec
    BY <2>1 DEF StreamInv
  <2> QED
    BY <1>5, <2>1, <2>3, <2>4 DEF SameEnd
<1>7. rx \in Calls /\ 1 \in 1 .. rx.left
  BY ReadFacts
<1> QED
  BY <1>4, <1>6, <1>7, DoneFlows

\* It says nothing to it.
LEMMA RxSilent ==
    ASSUME TypeInv, TypeInv', StreamInv, rx.left > 0, It.say \notin About, It.say # "TEXT",
           NEW s, "st" \in DOMAIN s, s.st = sess.st, Done(1, lib[Locid], s, rx),
           SameStreams(hist, hist')
    PROVE  StreamInv'
<1> DEFINE l == lib[Locid]
<1>1. l \in Speaking(Game) /\ l.out = <<>> /\ l.enc \in Nat
  BY TypeFacts
<1>2. SameEnd(lib[Locid], l) /\ Plain(l.out, l.enc) /\ Mute(l.out)
  BY <1>1, PlainNothing DEF SameEnd
<1>3. /\ hist'.got = hist.got /\ hist'.sent = hist.sent /\ hist'.dropped = hist.dropped
      /\ Clean(hist') => Clean(hist)
  BY DEF SameStreams, Clean
<1> QED
  BY <1>1, <1>2, <1>3, RxPlain

LEMMA RxTextFlows ==
    ASSUME TypeInv, TypeInv', StreamInv, RxText
    PROVE  StreamInv'
<1> DEFINE l == lib[Locid]
           s == Show(sess, It.arg)
<1>1. rx.left > 0 /\ It.say = "TEXT" /\ Done(1, l, s, rx)
      /\ hist' = [hist EXCEPT !.got[Locid] = Append(@, It.arg)]
  BY DEF RxText, Reads
<1>2. /\ wire[Locid] # <<>> /\ It = Head(wire[Locid])
      /\ Clean(hist) => Flow(lib, wire, up, hist)
  BY <1>1, ReadingFlow
<1>3. /\ lib \in [End -> EndType] /\ wire \in Wires /\ hist \in History
      /\ Locid \in End /\ Game \in End /\ Locid # Game /\ Other(Locid) = Game
      /\ "st" \in DOMAIN sess
      /\ l \in Speaking(Game) /\ l.out = <<>> /\ l.enc \in Nat
  BY TypeFacts, OtherFacts
<1>4. Turn(lib, wire, Locid, l, Tail(wire[Locid]), lib', wire')
  BY <1>1, <1>3, DoneTurn
<1>5. l.dec \in Nat /\ l.out \in Seq(Wording(Game))
  BY <1>3 DEF Speaking
<1>6. SameEnd(lib[Locid], l) /\ Plain(l.out, l.enc) /\ Mute(l.out)
  BY <1>3, PlainNothing DEF SameEnd
<1>7. up' = up
  BY <1>1 DEF Done
<1>8. /\ hist'.sent = hist.sent /\ hist'.dropped = hist.dropped
      /\ hist'.got[Game] = hist.got[Game]
      /\ hist'.got[Locid] = Append(hist.got[Locid], It.arg)
      /\ Clean(hist') => Clean(hist)
  <2> DEFINE g == Append(hist.got[Locid], It.arg)
  <2>1. hist' = [hist EXCEPT !.got[Locid] = g]
    BY <1>1
  <2> HIDE DEF g
  <2>2. /\ hist'.sent = hist.sent /\ hist'.dropped = hist.dropped
        /\ hist'.got[Game] = hist.got[Game] /\ hist'.got[Locid] = g
        /\ hist'.spanned = hist.spanned /\ hist'.hushed = hist.hushed
        /\ hist'.bypassed = hist.bypassed /\ hist'.refed = hist.refed
    BY <1>3, <2>1 DEF History
  <2> QED
    BY <2>2 DEF Clean, g
<1>9. ASSUME Clean(hist')
      PROVE  /\ rx.freed \/ rx.dec = l.dec
             /\ Flow(lib', wire', up', hist')
  <2>1. Clean(hist) /\ Flow(lib, wire, up, hist) /\ Tied(lib, wire)
    BY <1>2, <1>8, <1>9 DEF Flow
  <2>2. Head(wire[Locid]).say \notin About
    BY <1>1, <1>2 DEF About
  <2>3. Tied(lib', wire')
    BY <1>2, <1>3, <1>4, <1>6, <2>1, <2>2, TiedReads
  <2>4. Flow(lib', wire', up, hist')
    <3>1. /\ l.out \in Seq(Wording(Other(Locid)))
          /\ hist'.got[Other(Locid)] = hist.got[Other(Locid)]
          /\ hist'.got[Locid] = Append(hist.got[Locid], Head(wire[Locid]).arg)
          /\ Head(wire[Locid]).say = "TEXT" /\ Mute(l.out)
      BY <1>1, <1>2, <1>3, <1>5, <1>6, <1>8
    <3>2. Takes(Locid, wire, Tail(wire[Locid]), hist, hist')
      BY <1>2, <1>8, <3>1 DEF Takes
    <3> QED
      BY <1>3, <1>4, <2>1, <2>3, <3>1, <3>2, FlowTurn
  <2>5. rx.freed \/ rx.dec = lib[Locid].dec
    BY <1>1, <2>1 DEF StreamInv
  <2> QED
    BY <1>7, <2>4, <2>5
<1>10. rx \in Calls /\ 1 \in 1 .. rx.left
  BY <1>1, ReadFacts
<1>11. "st" \in DOMAIN s /\ s.st = sess.st
  BY <1>3, StKept
<1> QED
  BY <1>1, <1>3, <1>5, <1>9, <1>10, <1>11, DoneFlows

LEMMA RxMccpxFlows ==
    ASSUME TypeInv, TypeInv', StreamInv, NEW stray, RxMccpx(stray)
    PROVE  StreamInv'
<1> DEFINE l == Hear(lib[Locid], It)
           r == CallOn(l)
           s == Stray(Checked(sess, Proves(lib[Locid], It)), stray)
<1>1. rx.left > 0 /\ It.say \in About /\ Done(1, l, s, r)
  BY DEF RxMccpx, Reads
<1>2. hist' = [hist EXCEPT !.spoke = @ \cup Proves(lib[Locid], It),
                           !.strayed = @ \/ stray # "none",
                           !.hushed = @ \/ Hushed(lib[Locid], l)]
  BY DEF RxMccpx
<1>3. /\ wire[Locid] # <<>> /\ It = Head(wire[Locid]) /\ It \in Wording(Locid)
      /\ Clean(hist) => Flow(lib, wire, up, hist)
  BY <1>1, ReadingFlow
<1>4. /\ lib \in [End -> EndType] /\ wire \in Wires /\ hist \in History
      /\ Locid \in End /\ Game \in End /\ Other(Locid) = Game
      /\ "st" \in DOMAIN sess /\ lib[Locid] \in Speaking(Game)
  BY TypeFacts, OtherFacts
<1>5. l \in Speaking(Game) /\ l.dec \in Nat /\ l.out \in Seq(Wording(Game))
  <2>1. It.say = "BEGIN" => It.arg \in Nat
    BY <1>3 DEF Wording
  <2>2. l \in Speaking(Game)
    BY <1>1, <1>4, <2>1, HearType
  <2> QED
    BY <2>2 DEF Speaking
<1>6. Turn(lib, wire, Locid, l, Tail(wire[Locid]), lib', wire')
  <2> HIDE DEF l, r, s
  <2> QED
    BY <1>1, <1>5, DoneTurn
<1>7. "st" \in DOMAIN s /\ s.st = sess.st
  <2> DEFINE c == Checked(sess, Proves(lib[Locid], It))
  <2>1. "st" \in DOMAIN c /\ c.st = sess.st
    BY <1>4, StKept
  <2> HIDE DEF c
  <2>2. "st" \in DOMAIN Stray(c, stray) /\ Stray(c, stray).st = c.st
    BY <2>1, StKept
  <2> QED
    BY <2>1, <2>2 DEF c
<1>8. r \in Calls /\ (r.freed \/ r.dec = l.dec) /\ 1 \in 1 .. rx.left
  <2>1. rx \in Calls /\ 1 \in 1 .. rx.left
    BY <1>1, ReadFacts
  <2> HIDE DEF l
  <2> QED
    BY <1>5, <2>1 DEF CallOn, Calls
<1>9. up' = up
  BY <1>1 DEF Done
<1>10. /\ hist'.got = hist.got /\ hist'.sent = hist.sent /\ hist'.dropped = hist.dropped
       /\ Clean(hist') => Clean(hist) /\ ~Hushed(lib[Locid], l)
  <2> DEFINE spoke == hist.spoke \cup Proves(lib[Locid], It)
             strayed == hist.strayed \/ stray # "none"
             hushed == hist.hushed \/ Hushed(lib[Locid], l)
  <2>1. hist' = [hist EXCEPT !.spoke = spoke, !.strayed = strayed, !.hushed = hushed]
    BY <1>2
  <2>2. ~hushed => ~hist.hushed /\ ~Hushed(lib[Locid], l)
    OBVIOUS
  <2> HIDE DEF spoke, strayed, hushed
  <2>3. /\ hist'.got = hist.got /\ hist'.sent = hist.sent /\ hist'.dropped = hist.dropped
        /\ hist'.spanned = hist.spanned /\ hist'.bypassed = hist.bypassed
        /\ hist'.hushed = hushed /\ hist'.refed = hist.refed
    BY <1>4, <2>1 DEF History
  <2> QED
    BY <2>2, <2>3 DEF Clean
<1> HIDE DEF r, s
<1>11. ASSUME Clean(hist')
       PROVE  Flow(lib', wire', up', hist')
  <2>1. Clean(hist) /\ Flow(lib, wire, up, hist) /\ Tied(lib, wire) /\ ~Hushed(lib[Locid], l)
    BY <1>3, <1>10, <1>11 DEF Flow
  <2>2. Tied(lib', wire') /\ Mute(l.out)
    BY <1>1, <1>3, <1>4, <1>6, <2>1, TiedHears
  <2>3. It.say # "TEXT"
    BY <1>1 DEF About
  <2> HIDE DEF l
  <2>4. Flow(lib', wire', up, hist')
    <3>1. /\ l.out \in Seq(Wording(Other(Locid)))
          /\ hist'.got[Other(Locid)] = hist.got[Other(Locid)]
          /\ hist'.got[Locid] = hist.got[Locid]
          /\ Head(wire[Locid]).say # "TEXT"
      BY <1>3, <1>4, <1>5, <1>10, <2>3
    <3>2. Takes(Locid, wire, Tail(wire[Locid]), hist, hist')
      BY <1>3, <1>10, <3>1 DEF Takes
    <3> QED
      BY <1>4, <1>6, <2>1, <2>2, <3>1, <3>2, FlowTurn
  <2> QED
    BY <1>9, <2>4
<1> HIDE DEF l
<1> QED
  BY <1>1, <1>5, <1>7, <1>8, <1>11, DoneFlows

LEMMA RxSilentFlows ==
    ASSUME TypeInv, TypeInv', StreamInv,
           \/ RxEcho \/ RxGmcp \/ RxMssp \/ RxAnswer \/ \E stray \in Strays : RxDont(stray)
    PROVE  StreamInv'
<1> USE TypeFacts
<1>1. "st" \in DOMAIN sess /\ hist \in History
  OBVIOUS
<1>2. \A flags : "st" \in DOMAIN Checked(sess, flags) /\ Checked(sess, flags).st = sess.st
  BY <1>1, StKept
<1>3. CASE RxEcho
  <2> DEFINE b == [sess EXCEPT !.echo = It.arg]
             c == Checked(b, {"TELNET"})
  <2>1. "st" \in DOMAIN b /\ b.st = sess.st
    BY <1>1
  <2> HIDE DEF b
  <2>2. "st" \in DOMAIN c /\ c.st = sess.st
    BY <2>1, StKept
  <2> HIDE DEF c
  <2>3. "st" \in DOMAIN PushEcho(c) /\ PushEcho(c).st = sess.st
    BY <2>2, StKept
  <2>4. rx.left > 0 /\ It.say = "ECHO" /\ Done(1, lib[Locid], PushEcho(c), rx)
    BY <1>3 DEF RxEcho, Reads, b, c
  <2>5. SameStreams(hist, hist')
    BY <1>1, <1>3, FlowFields DEF RxEcho
  <2>6. It.say \notin About /\ It.say # "TEXT"
    BY <2>4 DEF About
  <2> QED
    BY <2>3, <2>4, <2>5, <2>6, RxSilent
<1>4. CASE RxGmcp
  <2> DEFINE c == Checked(sess, {"TELNET", "MUD"})
  <2>1. "st" \in DOMAIN c /\ c.st = sess.st
    BY <1>2
  <2> HIDE DEF c
  <2>2. "st" \in DOMAIN Push(c, "GMCP", 1) /\ Push(c, "GMCP", 1).st = sess.st
    <3>1. \A cmd, arg : "st" \in DOMAIN Push(c, cmd, arg) /\ Push(c, cmd, arg).st = c.st
      BY <2>1, StKept
    <3> QED
      BY <2>1, <3>1
  <2>3. rx.left > 0 /\ It.say = "GMCP" /\ Done(1, lib[Locid], Push(c, "GMCP", 1), rx)
    BY <1>4 DEF RxGmcp, Reads, c
  <2>4. SameStreams(hist, hist')
    BY <1>1, <1>4, FlowFields DEF RxGmcp
  <2>5. It.say \notin About /\ It.say # "TEXT"
    BY <2>3 DEF About
  <2> QED
    BY <2>2, <2>3, <2>4, <2>5, RxSilent
<1>5. CASE RxMssp
  <2>1. rx.left > 0 /\ It.say = "MSSP" /\ Done(1, lib[Locid], Checked(sess, Check), rx)
    BY <1>5 DEF RxMssp, Reads
  <2>2. SameStreams(hist, hist')
    BY <1>1, <1>5, FlowFields DEF RxMssp
  <2>3. It.say \notin About /\ It.say # "TEXT"
    BY <2>1 DEF About
  <2> QED
    BY <1>2, <2>1, <2>2, <2>3, RxSilent
<1>6. CASE RxAnswer
  <2>1. /\ rx.left > 0 /\ It.say \in {"ACCEPTED", "REJECTED"}
        /\ Done(1, lib[Locid], Checked(sess, {"TELNET"}), rx)
    BY <1>6 DEF RxAnswer, Reads
  <2>2. SameStreams(hist, hist')
    BY <1>1, <1>6, FlowFields DEF RxAnswer
  <2>3. It.say \notin About /\ It.say # "TEXT"
    BY <2>1 DEF About
  <2> QED
    BY <1>2, <2>1, <2>2, <2>3, RxSilent
<1>7. ASSUME NEW stray \in Strays, RxDont(stray)
      PROVE  StreamInv'
  <2> DEFINE c == Checked(sess, {"TELNET"})
  <2>1. "st" \in DOMAIN c /\ c.st = sess.st
    BY <1>2
  <2> HIDE DEF c
  <2>2. "st" \in DOMAIN Stray(c, stray) /\ Stray(c, stray).st = sess.st
    BY <2>1, StKept
  <2>3. rx.left > 0 /\ It.say = "NAWS" /\ Done(1, lib[Locid], Stray(c, stray), rx)
    BY <1>7 DEF RxDont, Reads, c
  <2>4. SameStreams(hist, hist')
    BY <1>1, <1>7, FlowFields DEF RxDont
  <2>5. It.say \notin About /\ It.say # "TEXT"
    BY <2>3 DEF About
  <2> QED
    BY <2>2, <2>3, <2>4, <2>5, RxSilent
<1> QED
  BY <1>3, <1>4, <1>5, <1>6, <1>7

LEMMA RxAytFlows ==
    ASSUME TypeInv, TypeInv', StreamInv, RxAyt
    PROVE  StreamInv'
<1> DEFINE i == Item(0, "YES", 0)
           l == [lib[Locid] EXCEPT !.out = Append(@, i)]
<1>1. /\ rx.left > 0 /\ It.say = "AYT" /\ Done(1, l, sess, rx)
      /\ hist' = [hist EXCEPT !.bypassed = @ \/ lib[Locid].enc # 0]
  BY DEF RxAyt, Reads
<1>2. /\ lib[Locid] \in Speaking(Game) /\ lib[Locid].out = <<>> /\ hist \in History
      /\ "st" \in DOMAIN sess
  BY TypeFacts
<1>3. i \in Wording(Game) /\ i.say = "YES" /\ i.enc = 0
  BY DEF Item, Wording, Said, Arg
<1> HIDE DEF i
<1>4. l \in Speaking(Game) /\ SameEnd(lib[Locid], l) /\ l.out = <<i>>
  <2>1. Append(lib[Locid].out, i) = <<i>> /\ <<i>> \in Seq(Wording(Game))
    BY <1>2, <1>3
  <2> QED
    BY <1>2, <2>1 DEF Speaking, SameEnd
<1> HIDE DEF l
<1>5. Plain(<<i>>, i.enc) /\ Mute(<<i>>)
  BY <1>3, PlainWord DEF About
<1>6. /\ hist'.got = hist.got /\ hist'.sent = hist.sent /\ hist'.dropped = hist.dropped
      /\ Clean(hist') => Clean(hist) /\ lib[Locid].enc = 0
  <2> DEFINE b == hist.bypassed \/ lib[Locid].enc # 0
  <2>1. hist' = [hist EXCEPT !.bypassed = b]
    BY <1>1
  <2>2. ~b => ~hist.bypassed /\ lib[Locid].enc = 0
    OBVIOUS
  <2> HIDE DEF b
  <2>3. /\ hist'.got = hist.got /\ hist'.sent = hist.sent /\ hist'.dropped = hist.dropped
        /\ hist'.spanned = hist.spanned /\ hist'.hushed = hist.hushed
        /\ hist'.bypassed = b /\ hist'.refed = hist.refed
    BY <1>2, <2>1 DEF History
  <2> QED
    BY <2>2, <2>3 DEF Clean
<1>7. lib[Locid].enc = 0 => Plain(l.out, l.enc) /\ Mute(l.out)
  BY <1>3, <1>4, <1>5 DEF SameEnd
<1>8. It.say \notin About /\ It.say # "TEXT"
  BY <1>1 DEF About
<1> QED
  BY <1>1, <1>2, <1>4, <1>6, <1>7, <1>8, RxPlain

\* It answers with a word about charsets, or nothing.
LEMMA RxReplies ==
    ASSUME TypeInv, TypeInv', StreamInv, rx.left > 0, It.say \notin About, It.say # "TEXT",
           NEW say, say \notin About, say # "TEXT", NEW arg,
           Item(lib[Locid].enc, say, arg) \in Wording(Game),
           NEW l, l = Send(lib[Locid], say, arg),
           NEW s, "st" \in DOMAIN s, s.st = sess.st, Done(1, l, s, rx),
           SameStreams(hist, hist')
    PROVE  StreamInv'
<1>1. lib[Locid] \in Speaking(Game) /\ lib[Locid].out = <<>>
  BY TypeFacts
<1>2. /\ l \in Speaking(Game) /\ SameEnd(lib[Locid], l) /\ Plain(l.out, l.enc) /\ Mute(l.out)
  BY <1>1, SendPlain
<1>3. /\ hist'.got = hist.got /\ hist'.sent = hist.sent /\ hist'.dropped = hist.dropped
      /\ Clean(hist') => Clean(hist)
  BY DEF SameStreams, Clean
<1> QED
  BY <1>2, <1>3, RxPlain

LEMMA RxDoCharsetFlows ==
    ASSUME TypeInv, TypeInv', StreamInv, RxDoCharset
    PROVE  StreamInv'
<1> DEFINE c == [sess EXCEPT !.cs = TRUE]
           s == Checked(c, {"TELNET"})
           l == SendRequest(lib[Locid], s)
<1>1. /\ rx.left > 0 /\ It.say = "DO CHARSET" /\ Done(1, l, s, rx)
      /\ hist' = [hist EXCEPT !.spoke = @ \cup {"TELNET"}]
  BY DEF RxDoCharset, Reads
<1>2. /\ lib[Locid] \in Speaking(Game) /\ lib[Locid].enc \in Nat /\ hist \in History
      /\ "st" \in DOMAIN sess /\ sess \in Session /\ sess.charset \in Name
  BY TypeFacts DEF Session
<1>3. c.st = sess.st /\ "st" \in DOMAIN c /\ c.charset = sess.charset /\ c.cs = TRUE
        /\ "charset" \in DOMAIN c /\ "cs" \in DOMAIN c
  BY <1>2 DEF Session
<1> HIDE DEF c
<1>4. "st" \in DOMAIN s /\ s.st = sess.st
  BY <1>3, StKept
<1>5. s.charset = sess.charset /\ s.cs = TRUE
  BY <1>3 DEF Checked
<1>6. SameStreams(hist, hist')
  BY <1>1, <1>2, FlowFields
<1>7. It.say \notin About /\ It.say # "TEXT" /\ "REQUEST" \notin About /\ "REQUEST" # "TEXT"
  BY <1>1 DEF About
<1>8. l = Send(lib[Locid], "REQUEST", s.charset)
  BY <1>5 DEF SendRequest
<1>9. Item(lib[Locid].enc, "REQUEST", s.charset) \in Wording(Game)
  BY <1>2, <1>5, EndsAssumption DEF Item, Wording, Said, Arg
<1> HIDE DEF s, l
<1> QED
  BY <1>1, <1>4, <1>6, <1>7, <1>8, <1>9, RxReplies

LEMMA RxOfferFlows ==
    ASSUME TypeInv, TypeInv', StreamInv, RxOffer
    PROVE  StreamInv'
<1> DEFINE c == Accepted(It.arg)
           s == Checked(sess, {"TELNET"})
           say == IF c = NoName THEN "REJECTED" ELSE "ACCEPTED"
           l == Send(lib[Locid], say, c)
           w == [s EXCEPT !.charset = c]
           t == IF c = NoName THEN s ELSE Push(w, "CHARSET", c)
<1>1. /\ rx.left > 0 /\ It.say = "REQUEST" /\ Done(1, l, t, rx)
      /\ hist' = [hist EXCEPT !.spoke = @ \cup {"TELNET"}]
  BY DEF RxOffer, Reads
<1>2. /\ lib[Locid] \in Speaking(Game) /\ lib[Locid].enc \in Nat /\ hist \in History
      /\ "st" \in DOMAIN sess
  BY TypeFacts
<1>3. c \in Name \cup {NoName}
  <2>1. It \in Wording(Locid)
    BY <1>1, ReadingFlow
  <2>2. It.arg \in Offer
    BY <1>1, <2>1 DEF Wording
  <2> QED
    BY <2>2, AcceptedType
<1> HIDE DEF c
<1>4. "st" \in DOMAIN s /\ s.st = sess.st
  BY <1>2, StKept
<1> HIDE DEF s
<1>5. "st" \in DOMAIN t /\ t.st = sess.st
  <2>1. "st" \in DOMAIN w /\ w.st = sess.st
    BY <1>4
  <2> HIDE DEF w
  <2>2. \A cmd, arg : "st" \in DOMAIN Push(w, cmd, arg) /\ Push(w, cmd, arg).st = w.st
    BY <2>1, StKept
  <2> QED
    BY <1>4, <2>1, <2>2
<1>6. SameStreams(hist, hist')
  BY <1>1, <1>2, FlowFields
<1>7. It.say \notin About /\ It.say # "TEXT" /\ say \notin About /\ say # "TEXT"
  BY <1>1 DEF About
<1>8. Item(lib[Locid].enc, say, c) \in Wording(Game)
  BY <1>2, <1>3 DEF Item, Wording, Said, Arg
<1> DEFINE m == l
<1>9. m = Send(lib[Locid], say, c)
  OBVIOUS
<1> HIDE DEF t, say
<1> QED
  BY <1>1, <1>5, <1>6, <1>7, <1>8, <1>9, RxReplies

\* What it cannot read does not come, or something was lost before.
LEMMA RxUnreadableFlows ==
    ASSUME TypeInv, TypeInv', StreamInv, RxUnreadable
    PROVE  StreamInv'
<1>1. rx.left > 0 /\ ~rx.freed /\ It.enc # rx.dec /\ hist' = hist
  BY DEF RxUnreadable
<1>2. /\ wire[Locid] # <<>> /\ It = Head(wire[Locid])
      /\ Clean(hist) => Flow(lib, wire, up, hist)
  BY <1>1, ReadingFlow
<1>3. /\ lib \in [End -> EndType] /\ wire \in Wires /\ Locid \in End /\ "st" \in DOMAIN sess
      /\ lib[Locid] \in Speaking(Game)
  BY TypeFacts
<1>4. ~Clean(hist)
  <2> SUFFICES ASSUME Clean(hist) PROVE FALSE
    OBVIOUS
  <2>1. Tied(lib, wire) /\ rx.dec = lib[Locid].dec
    BY <1>1, <1>2 DEF Flow, StreamInv
  <2>2. It.enc = lib[Locid].dec
    BY <1>2, <1>3, <2>1, TiedReadable
  <2> QED
    BY <1>1, <2>1, <2>2
<1>5. ~Clean(hist')
  BY <1>1, <1>4
<1>6. \A l \in Choke(lib[Locid]) : l \in Speaking(Game)
  BY <1>3, ChokeType
<1>7. \A l \in Speaking(Game) : l.dec \in Nat
  BY DEF Speaking
<1>8. rx \in Calls /\ 1 \in 1 .. rx.left /\ rx.left \in 1 .. rx.left
  BY <1>1, ReadFacts
<1>9. CASE Done(1, lib[Locid], sess, rx)
  BY <1>1, <1>3, <1>5, <1>7, <1>8, <1>9, DoneFlows
<1>10. ASSUME NEW l \in Choke(lib[Locid]), Done(rx.left, l, sess, rx)
       PROVE  StreamInv'
  BY <1>1, <1>3, <1>5, <1>6, <1>7, <1>8, <1>10, DoneFlows
<1> QED
  BY <1>9, <1>10 DEF RxUnreadable

\* Here something is.
LEMMA RxLostFlows ==
    ASSUME TypeInv, TypeInv', StreamInv, RxAccept \/ RxSpoilt
    PROVE  StreamInv'
<1>1. /\ rx.left > 0 /\ hist \in History /\ sess \in Session /\ "st" \in DOMAIN sess
      /\ lib[Locid] \in Speaking(Game)
      /\ rx \in Calls /\ rx.left \in 1 .. rx.left /\ It \in Wording(Locid)
  BY TypeFacts, ReadFacts DEF RxAccept, RxSpoilt, Reads
<1>2. \A l \in Speaking(Game) : l.dec \in Nat
  BY DEF Speaking
<1>3. CASE RxSpoilt
  <2>1. Done(rx.left, EndRecv(lib[Locid]), sess, rx) /\ ~Clean(hist')
    BY <1>1, <1>3 DEF RxSpoilt, Clean, History
  <2>2. EndRecv(lib[Locid]) \in Speaking(Game)
    BY <1>1, EndRecvType
  <2> QED
    BY <1>1, <1>2, <2>1, <2>2, DoneFlows
<1>4. CASE RxAccept
  <2> DEFINE a == Hear(lib[Locid], It)
             s == Checked(sess, Proves(lib[Locid], It))
             spoke == hist.spoke \cup Proves(lib[Locid], It)
  <2>1. PICK l \in Choke(a) : Done(rx.left, l, s, rx)
    BY <1>4 DEF RxAccept
  <2>2. hist' = [hist EXCEPT !.spoke = spoke, !.refed = TRUE]
    BY <1>4 DEF RxAccept
  <2>3. It.say \in About /\ It.say # "BEGIN"
    BY <1>4 DEF RxAccept, Reads, About
  <2>4. a \in Speaking(Game)
    BY <1>1, <2>3, HearType
  <2>5. "st" \in DOMAIN s /\ s.st = sess.st
    BY <1>1, StKept
  <2> HIDE DEF a, s, spoke
  <2>6. ~Clean(hist')
    BY <1>1, <2>2 DEF Clean, History
  <2>7. l \in Speaking(Game)
    BY <2>1, <2>4, ChokeType
  <2> QED
    BY <1>1, <1>2, <2>1, <2>5, <2>6, <2>7, DoneFlows
<1> QED
  BY <1>3, <1>4

LEMMA RxFreedFlows ==
    ASSUME TypeInv, TypeInv', StreamInv, RxFreed
    PROVE  StreamInv'
<1>1. /\ rx.left > 0 /\ Done(rx.left, lib[Locid], sess, rx)
      /\ hist' = [hist EXCEPT !.spanned = TRUE]
  BY DEF RxFreed
<1>2. /\ hist \in History /\ "st" \in DOMAIN sess /\ lib[Locid] \in Speaking(Game)
  BY TypeFacts
<1>3. ~Clean(hist')
  BY <1>1, <1>2 DEF Clean, History
<1>4. lib[Locid].dec \in Nat
  BY <1>2 DEF Speaking
<1>5. rx \in Calls /\ rx.left \in 1 .. rx.left
  BY <1>1, ReadFacts
<1> QED
  BY <1>1, <1>2, <1>3, <1>4, <1>5, DoneFlows

\* A read begins; a closing game's bytes are thrown away.
LEMMA RawRxFlows ==
    ASSUME TypeInv, TypeInv', StreamInv, NEW k \in 1 .. Len(wire[Locid]), RawRx(k)
    PROVE  StreamInv'
<1>1. /\ Idle /\ sess.st # "DOWN" /\ sess' = Enforced(sess)
      /\ hist' = [hist EXCEPT !.failed = @ \/ Failed(sess)]
      /\ UNCHANGED <<lib, page, down, up, charset, plan>>
  BY DEF RawRx
<1>2. /\ wire \in Wires /\ hist \in History /\ sess \in Session /\ Locid \in End /\ Game \in End
      /\ Locid # Game /\ sess.st \in {"BLOCKING", "UP", "CLOSING", "DOWN"}
      /\ rx.left = 0
  BY <1>1, TypeFacts DEF Idle
<1>3. /\ sess'.st \in {sess.st, "CLOSING"}
  BY <1>1, <1>2 DEF Enforced, Failed, Session
<1>4. SameStreams(hist, hist')
  BY <1>1, <1>2, FlowFields
<1>5. /\ hist'.got = hist.got /\ hist'.sent = hist.sent /\ hist'.dropped = hist.dropped
      /\ Clean(hist') => Clean(hist)
  BY <1>4 DEF SameStreams, Clean
<1>6. /\ wire'[Game] = wire[Game]
      /\ sess'.st # "CLOSING" => wire' = wire /\ rx'.dec = lib[Locid].dec
      /\ sess'.st = "CLOSING" => rx'.left = 0
  <2>1. CASE sess'.st = "CLOSING"
    BY <1>2, <2>1 DEF RawRx, Wires
  <2>2. CASE sess'.st # "CLOSING"
    BY <2>2 DEF RawRx
  <2> QED
    BY <2>1, <2>2
<1>7. ASSUME Clean(hist')
      PROVE  \E w \in Wires : /\ w[Game] = wire'[Game]
                              /\ sess'.st # "CLOSING" => w[Locid] = wire'[Locid]
                              /\ Flow(lib', w, up', hist')
  <2>1. PICK w \in Wires : /\ w[Game] = wire[Game]
                           /\ sess.st # "CLOSING" => w[Locid] = wire[Locid]
                           /\ Flow(lib, w, up, hist)
    BY <1>1, <1>5, <1>7 DEF StreamInv
  <2>2. Flow(lib, w, up, hist')
    BY <1>5, <2>1 DEF Flow
  <2>3. sess'.st # "CLOSING" => w[Locid] = wire'[Locid]
    BY <1>3, <1>6, <2>1
  <2> QED
    BY <1>1, <1>6, <2>1, <2>2, <2>3
<1>8. ASSUME Clean(hist')
      PROVE  InStep(hist')
  BY <1>5, <1>8 DEF StreamInv, InStep
<1>9. rx'.left > 0 => sess'.st \in {"BLOCKING", "UP"} /\ rx'.dec = lib'[Locid].dec
  <2>1. ~ (0 > 0)
    OBVIOUS
  <2> QED
    BY <1>1, <1>2, <1>3, <1>6, <2>1
<1>10. sess'.st # "DOWN"
  BY <1>1, <1>3
<1> QED
  BY <1>7, <1>8, <1>9, <1>10 DEF StreamInv

LEMMA RxFlows ==
    ASSUME TypeInv, TypeInv', StreamInv, Rx
    PROVE  StreamInv'
<1>1. CASE \E k \in 1 .. Len(wire[Locid]) : RawRx(k)
  BY <1>1, RawRxFlows
<1>2. CASE \E stray \in Strays : RxMccpx(stray)
  BY <1>2, RxMccpxFlows
<1>3. CASE \E stray \in Strays : RxDont(stray)
  BY <1>3, RxSilentFlows
<1> QED
  BY <1>1, <1>2, <1>3, RxTextFlows, RxSilentFlows, RxAytFlows, RxDoCharsetFlows, RxOfferFlows,
     RxUnreadableFlows, RxLostFlows, RxFreedFlows DEF Rx

-----------------------------------------------------------------------------
(* The game speaks *)

\* Nothing is said or read.
LEMMA QuietFlows ==
    ASSUME TypeInv, StreamInv, UNCHANGED <<lib, wire, up>>, rx' = rx, SameStreams(hist, hist'),
           \/ sess'.st = sess.st
           \/ rx.left = 0 /\ sess.st # "DOWN" /\ sess'.st = "CLOSING"
    PROVE  StreamInv'
<1>1. /\ hist'.got = hist.got /\ hist'.sent = hist.sent /\ hist'.dropped = hist.dropped
      /\ Clean(hist') => Clean(hist)
  BY DEF SameStreams, Clean
<1>2. ASSUME Clean(hist'), sess'.st # "DOWN"
      PROVE  \E w \in Wires : /\ w[Game] = wire'[Game]
                              /\ sess'.st # "CLOSING" => w[Locid] = wire'[Locid]
                              /\ Flow(lib', w, up', hist')
  <2>1. PICK w \in Wires : /\ w[Game] = wire[Game]
                           /\ sess.st # "CLOSING" => w[Locid] = wire[Locid]
                           /\ Flow(lib, w, up, hist)
    BY <1>1, <1>2 DEF StreamInv
  <2>2. Flow(lib', w, up', hist')
    BY <1>1, <2>1 DEF Flow
  <2> QED
    BY <2>1, <2>2
<1>3. rx'.left > 0 => sess'.st \in {"BLOCKING", "UP"}
  <2>1. ~ (0 > 0)
    OBVIOUS
  <2> QED
    BY <2>1 DEF StreamInv
<1> QED
  BY <1>1, <1>2, <1>3 DEF StreamInv, InStep

\* Wires after a turn.
LEMMA TurnWires ==
    ASSUME NEW w \in Wires, NEW e \in End, NEW v \in Seq(Wording(e)),
           NEW o \in Seq(Wording(Other(e)))
    PROVE  \E w2 \in Wires : w2[e] = v /\ w2[Other(e)] = w[Other(e)] \o o
<1> DEFINE x == w[Other(e)] \o o
           w2 == [w EXCEPT ![e] = v, ![Other(e)] = x]
<1>1. Other(e) \in End /\ Other(e) # e /\ End = {e, Other(e)}
  BY OtherFacts
<1>2. x \in Seq(Wording(Other(e)))
  BY <1>1, ConcatProperties DEF Wires
<1> HIDE DEF x
<1>3. w2[e] = v /\ w2[Other(e)] = x
  BY <1>1 DEF Wires
<1>4. w2 \in [End -> UNION {Seq(Wording(d)) : d \in End}]
  BY <1>1, <1>2 DEF Wires
<1> HIDE DEF w2
<1>5. \A d \in End : w2[d] \in Seq(Wording(d))
  BY <1>1, <1>2, <1>3
<1> QED
  BY <1>3, <1>4, <1>5 DEF Wires, x

\* The game says what l has to say.
LEMMA GameFlows ==
    ASSUME TypeInv, StreamInv, sess.st # "DOWN", sess' = sess, rx' = rx, up' = up,
           NEW l \in Speaking(Locid), NEW v \in Seq(Wording(Game)),
           lib' = [lib EXCEPT ![Game] = [l EXCEPT !.out = <<>>]],
           wire' = [wire EXCEPT ![Game] = v, ![Locid] = @ \o l.out],
           Clean(hist') => Clean(hist),
           \A w, w2 \in Wires :
               /\ Clean(hist') /\ w[Game] = wire[Game] /\ Flow(lib, w, up, hist)
               /\ Turn(lib, w, Game, l, v, lib', w2)
               => Flow(lib', w2, up, hist')
    PROVE  StreamInv'
<1>1. /\ lib \in [End -> EndType] /\ wire \in Wires /\ Locid \in End /\ Game \in End
      /\ Locid # Game /\ Other(Game) = Locid
  BY TypeFacts, OtherFacts
<1>2. lib'[Locid] = lib[Locid] /\ lib'[Game] = [l EXCEPT !.out = <<>>]
  BY <1>1
<1>3. wire'[Game] = v /\ wire'[Locid] = wire[Locid] \o l.out
  BY <1>1 DEF Wires
<1>4. ASSUME Clean(hist')
      PROVE  \E w \in Wires : /\ w[Game] = wire'[Game]
                              /\ sess.st # "CLOSING" => w[Locid] = wire'[Locid]
                              /\ Flow(lib', w, up', hist')
  <2>1. PICK w \in Wires : /\ w[Game] = wire[Game]
                           /\ sess.st # "CLOSING" => w[Locid] = wire[Locid]
                           /\ Flow(lib, w, up, hist)
    BY <1>4 DEF StreamInv
  <2>2. PICK w2 \in Wires : w2[Game] = v /\ w2[Locid] = w[Locid] \o l.out
    <3>1. l.out \in Seq(Wording(Other(Game)))
      BY <1>1 DEF Speaking
    <3>2. \E w2 \in Wires : w2[Game] = v /\ w2[Other(Game)] = w[Other(Game)] \o l.out
      BY <1>1, <2>1, <3>1, TurnWires
    <3> QED
      BY <1>1, <3>2
  <2>3. Turn(lib, w, Game, l, v, lib', w2)
    BY <1>1, <1>2, <2>2 DEF Turn
  <2>4. Flow(lib', w2, up, hist')
    BY <1>4, <2>1, <2>2, <2>3
  <2> QED
    BY <1>3, <2>1, <2>2, <2>4
<1>5. ASSUME Clean(hist')
      PROVE  InStep(hist')
  BY <1>4, <1>5, FlowFirst
<1>6. (rx'.left > 0 => sess'.st \in {"BLOCKING", "UP"})
  BY DEF StreamInv
<1>7. Clean(hist') => (rx'.left > 0 => rx'.freed \/ rx'.dec = lib'[Locid].dec)
  BY <1>2 DEF StreamInv
<1> QED
  BY <1>4, <1>5, <1>6, <1>7 DEF StreamInv

LEMMA EmitFacts ==
    ASSUME TypeInv, NEW l, Emit(l)
    PROVE  /\ sess' = sess /\ rx' = rx /\ up' = up
           /\ lib' = [lib EXCEPT ![Game] = [l EXCEPT !.out = <<>>]]
           /\ wire' = [wire EXCEPT ![Game] = wire[Game], ![Locid] = @ \o l.out]
           /\ wire[Game] \in Seq(Wording(Game))
<1>1. wire \in Wires /\ Locid \in End /\ Game \in End /\ Locid # Game
  BY TypeFacts
<1> QED
  BY <1>1 DEF Emit, Wires

\* It says something that is neither text nor about MCCPX.
LEMMA GameSaysFlows ==
    ASSUME TypeInv, StreamInv, Connected, NEW say, say \notin About, say # "TEXT", NEW arg,
           Item(lib[Game].enc, say, arg) \in Wording(Locid), Emit(Send(lib[Game], say, arg)),
           SameStreams(hist, hist')
    PROVE  StreamInv'
<1> DEFINE l == Send(lib[Game], say, arg)
<1>1. /\ lib \in [End -> EndType] /\ hist \in History /\ Locid \in End /\ Game \in End
      /\ Other(Game) = Locid /\ lib[Game] \in Speaking(Locid) /\ lib[Game].out = <<>>
  BY TypeFacts, OtherFacts
<1>2. /\ l \in Speaking(Locid) /\ SameEnd(lib[Game], l) /\ Plain(l.out, l.enc) /\ Mute(l.out)
  BY <1>1, SendPlain
<1>3. /\ hist'.got = hist.got /\ hist'.sent = hist.sent /\ hist'.dropped = hist.dropped
      /\ Clean(hist') => Clean(hist)
  BY DEF SameStreams, Clean
<1>4. /\ sess' = sess /\ rx' = rx /\ up' = up
      /\ lib' = [lib EXCEPT ![Game] = [l EXCEPT !.out = <<>>]]
      /\ wire' = [wire EXCEPT ![Game] = wire[Game], ![Locid] = @ \o l.out]
      /\ wire[Game] \in Seq(Wording(Game))
  BY EmitFacts
<1>5. l.out \in Seq(Wording(Other(Game)))
  BY <1>1, <1>2 DEF Speaking
<1> HIDE DEF l
<1>6. ASSUME NEW w \in Wires, NEW w2 \in Wires, w[Game] = wire[Game], Flow(lib, w, up, hist),
             Turn(lib, w, Game, l, wire[Game], lib', w2)
      PROVE  Flow(lib', w2, up, hist')
  <2>1. Turn(lib, w, Game, l, w[Game], lib', w2) /\ Tied(lib, w)
    BY <1>6 DEF Flow
  <2>2. Tied(lib', w2)
    BY <1>1, <1>2, <2>1, TiedSays
  <2>3. Takes(Game, w, w[Game], hist, hist')
    BY <1>3 DEF Takes
  <2> QED
    BY <1>1, <1>2, <1>5, <1>6, <2>1, <2>2, <2>3, FlowTurn
<1> QED
  BY <1>2, <1>3, <1>4, <1>6, GameFlows DEF Connected

LEMMA GameTextFlows ==
    ASSUME TypeInv, StreamInv, GameText
    PROVE  StreamInv'
<1> DEFINE l == Send(lib[Game], "TEXT", hist.sent[Locid] + 1)
<1>1. /\ lib \in [End -> EndType] /\ hist \in History /\ Locid \in End /\ Game \in End
      /\ Locid # Game /\ Other(Game) = Locid /\ lib[Game] \in Speaking(Locid)
      /\ lib[Game].out = <<>> /\ lib[Game].enc \in Nat
  BY TypeFacts, OtherFacts
<1>2. /\ Connected /\ Emit(l)
      /\ hist' = [hist EXCEPT !.sent[Locid] = @ + 1]
  BY DEF GameText
<1>3. l \in Speaking(Locid)
  <2>1. hist.sent[Locid] + 1 \in Nat
    BY <1>1 DEF History
  <2>2. Item(lib[Game].enc, "TEXT", hist.sent[Locid] + 1) \in Wording(Locid)
    BY <1>1, <2>1 DEF Item, Wording, Said, Arg
  <2> QED
    BY <1>1, <2>2, SendType
<1>4. /\ sess' = sess /\ rx' = rx /\ up' = up
      /\ lib' = [lib EXCEPT ![Game] = [l EXCEPT !.out = <<>>]]
      /\ wire' = [wire EXCEPT ![Game] = wire[Game], ![Locid] = @ \o l.out]
      /\ wire[Game] \in Seq(Wording(Game))
  BY <1>2, EmitFacts
<1>5. /\ hist'.dropped = hist.dropped /\ hist'.sent[Locid] = hist.sent[Locid] + 1
      /\ hist'.sent[Game] = hist.sent[Game] /\ hist'.got = hist.got
      /\ Clean(hist') => Clean(hist)
  BY <1>1, <1>2 DEF History, Clean
<1>6. l = Send(lib[Game], "TEXT", hist.sent[Locid] + 1)
  OBVIOUS
<1> HIDE DEF l
<1>7. ASSUME NEW w \in Wires, NEW w2 \in Wires, w[Game] = wire[Game], Flow(lib, w, up, hist),
             Turn(lib, w, Game, l, wire[Game], lib', w2)
      PROVE  Flow(lib', w2, up, hist')
  <2>1. Turn(lib, w, Game, l, w[Game], lib', w2)
    BY <1>7
  <2> QED
    BY <1>1, <1>5, <1>6, <1>7, <2>1, FlowText
<1> QED
  BY <1>2, <1>3, <1>4, <1>5, <1>7, GameFlows DEF Connected

LEMMA GameWishFlows ==
    ASSUME TypeInv, StreamInv, GameWish
    PROVE  StreamInv'
<1>1. /\ lib \in [End -> EndType] /\ hist \in History /\ Locid \in End /\ Game \in End
      /\ Other(Game) = Locid /\ lib[Game] \in Speaking(Locid)
      /\ lib[Game].us \in QState /\ sess.st # "DOWN"
  BY TypeFacts, OtherFacts DEF Speaking, GameWish, Connected
<1>2. ASSUME NEW l, Emit(l), l \in Speaking(Locid),
             hist'.got = hist.got, hist'.sent = hist.sent, hist'.dropped = hist.dropped,
             Clean(hist') => Clean(hist),
             Clean(hist') => \/ l = Ours(lib[Game], AskYes(lib[Game].us))
                             \/ l = EndSend(lib[Game]) /\ ~Hushed(lib[Game], l)
      PROVE  StreamInv'
  <2>1. /\ sess' = sess /\ rx' = rx /\ up' = up
        /\ lib' = [lib EXCEPT ![Game] = [l EXCEPT !.out = <<>>]]
        /\ wire' = [wire EXCEPT ![Game] = wire[Game], ![Locid] = @ \o l.out]
        /\ wire[Game] \in Seq(Wording(Game))
    BY <1>2, EmitFacts
  <2>2. l.out \in Seq(Wording(Other(Game)))
    BY <1>1, <1>2 DEF Speaking
  <2>3. ASSUME NEW w \in Wires, NEW w2 \in Wires, Clean(hist'), w[Game] = wire[Game],
               Flow(lib, w, up, hist), Turn(lib, w, Game, l, wire[Game], lib', w2)
        PROVE  Flow(lib', w2, up, hist')
    <3>1. Turn(lib, w, Game, l, w[Game], lib', w2) /\ Tied(lib, w)
      BY <2>3 DEF Flow
    <3>2. Tied(lib', w2) /\ Mute(l.out)
      BY <1>1, <1>2, <2>3, <3>1, TiedAsks
    <3>3. Takes(Game, w, w[Game], hist, hist')
      BY <1>2 DEF Takes
    <3> QED
      BY <1>1, <2>2, <2>3, <3>1, <3>2, <3>3, FlowTurn
  <2> QED
    BY <1>1, <1>2, <2>1, <2>3, GameFlows
<1>3. CASE Emit(Ours(lib[Game], AskYes(lib[Game].us))) /\ UNCHANGED hist
  <2>1. Ours(lib[Game], AskYes(lib[Game].us)) \in Speaking(Locid)
    BY <1>1, HearingTypes, OursType
  <2> QED
    BY <1>2, <1>3, <2>1
<1>4. CASE /\ Emit(EndSend(lib[Game]))
           /\ hist' = [hist EXCEPT !.hushed = @ \/ Hushed(lib[Game], EndSend(lib[Game]))]
  <2> DEFINE l == EndSend(lib[Game])
             h == hist.hushed \/ Hushed(lib[Game], l)
  <2>1. l \in Speaking(Locid)
    BY <1>1, EndSendType
  <2>2. hist' = [hist EXCEPT !.hushed = h] /\ (~h => ~hist.hushed /\ ~Hushed(lib[Game], l))
    BY <1>4
  <2>3. Emit(l) /\ l = EndSend(lib[Game])
    BY <1>4
  <2> HIDE DEF h, l
  <2>4. /\ hist'.got = hist.got /\ hist'.sent = hist.sent /\ hist'.dropped = hist.dropped
        /\ Clean(hist') => Clean(hist) /\ ~Hushed(lib[Game], l)
    BY <1>1, <2>2 DEF History, Clean
  <2> QED
    BY <1>2, <2>1, <2>3, <2>4
<1> QED
  BY <1>3, <1>4 DEF GameWish

LEMMA GameEchoFlows ==
    ASSUME TypeInv, StreamInv, GameEcho
    PROVE  StreamInv'
<1>1. /\ plan \in PlanType /\ hist' = hist /\ Connected
      /\ Emit(Send(lib[Game], "ECHO", plan.echo % 2))
  BY DEF TypeInv, GameEcho
<1>2. plan.echo % 2 \in {0, 1}
  BY <1>1 DEF PlanType
<1>3. Item(lib[Game].enc, "ECHO", plan.echo % 2) \in Wording(Locid)
  BY <1>2, TypeFacts DEF Item, Wording, Said, Arg
<1>4. "ECHO" \notin About
  BY DEF About
<1>5. SameStreams(hist, hist')
  BY <1>1 DEF SameStreams
<1> QED
  BY <1>1, <1>3, <1>4, <1>5, GameSaysFlows

LEMMA GameSignsFlows ==
    ASSUME TypeInv, StreamInv, NEW sign \in Sign, GameSigns(sign)
    PROVE  StreamInv'
<1> DEFINE say == CASE sign = "DONT"    -> "NAWS"
                    [] sign = "CHARSET" -> "DO CHARSET"
                    [] OTHER            -> sign
<1>1. Connected /\ Emit(Send(lib[Game], say, 0)) /\ hist' = hist
  BY DEF GameSigns
<1>2. say \in {"NAWS", "DO CHARSET", "GMCP", "MSSP", "AYT"}
  BY DEF Sign
<1> HIDE DEF say
<1>3. Item(lib[Game].enc, say, 0) \in Wording(Locid)
  BY <1>2, TypeFacts DEF Item, Wording, Said, Arg
<1>4. say \notin About /\ say # "TEXT"
  BY <1>2 DEF About
<1>5. SameStreams(hist, hist')
  BY <1>1 DEF SameStreams
<1> QED
  BY <1>1, <1>3, <1>4, <1>5, GameSaysFlows

LEMMA GameOffersFlows ==
    ASSUME TypeInv, StreamInv, NEW o \in Offer, GameOffers(o)
    PROVE  StreamInv'
<1>1. /\ Connected /\ Emit(Send(lib[Game], "REQUEST", o))
      /\ hist' = [hist EXCEPT !.unsettled = @ \/ Choosing]
  BY DEF GameOffers
<1>2. Item(lib[Game].enc, "REQUEST", o) \in Wording(Locid)
  BY TypeFacts DEF Item, Wording, Said, Arg
<1>3. "REQUEST" \notin About
  BY DEF About
<1>4. SameStreams(hist, hist')
  BY <1>1, TypeFacts, FlowFields
<1> QED
  BY <1>1, <1>2, <1>3, <1>4, GameSaysFlows

-----------------------------------------------------------------------------
(* The game reads *)

\* The game reads something that is not about MCCPX.
LEMMA GameTakesFlows ==
    ASSUME TypeInv, StreamInv, wire[Game] # <<>>, sess' = sess, rx' = rx, up' = up,
           Head(wire[Game]).say \notin About,
           NEW l \in Speaking(Locid),
           lib' = [lib EXCEPT ![Game] = [l EXCEPT !.out = <<>>]],
           wire' = [wire EXCEPT ![Game] = Tail(@), ![Locid] = @ \o l.out],
           SameEnd(lib[Game], l), Plain(l.out, l.enc), Mute(l.out),
           Takes(Game, wire, Tail(wire[Game]), hist, hist'), Clean(hist') => Clean(hist)
    PROVE  StreamInv'
<1> DEFINE v == Tail(wire[Game])
<1>1. /\ lib \in [End -> EndType] /\ wire \in Wires /\ hist \in History /\ Locid \in End
      /\ Game \in End /\ Locid # Game /\ Other(Game) = Locid
  BY TypeFacts, OtherFacts
<1>2. v \in Seq(Wording(Game)) /\ sess.st # "DOWN"
  BY <1>1, HeadTailProperties DEF Wires, StreamInv
<1>3. wire' = [wire EXCEPT ![Game] = v, ![Locid] = @ \o l.out]
  BY <1>1 DEF Wires
<1>4. l.out \in Seq(Wording(Other(Game)))
  BY <1>1 DEF Speaking
<1>5. ASSUME NEW w \in Wires, NEW w2 \in Wires, w[Game] = wire[Game], Flow(lib, w, up, hist),
             Turn(lib, w, Game, l, v, lib', w2)
      PROVE  Flow(lib', w2, up, hist')
  <2>1. Turn(lib, w, Game, l, Tail(w[Game]), lib', w2) /\ Tied(lib, w)
    BY <1>5 DEF Flow
  <2>2. w[Game] # <<>> /\ Head(w[Game]).say \notin About
    BY <1>5
  <2>3. Tied(lib', w2)
    BY <1>1, <2>1, <2>2, TiedReads
  <2>4. Takes(Game, w, Tail(w[Game]), hist, hist')
    BY <1>5 DEF Takes
  <2> QED
    BY <1>1, <1>4, <1>5, <2>1, <2>3, <2>4, FlowTurn
<1> HIDE DEF v
<1> QED
  BY <1>2, <1>3, <1>5, GameFlows

LEMMA GameHearsFlows ==
    ASSUME TypeInv, StreamInv, wire[Game] # <<>>, sess' = sess, rx' = rx, up' = up,
           Head(wire[Game]).say \in About,
           NEW l, l = Hear(lib[Game], Head(wire[Game])),
           lib' = [lib EXCEPT ![Game] = [l EXCEPT !.out = <<>>]],
           wire' = [wire EXCEPT ![Game] = Tail(@), ![Locid] = @ \o l.out],
           hist' = [hist EXCEPT !.hushed = @ \/ Hushed(lib[Game], l)]
    PROVE  StreamInv'
<1> DEFINE v == Tail(wire[Game])
           h == hist.hushed \/ Hushed(lib[Game], l)
<1>1. /\ lib \in [End -> EndType] /\ wire \in Wires /\ hist \in History /\ Locid \in End
      /\ Game \in End /\ Locid # Game /\ Other(Game) = Locid
      /\ lib[Game] \in Speaking(Locid)
  BY TypeFacts, OtherFacts
<1>2. v \in Seq(Wording(Game)) /\ sess.st # "DOWN" /\ Head(wire[Game]) \in Wording(Game)
  BY <1>1, HeadTailProperties DEF Wires, StreamInv
<1>3. wire' = [wire EXCEPT ![Game] = v, ![Locid] = @ \o l.out]
  BY <1>1 DEF Wires
<1>4. l \in Speaking(Locid)
  <2>1. Head(wire[Game]).say = "BEGIN" => Head(wire[Game]).arg \in Nat
    BY <1>2 DEF Wording
  <2> QED
    BY <1>1, <2>1, HearType
<1>5. l.out \in Seq(Wording(Other(Game)))
  BY <1>1, <1>4 DEF Speaking
<1>6. /\ hist'.got = hist.got /\ hist'.sent = hist.sent /\ hist'.dropped = hist.dropped
      /\ Clean(hist') => Clean(hist) /\ ~Hushed(lib[Game], l)
  <2>1. hist' = [hist EXCEPT !.hushed = h] /\ (~h => ~hist.hushed /\ ~Hushed(lib[Game], l))
    OBVIOUS
  <2> HIDE DEF h
  <2> QED
    BY <1>1, <2>1 DEF History, Clean
<1>7. ASSUME NEW w \in Wires, NEW w2 \in Wires, Clean(hist'), w[Game] = wire[Game],
             Flow(lib, w, up, hist), Turn(lib, w, Game, l, v, lib', w2)
      PROVE  Flow(lib', w2, up, hist')
  <2> DEFINE i == Head(w[Game])
  <2>1. /\ Turn(lib, w, Game, Hear(lib[Game], i), Tail(w[Game]), lib', w2)
        /\ Tied(lib, w) /\ w[Game] # <<>> /\ i.say \in About
        /\ l = Hear(lib[Game], i) /\ ~Hushed(lib[Game], Hear(lib[Game], i))
    BY <1>6, <1>7 DEF Flow
  <2>2. Tied(lib', w2) /\ Mute(Hear(lib[Game], i).out)
    BY <1>1, <2>1, TiedHears
  <2>3. Tied(lib', w2) /\ Mute(l.out)
    BY <2>1, <2>2
  <2>4. i.say # "TEXT"
    BY <2>1 DEF About
  <2>5. Takes(Game, w, Tail(w[Game]), hist, hist')
    BY <1>6, <2>1, <2>4 DEF Takes
  <2>6. Turn(lib, w, Game, l, Tail(w[Game]), lib', w2)
    BY <1>7
  <2> QED
    BY <1>1, <1>5, <1>7, <2>3, <2>5, <2>6, FlowTurn
<1> HIDE DEF v
<1> QED
  BY <1>2, <1>3, <1>4, <1>6, <1>7, GameFlows

LEMMA GameReadsFlows ==
    ASSUME TypeInv, StreamInv, GameReads
    PROVE  StreamInv'
<1> DEFINE item == Head(wire[Game])
           g == lib[Game]
           Answer(l) ==
               /\ lib' = [lib EXCEPT ![Game] = [l EXCEPT !.out = <<>>]]
               /\ wire' = [wire EXCEPT ![Game] = Tail(@), ![Locid] = @ \o l.out]
<1>1. wire[Game] # <<>> /\ UNCHANGED <<rx, sess, page, down, up, plan>>
  BY DEF GameReads
<1>2. /\ lib \in [End -> EndType] /\ wire \in Wires /\ hist \in History /\ Locid \in End
      /\ Game \in End /\ Locid # Game /\ Other(Game) = Locid
      /\ g \in Speaking(Locid) /\ g.out = <<>> /\ g.enc \in Nat /\ item \in Wording(Game)
  <2>1. wire[Game] \in Seq(Wording(Game))
    BY TypeFacts DEF Wires
  <2> QED
    BY <1>1, <2>1, TypeFacts, OtherFacts, HeadTailProperties
<1>3. sess.st # "DOWN"
  BY <1>1 DEF StreamInv
<1>4. SameEnd(g, g) /\ Plain(g.out, g.enc) /\ Mute(g.out)
  BY <1>2, PlainNothing DEF SameEnd
<1>5. ASSUME SameStreams(hist, hist'), item.say # "TEXT"
      PROVE  Takes(Game, wire, Tail(wire[Game]), hist, hist') /\ (Clean(hist') => Clean(hist))
  BY <1>1, <1>5 DEF Takes, SameStreams, Clean
<1> HIDE DEF g
<1>6. ASSUME Answer(g), SameStreams(hist, hist'), item.say \notin About, item.say # "TEXT"
      PROVE  StreamInv'
  BY <1>1, <1>2, <1>4, <1>5, <1>6, GameTakesFlows DEF g
<1>7. ASSUME NEW say \in {"ACCEPTED", "REJECTED"}, NEW c \in Name,
             Answer(Send(g, say, c)), SameStreams(hist, hist'), item.say = "REQUEST"
      PROVE  StreamInv'
  <2>1. Item(g.enc, say, c) \in Wording(Locid) /\ item.say \notin About /\ say \notin About
    BY <1>2, <1>7 DEF Item, Wording, Said, About, Arg
  <2> DEFINE l == Send(g, say, c)
  <2>2. /\ l \in Speaking(Locid) /\ SameEnd(g, l) /\ Plain(l.out, l.enc) /\ Mute(l.out)
    BY <1>2, <2>1, SendPlain
  <2>3. /\ lib' = [lib EXCEPT ![Game] = [l EXCEPT !.out = <<>>]]
        /\ wire' = [wire EXCEPT ![Game] = Tail(@), ![Locid] = @ \o l.out]
    BY <1>7
  <2>4. item.say # "TEXT"
    BY <1>7
  <2> HIDE DEF l
  <2> QED
    BY <1>1, <1>2, <1>5, <1>7, <2>1, <2>2, <2>3, <2>4, GameTakesFlows DEF g
<1>8. CASE /\ item.enc # g.dec /\ hist' = hist
           /\ Answer(IF g.dec = 0 THEN g ELSE EndRecv(g))
  <2> DEFINE l == IF g.dec = 0 THEN g ELSE EndRecv(g)
             v == Tail(wire[Game])
  <2>1. l \in Speaking(Locid)
    BY <1>2, EndRecvType
  <2>2. /\ lib' = [lib EXCEPT ![Game] = [l EXCEPT !.out = <<>>]]
        /\ wire' = [wire EXCEPT ![Game] = v, ![Locid] = @ \o l.out]
    BY <1>2, <1>8 DEF Wires
  <2>3. v \in Seq(Wording(Game))
    BY <1>1, <1>2, HeadTailProperties DEF Wires
  <2>4. ASSUME NEW w \in Wires, w[Game] = wire[Game], Flow(lib, w, up, hist)
        PROVE  FALSE
    <3>1. Tied(lib, w) /\ w[Game] # <<>>
      BY <1>1, <2>4 DEF Flow
    <3>2. Head(w[Game]).enc = lib[Game].dec
      BY <1>2, <3>1, TiedReadable
    <3> QED
      BY <1>8, <2>4, <3>2 DEF g
  <2> HIDE DEF l, v
  <2>5. \A w, w2 \in Wires :
            /\ Clean(hist') /\ w[Game] = wire[Game] /\ Flow(lib, w, up, hist)
            /\ Turn(lib, w, Game, l, v, lib', w2)
            => Flow(lib', w2, up, hist')
    BY <2>4
  <2> QED
    BY <1>1, <1>3, <1>8, <2>1, <2>2, <2>3, <2>5, GameFlows
<1>9. CASE /\ item.say \in About /\ Answer(Hear(g, item))
           /\ hist' = [hist EXCEPT !.hushed = @ \/ Hushed(g, Hear(g, item))]
  <2> DEFINE l == Hear(g, item)
  <2>1. /\ l = Hear(lib[Game], Head(wire[Game]))
        /\ lib' = [lib EXCEPT ![Game] = [l EXCEPT !.out = <<>>]]
        /\ wire' = [wire EXCEPT ![Game] = Tail(@), ![Locid] = @ \o l.out]
        /\ hist' = [hist EXCEPT !.hushed = @ \/ Hushed(lib[Game], l)]
    BY <1>9 DEF g
  <2> HIDE DEF l
  <2> QED
    BY <1>1, <1>9, <2>1, GameHearsFlows
<1>10. CASE /\ item.say = "TEXT" /\ Answer(g)
            /\ hist' = [hist EXCEPT !.got[Game] = Append(@, item.arg)]
  <2>1. /\ hist'.dropped = hist.dropped /\ hist'.sent = hist.sent
        /\ hist'.got[Locid] = hist.got[Locid]
        /\ hist'.got[Game] = Append(hist.got[Game], item.arg)
        /\ hist'.spanned = hist.spanned /\ hist'.hushed = hist.hushed
        /\ hist'.bypassed = hist.bypassed /\ hist'.refed = hist.refed
    BY <1>2, <1>10 DEF History
  <2>2. Takes(Game, wire, Tail(wire[Game]), hist, hist') /\ (Clean(hist') => Clean(hist))
    BY <1>1, <1>2, <1>10, <2>1 DEF Takes, Clean
  <2>3. item.say \notin About
    BY <1>10 DEF About
  <2> QED
    BY <1>1, <1>2, <1>4, <1>10, <2>2, <2>3, GameTakesFlows DEF g
<1>11. CASE /\ item.say = "REQUEST"
            /\ \/ \E c \in Supported \cup {item.arg} :
                     /\ Answer(Send(g, "ACCEPTED", c))
                     /\ hist' = [hist EXCEPT !.disputed = c # item.arg]
               \/ /\ Answer(Send(g, "REJECTED", item.arg))
                  /\ hist' = [hist EXCEPT !.disputed = TRUE]
  <2>1. item.arg \in Name
    BY <1>2, <1>11 DEF Wording
  <2>2. CASE /\ Answer(Send(g, "REJECTED", item.arg))
             /\ hist' = [hist EXCEPT !.disputed = TRUE]
    BY <1>2, <1>7, <1>11, <2>1, <2>2, FlowFields
  <2>3. CASE \E c \in Supported \cup {item.arg} :
                 /\ Answer(Send(g, "ACCEPTED", c))
                 /\ hist' = [hist EXCEPT !.disputed = c # item.arg]
    <3>1. PICK c \in Supported \cup {item.arg} :
              /\ Answer(Send(g, "ACCEPTED", c))
              /\ hist' = [hist EXCEPT !.disputed = c # item.arg]
      BY <2>3
    <3>2. c \in Name
      BY <2>1, <3>1, CharsetAssumption
    <3>3. SameStreams(hist, hist')
      BY <1>2, <3>1, FlowFields
    <3> QED
      BY <1>7, <1>11, <3>1, <3>2, <3>3
  <2> QED
    BY <1>11, <2>2, <2>3
<1>12. CASE /\ item.say \in {"ACCEPTED", "REJECTED", "YES"} /\ Answer(g)
            /\ hist' = hist \/ hist' = [hist EXCEPT !.disputed = FALSE]
  <2>1. SameStreams(hist, hist')
    <3>1. CASE hist' = hist
      BY <3>1 DEF SameStreams
    <3>2. CASE hist' = [hist EXCEPT !.disputed = FALSE]
      BY <1>2, <3>2, FlowFields
    <3> QED
      BY <1>12, <3>1, <3>2
  <2>2. item.say \notin About /\ item.say # "TEXT"
    BY <1>12 DEF About
  <2> QED
    BY <1>6, <1>12, <2>1, <2>2
<1> QED
  BY <1>8, <1>9, <1>10, <1>11, <1>12 DEF GameReads, g

-----------------------------------------------------------------------------
(* Locid's other callbacks, the browser and the rest *)

\* What Enforced does to the state.
LEMMA EnforcedStates ==
    ASSUME TypeInv
    PROVE  /\ "st" \in DOMAIN Enforced(sess) /\ Enforced(sess) \in Session
           /\ Enforced(sess).st = sess.st \/ (sess.st = "BLOCKING" /\ Enforced(sess).st = "CLOSING")
<1>1. sess \in Session
  BY TypeFacts
<1>2. LET t == Enforced(sess) IN
      t \in Session /\ (Failed(sess) => t.st = "CLOSING") /\ (~Failed(sess) => t = sess)
  BY <1>1, EnforcedFields
<1>3. Failed(sess) => sess.st = "BLOCKING"
  BY DEF Failed
<1>4. \A s \in Session : "st" \in DOMAIN s
  BY DEF Session
<1> QED
  BY <1>2, <1>3, <1>4

\* Locid says what l has to say, outside of a read.
LEMMA LocidFlows ==
    ASSUME TypeInv, StreamInv, Idle, rx' = rx,
           sess'.st = sess.st \/ (sess.st # "DOWN" /\ sess'.st = "CLOSING"),
           NEW l \in Speaking(Game), l.dec \in Nat,
           lib' = [lib EXCEPT ![Locid] = [l EXCEPT !.out = <<>>]],
           wire' = [wire EXCEPT ![Game] = @ \o (IF sess'.st = "DOWN" THEN <<>> ELSE l.out)],
           SameStreams(hist, hist'),
           \A w, w2 \in Wires :
               Flow(lib, w, up, hist) /\ Turn(lib, w, Locid, l, w[Locid], lib', w2)
               => Flow(lib', w2, up', hist)
    PROVE  StreamInv'
<1>1. /\ lib \in [End -> EndType] /\ wire \in Wires /\ Locid \in End /\ Game \in End
      /\ Locid # Game /\ Other(Locid) = Game
  BY TypeFacts, OtherFacts
<1>2. lib'[Game] = lib[Game] /\ lib'[Locid] = [l EXCEPT !.out = <<>>]
  BY <1>1
<1>3. /\ wire'[Locid] = wire[Locid]
      /\ sess.st # "DOWN" => wire'[Game] = wire[Game] \o l.out
      /\ sess'.st = "DOWN" => wire'[Game] = <<>>
  <2> DEFINE o == IF sess'.st = "DOWN" THEN <<>> ELSE l.out
  <2>1. wire' = [wire EXCEPT ![Game] = @ \o o]
    OBVIOUS
  <2>2. (sess.st # "DOWN" => o = l.out) /\ (sess'.st = "DOWN" => o = <<>> /\ sess.st = "DOWN")
    OBVIOUS
  <2> HIDE DEF o
  <2>3. wire'[Locid] = wire[Locid] /\ wire'[Game] = wire[Game] \o o
    BY <1>1, <2>1 DEF Wires
  <2>4. sess.st = "DOWN" => wire[Game] = <<>>
    BY DEF StreamInv
  <2>5. <<>> \o <<>> = <<>>
    OBVIOUS
  <2> QED
    BY <2>2, <2>3, <2>4, <2>5
<1>4. /\ hist'.got = hist.got /\ hist'.sent = hist.sent /\ hist'.dropped = hist.dropped
      /\ Clean(hist') => Clean(hist)
  BY DEF SameStreams, Clean
<1>5. ASSUME Clean(hist'), sess'.st # "DOWN"
      PROVE  \E w \in Wires : /\ w[Game] = wire'[Game]
                              /\ sess'.st # "CLOSING" => w[Locid] = wire'[Locid]
                              /\ Flow(lib', w, up', hist')
  <2>1. PICK w \in Wires : /\ w[Game] = wire[Game]
                           /\ sess.st # "CLOSING" => w[Locid] = wire[Locid]
                           /\ Flow(lib, w, up, hist)
    BY <1>4, <1>5 DEF StreamInv
  <2>2. PICK w2 \in Wires : w2[Locid] = w[Locid] /\ w2[Game] = w[Game] \o l.out
    <3>1. w[Locid] \in Seq(Wording(Locid)) /\ l.out \in Seq(Wording(Other(Locid)))
      BY <1>1, <2>1 DEF Wires, Speaking
    <3>2. \E w2 \in Wires : w2[Locid] = w[Locid] /\ w2[Other(Locid)] = w[Other(Locid)] \o l.out
      BY <1>1, <2>1, <3>1, TurnWires
    <3> QED
      BY <1>1, <3>2
  <2>3. Turn(lib, w, Locid, l, w[Locid], lib', w2)
    BY <1>1, <1>2, <2>2 DEF Turn
  <2>4. Flow(lib', w2, up', hist)
    BY <2>1, <2>2, <2>3
  <2>5. Flow(lib', w2, up', hist')
    BY <1>4, <2>4 DEF Flow
  <2>6. sess'.st # "CLOSING" => w2[Locid] = wire'[Locid]
    BY <1>3, <1>5, <2>1, <2>2
  <2> QED
    BY <1>3, <1>5, <2>1, <2>2, <2>5, <2>6
<1>6. ~(rx'.left > 0)
  BY DEF Idle
<1>7. ASSUME Clean(hist')
      PROVE  InStep(hist')
  BY <1>4, <1>7 DEF StreamInv, InStep
<1> QED
  BY <1>3, <1>5, <1>6, <1>7 DEF StreamInv

LEMMA ReceiveFlows ==
    ASSUME TypeInv, StreamInv, Receive
    PROVE  StreamInv'
<1> DEFINE m == Head(up)
           s == Enforced(sess)
           c == [s EXCEPT !.charset = m.arg]
           d == [s EXCEPT !.st = "CLOSING"]
           t == CASE m.cmd = "CHARSET" -> c
                  [] m.cmd = "DISCONNECT" /\ s.st # "DOWN" -> Push(d, "CONNECT", 0)
                  [] OTHER -> s
           l == CASE m.cmd = "TERM"    -> Send(lib[Locid], "TEXT", m.arg)
                  [] m.cmd = "CHARSET" -> SendRequest(lib[Locid], t)
                  [] OTHER             -> lib[Locid]
<1>1. /\ Idle /\ up # <<>> /\ sess' = t
      /\ lib' = [lib EXCEPT ![Locid] = [l EXCEPT !.out = <<>>]]
      /\ wire' = [wire EXCEPT ![Game] = @ \o (IF t.st = "DOWN" THEN <<>> ELSE l.out)]
      /\ up' = Tail(up) /\ rx' = rx
      /\ hist' = [hist EXCEPT !.failed = @ \/ Failed(sess)]
  BY DEF Receive
<1>2. /\ lib \in [End -> EndType] /\ wire \in Wires /\ hist \in History /\ Locid \in End
      /\ Game \in End /\ Locid # Game /\ Other(Locid) = Game /\ up \in Seq(Wishes)
      /\ lib[Locid] \in Speaking(Game) /\ lib[Locid].out = <<>> /\ lib[Locid].enc \in Nat
  BY TypeFacts, OtherFacts
<1>3. m \in Wishes
  BY <1>1, <1>2, HeadTailProperties
<1>4. SameStreams(hist, hist')
  BY <1>1, <1>2, FlowFields
<1>5. /\ s \in Session /\ "st" \in DOMAIN s
      /\ s.st = sess.st \/ (sess.st = "BLOCKING" /\ s.st = "CLOSING")
  BY EnforcedStates
<1> HIDE DEF s, m
<1>6. /\ c.st = s.st
      /\ m.cmd = "CHARSET" => c \in Session
      /\ d.st = "CLOSING" /\ "st" \in DOMAIN d
  BY <1>3, <1>5 DEF Session, Wishes
<1>7. Push(d, "CONNECT", 0).st = "CLOSING"
  BY <1>6, StKept
<1> HIDE DEF c, d
<1>8. \/ t = c /\ m.cmd = "CHARSET"
      \/ t = Push(d, "CONNECT", 0) /\ m.cmd # "CHARSET" /\ s.st # "DOWN"
      \/ t = s /\ m.cmd # "CHARSET"
  OBVIOUS
<1> HIDE DEF t
<1>9. /\ t.st = sess.st \/ (sess.st # "DOWN" /\ t.st = "CLOSING")
      /\ m.cmd = "CHARSET" => t \in Session
  BY <1>5, <1>6, <1>7, <1>8
<1>10. CASE m.cmd = "TERM"
  <2>1. l = Send(lib[Locid], "TEXT", Head(up).arg) /\ Head(up).cmd = "TERM"
    BY <1>10 DEF m
  <2> HIDE DEF l
  <2>2. l \in Speaking(Game)
    <3>1. Item(lib[Locid].enc, "TEXT", m.arg) \in Wording(Game)
      BY <1>2, <1>3, <1>10 DEF Wishes, Item, Wording, Said, Arg
    <3> QED
      BY <1>2, <2>1, <3>1, SendType DEF m
  <2>3. l.dec \in Nat
    BY <2>2 DEF Speaking
  <2>4. ASSUME NEW w \in Wires, NEW w2 \in Wires, Flow(lib, w, up, hist),
               Turn(lib, w, Locid, l, w[Locid], lib', w2)
        PROVE  Flow(lib', w2, up', hist)
    BY <1>1, <1>2, <2>1, <2>4, FlowTyped
  <2> QED
    BY <1>1, <1>4, <1>9, <2>2, <2>3, <2>4, LocidFlows
<1>11. CASE m.cmd # "TERM"
  <2>1. /\ l \in Speaking(Game) /\ SameEnd(lib[Locid], l) /\ Plain(l.out, l.enc) /\ Mute(l.out)
    <3>1. CASE l = lib[Locid]
      BY <1>2, <3>1, PlainNothing DEF SameEnd
    <3>2. CASE m.cmd = "CHARSET" /\ l = Send(lib[Locid], "REQUEST", t.charset)
      <4>1. Item(lib[Locid].enc, "REQUEST", t.charset) \in Wording(Game)
        BY <1>2, <1>9, <3>2 DEF Session, Item, Wording, Said, Arg
      <4>2. "REQUEST" \notin About
        BY DEF About
      <4> DEFINE q == Send(lib[Locid], "REQUEST", t.charset)
      <4>3. q \in Speaking(Game) /\ SameEnd(lib[Locid], q) /\ Plain(q.out, q.enc) /\ Mute(q.out)
        BY <1>2, <4>1, <4>2, SendPlain
      <4> QED
        BY <3>2, <4>3
    <3> QED
      BY <1>11, <3>1, <3>2 DEF SendRequest
  <2> HIDE DEF l
  <2>2. l.dec \in Nat /\ l.out \in Seq(Wording(Other(Locid)))
    BY <1>2, <2>1 DEF Speaking
  <2>3. ASSUME NEW w \in Wires, NEW w2 \in Wires, Flow(lib, w, up, hist),
               Turn(lib, w, Locid, l, w[Locid], lib', w2)
        PROVE  Flow(lib', w2, up', hist)
    <3>1. Tied(lib, w)
      BY <2>3 DEF Flow
    <3>2. Tied(lib', w2)
      BY <1>2, <2>1, <2>3, <3>1, TiedSays
    <3>3. Takes(Locid, w, w[Locid], hist, hist)
      BY DEF Takes
    <3>4. Flow(lib', w2, up, hist)
      BY <1>2, <2>1, <2>2, <2>3, <3>2, <3>3, FlowTurn
    <3>5. Head(up).cmd # "TERM"
      BY <1>11 DEF m
    <3> QED
      BY <1>1, <1>2, <3>4, <3>5, FlowWishes
  <2> QED
    BY <1>1, <1>4, <1>9, <2>1, <2>2, <2>3, LocidFlows
<1> QED
  BY <1>10, <1>11

\* A callback that neither reads nor writes the game's socket.
LEMMA CallbackFlows ==
    ASSUME TypeInv, StreamInv, Idle, UNCHANGED <<lib, wire, rx, up>>, SameStreams(hist, hist'),
           sess'.st = Enforced(sess).st
    PROVE  StreamInv'
<1>1. \/ sess'.st = sess.st
      \/ rx.left = 0 /\ sess.st # "DOWN" /\ sess'.st = "CLOSING"
  BY EnforcedStates DEF Idle
<1> QED
  BY <1>1, QuietFlows

LEMMA TimerFlows ==
    ASSUME TypeInv, StreamInv, DeadlinePasses \/ Timer
    PROVE  StreamInv'
<1>1. hist \in History /\ sess \in Session
  BY TypeFacts
<1>2. CASE DeadlinePasses
  <2>1. sess'.st = sess.st /\ SameStreams(hist, hist')
    BY <1>1, <1>2 DEF DeadlinePasses, Session, SameStreams
  <2> QED
    BY <1>2, <2>1, QuietFlows DEF DeadlinePasses
<1>3. CASE Timer
  <2>1. SameStreams(hist, hist')
    BY <1>1, <1>3, FlowFields DEF Timer
  <2> QED
    BY <1>3, <2>1, CallbackFlows DEF Timer
<1> QED
  BY <1>2, <1>3

LEMMA WriteableFlows ==
    ASSUME TypeInv, StreamInv, Writeable
    PROVE  StreamInv'
<1> DEFINE e == Enforced(sess)
           s == [e EXCEPT !.want = FALSE]
           f == hist.failed \/ Failed(sess)
           b == hist.stalled \/ (Waits(sess) /\ sess.q # <<>>)
<1>1. hist \in History /\ e \in Session
  BY TypeFacts, EnforcedStates
<1>2. /\ Idle /\ UNCHANGED <<lib, wire, rx, up>>
      /\ hist' = [hist EXCEPT !.failed = f, !.stalled = b]
      /\ \/ sess' = s
         \/ sess' = [s EXCEPT !.q = Tail(@), !.want = Tail(s.q) # <<>>]
  BY DEF Writeable
<1> HIDE DEF e, f, b
<1>3. "st" \in DOMAIN s /\ s.st = e.st
  BY <1>1 DEF Session
<1> HIDE DEF s
<1>4. sess'.st = e.st
  BY <1>2, <1>3
<1>5. SameStreams(hist, hist')
  BY <1>1, <1>2 DEF SameStreams, History
<1> QED
  BY <1>2, <1>4, <1>5, CallbackFlows DEF e

LEMMA RoamFlows ==
    ASSUME TypeInv, StreamInv, Roam
    PROVE  StreamInv'
<1> DEFINE e == Enforced(sess)
           s == [e EXCEPT !.charset = Default, !.want = TRUE, !.q = Append(@, Msg("CONNECT", 1))]
<1>1. hist \in History /\ e \in Session
  BY TypeFacts, EnforcedStates
<1>2. /\ Idle /\ UNCHANGED <<lib, wire, rx, up>> /\ sess' = PushEcho(s)
      /\ hist' = [hist EXCEPT !.failed = @ \/ Failed(sess)]
  BY DEF Roam
<1> HIDE DEF e
<1>3. "st" \in DOMAIN s /\ s.st = e.st
  <2> DEFINE q == Append(e.q, Msg("CONNECT", 1))
  <2>1. s = [e EXCEPT !.charset = Default, !.want = TRUE, !.q = q]
    OBVIOUS
  <2> HIDE DEF q, s
  <2> QED
    BY <1>1, <2>1 DEF Session
<1> HIDE DEF s
<1>4. sess'.st = e.st
  BY <1>2, <1>3, StKept
<1>5. SameStreams(hist, hist')
  BY <1>1, <1>2, FlowFields
<1> QED
  BY <1>2, <1>4, <1>5, CallbackFlows DEF e

LEMMA PageReadsFlows ==
    ASSUME TypeInv, StreamInv, PageReads
    PROVE  StreamInv'
<1>1. UNCHANGED <<lib, wire, rx, sess, up, hist>>
  BY DEF PageReads
<1>2. SameStreams(hist, hist')
  BY <1>1 DEF SameStreams
<1> QED
  BY <1>1, <1>2, QuietFlows

\* The wires are cut, and nothing more is to come.
LEMMA RawCloseFlows ==
    ASSUME TypeInv, StreamInv, RawClose
    PROVE  StreamInv'
<1> DEFINE e == Enforced(sess)
           s == [e EXCEPT !.st = "DOWN"]
           f == hist.failed \/ Failed(sess)
<1>1. /\ hist \in History /\ e \in Session /\ Game \in End /\ Idle /\ rx' = rx
      /\ wire' = [x \in End |-> <<>>]
      /\ sess' = IF page.ws THEN Push(s, "CONNECT", 0) ELSE s
      /\ hist' = [hist EXCEPT !.failed = f, !.closed = TRUE]
  BY TypeFacts, EnforcedStates DEF RawClose
<1> HIDE DEF e, f
<1>2. "st" \in DOMAIN s /\ s.st = "DOWN"
  BY <1>1 DEF Session
<1> HIDE DEF s
<1>3. sess'.st = "DOWN" /\ wire'[Game] = <<>> /\ ~(rx'.left > 0)
  BY <1>1, <1>2, StKept DEF Idle
<1>4. SameStreams(hist, hist')
  BY <1>1, FlowFields
<1>5. Clean(hist') => InStep(hist')
  BY <1>4 DEF SameStreams, Clean, StreamInv, InStep
<1> QED
  BY <1>3, <1>5 DEF StreamInv

\* What was typed is gone, or can no longer arrive.
LEMMA WebsocketFlows ==
    ASSUME TypeInv, StreamInv, Lost \/ WebsocketCloses
    PROVE  StreamInv'
<1>1. /\ hist \in History /\ sess \in Session /\ UNCHANGED <<lib, wire, rx>>
      /\ Game \in End /\ up \in Seq(Wishes)
  BY TypeFacts DEF Lost, WebsocketCloses
<1>2. CASE WebsocketCloses
  <2>1. sess'.st = "DOWN" /\ sess.st = "DOWN" /\ hist' = hist
    BY <1>1, <1>2 DEF WebsocketCloses, Session
  <2> QED
    BY <1>1, <2>1 DEF StreamInv
<1>3. CASE Lost
  <2>1. /\ sess'.st = sess.st /\ sess.st # "DOWN" /\ Idle
        /\ hist' = [hist EXCEPT !.dropped = TRUE, !.unsettled = TRUE]
    BY <1>1, <1>3 DEF Lost, Session
  <2>2. /\ hist'.got = hist.got /\ hist'.sent = hist.sent /\ hist'.dropped
        /\ Clean(hist') => Clean(hist)
    BY <1>1, <2>1 DEF History, Clean
  <2>3. ASSUME Clean(hist')
        PROVE  \E w \in Wires : /\ w[Game] = wire'[Game]
                                /\ sess'.st # "CLOSING" => w[Locid] = wire'[Locid]
                                /\ Flow(lib', w, up', hist')
    <3>1. PICK w \in Wires : /\ w[Game] = wire[Game]
                             /\ sess.st # "CLOSING" => w[Locid] = wire[Locid]
                             /\ Flow(lib, w, up, hist)
      BY <2>1, <2>2, <2>3 DEF StreamInv
    <3>2. PICK m \in Nat, n \in Nat : /\ Comes(hist.got[Game], w[Game], m)
                                      /\ Path("leapt", m, up, n) /\ n <= hist.sent[Game]
      BY <3>1 DEF Flow
    <3>3. m <= hist.sent[Game] /\ Path("leapt", m, <<>>, m)
      <4>1. m <= n
        BY <1>1, <3>2, PathRises
      <4>2. hist.sent[Game] \in Nat
        BY <1>1 DEF History
      <4> QED
        BY <3>2, <4>1, <4>2, PathNothing
    <3>4. up' = <<>>
      BY <1>3 DEF Lost
    <3>5. Flow(lib', w, up', hist')
      BY <1>1, <2>2, <3>1, <3>2, <3>3, <3>4 DEF Flow
    <3> QED
      BY <1>1, <2>1, <3>1, <3>5
  <2>4. ~(rx'.left > 0)
    BY <1>1, <2>1 DEF Idle
  <2> QED
    BY <1>1, <2>1, <2>2, <2>3, <2>4 DEF StreamInv, InStep
<1> QED
  BY <1>2, <1>3

\* The browser asks for something.
LEMMA AskedFlows ==
    ASSUME TypeInv, StreamInv, UNCHANGED <<lib, wire, rx, sess>>,
           hist'.got = hist.got, hist'.dropped = hist.dropped, Clean(hist') => Clean(hist),
           \A w \in Wires : Flow(lib, w, up, hist) => Flow(lib, w, up', hist')
    PROVE  StreamInv'
<1>1. ASSUME Clean(hist'), sess'.st # "DOWN"
      PROVE  \E w \in Wires : /\ w[Game] = wire'[Game]
                              /\ sess'.st # "CLOSING" => w[Locid] = wire'[Locid]
                              /\ Flow(lib', w, up', hist')
  <2>1. PICK w \in Wires : /\ w[Game] = wire[Game]
                           /\ sess.st # "CLOSING" => w[Locid] = wire[Locid]
                           /\ Flow(lib, w, up, hist)
    BY <1>1 DEF StreamInv
  <2>2. Flow(lib', w, up', hist')
    BY <2>1
  <2> QED
    BY <2>1, <2>2
<1>2. Clean(hist') => /\ rx'.left > 0 => rx'.freed \/ rx'.dec = lib'[Locid].dec
                      /\ InStep(hist')
  BY DEF StreamInv, InStep
<1>3. /\ rx'.left > 0 => sess'.st \in {"BLOCKING", "UP"}
      /\ sess'.st = "DOWN" => wire'[Game] = <<>>
  BY DEF StreamInv
<1> QED
  BY <1>1, <1>2, <1>3 DEF StreamInv

LEMMA BrowserFlows ==
    ASSUME TypeInv, StreamInv,
           Input \/ Disconnect \/ (\E c \in Name : PickCharset(c))
    PROVE  StreamInv'
<1>1. /\ hist \in History /\ up \in Seq(Wishes) /\ Game \in End /\ Locid \in End
      /\ Game # Locid /\ UNCHANGED <<lib, wire, rx, sess>>
  BY TypeFacts DEF Input, Disconnect, PickCharset
<1>2. CASE Input
  <2> DEFINE i == Msg("TERM", hist.sent[Game] + 1)
             n == hist.sent[Game] + 1
  <2>1. i \in Wishes /\ i.cmd = "TERM" /\ i.arg = hist.sent[Game] + 1 /\ n \in Nat
    BY <1>1 DEF History, Wishes, Msg
  <2>2. up' = Append(up, i) /\ hist' = [hist EXCEPT !.sent[Game] = n]
    BY <1>2 DEF Input
  <2> HIDE DEF i
  <2>3. /\ hist'.dropped = hist.dropped /\ hist'.got = hist.got
        /\ hist'.sent[Game] = hist.sent[Game] + 1 /\ hist'.sent[Locid] = hist.sent[Locid]
        /\ Clean(hist') => Clean(hist)
    BY <1>1, <2>2 DEF History, Clean
  <2>4. ASSUME NEW w \in Wires, Flow(lib, w, up, hist)
        PROVE  Flow(lib, w, up', hist')
    BY <1>1, <2>1, <2>2, <2>3, <2>4, FlowInput
  <2> QED
    BY <1>1, <2>3, <2>4, AskedFlows
<1>3. ASSUME NEW i \in Wishes, i.cmd # "TERM", up' = Append(up, i), SameStreams(hist, hist')
      PROVE  StreamInv'
  <2>1. /\ hist'.got = hist.got /\ hist'.sent = hist.sent /\ hist'.dropped = hist.dropped
        /\ Clean(hist') => Clean(hist)
    BY <1>3 DEF SameStreams, Clean
  <2>2. ASSUME NEW w \in Wires, Flow(lib, w, up, hist)
        PROVE  Flow(lib, w, up', hist')
    <3>1. Flow(lib, w, up', hist)
      BY <1>1, <1>3, <2>2, FlowWishes
    <3> QED
      BY <2>1, <3>1 DEF Flow
  <2> QED
    BY <1>1, <2>1, <2>2, AskedFlows
<1>4. CASE Disconnect
  <2>1. Msg("DISCONNECT", 0) \in Wishes /\ Msg("DISCONNECT", 0).cmd # "TERM"
    BY DEF Msg, Wishes
  <2>2. SameStreams(hist, hist') /\ up' = Append(up, Msg("DISCONNECT", 0))
    BY <1>4 DEF Disconnect, SameStreams
  <2> QED
    BY <1>3, <2>1, <2>2
<1>5. ASSUME NEW c \in Name, PickCharset(c)
      PROVE  StreamInv'
  <2>1. Msg("CHARSET", c) \in Wishes /\ Msg("CHARSET", c).cmd # "TERM"
    BY DEF Msg, Wishes
  <2>2. SameStreams(hist, hist')
    BY <1>1, <1>5, FlowFields DEF PickCharset
  <2>3. up' = Append(up, Msg("CHARSET", c))
    BY <1>5 DEF PickCharset
  <2> QED
    BY <1>3, <2>1, <2>2, <2>3
<1> QED
  BY <1>2, <1>4, <1>5

\* One case for every action.
LEMMA NextFlows ==
    ASSUME TypeInv, TypeInv', StreamInv, [Next]_vars
    PROVE  StreamInv'
<1>1. CASE Server
  BY <1>1, RxFlows, TimerFlows, WriteableFlows, ReceiveFlows, RawCloseFlows DEF Server
<1>2. CASE Lost \/ Roam \/ WebsocketCloses
  BY <1>2, WebsocketFlows, RoamFlows
<1>3. CASE Browser
  BY <1>3, PageReadsFlows, BrowserFlows DEF Browser
<1>4. CASE Peer
  BY <1>4, GameTextFlows, GameWishFlows, GameEchoFlows, GameReadsFlows, GameSignsFlows,
     GameOffersFlows DEF Peer
<1>5. CASE UNCHANGED vars
  <2>1. UNCHANGED <<lib, wire, up, rx, sess, hist>>
    BY <1>5 DEF vars
  <2>2. SameStreams(hist, hist')
    BY <2>1 DEF SameStreams
  <2> QED
    BY <2>1, <2>2, QuietFlows
<1> QED
  BY <1>1, <1>2, <1>3, <1>4, <1>5 DEF Next

\* Both ends are silent, and nothing is on its way.
LEMMA InitFlows ==
    ASSUME Init
    PROVE  StreamInv
<1>1. /\ lib = [e \in End |-> FreshEnd] /\ wire = [e \in End |-> <<>>] /\ rx = NotReading
      /\ up = <<>> /\ sess.st \in {"UP", "BLOCKING"}
      /\ hist.got = [e \in End |-> <<>>] /\ hist.sent = [e \in End |-> 0]
  BY DEF Init
<1>2. Locid \in End /\ Game \in End
  BY DEF End
<1>3. wire \in Wires
  <2>1. \A e \in End : <<>> \in Seq(Wording(e))
    OBVIOUS
  <2> QED
    BY <1>1, <2>1 DEF Wires
<1>4. IsOff(0)
  BY DEF IsOff
<1>5. Tied(lib, wire)
  <2> DEFINE z == [e \in End |-> 0]
  <2>1. z \in [End -> Nat] /\ \A e \in End : z[e] = 0
    OBVIOUS
  <2> HIDE DEF z
  <2>2. ASSUME NEW e \in End
        PROVE  /\ Tuned(lib[e], z[e], z[e], z[e])
               /\ Path("announced", z[e], wire[e], z[Other(e)])
               /\ Path("answered", z[e], wire[e], z[Other(e)])
               /\ Path("decoded", lib[e].dec, wire[e], lib[Other(e)].enc)
    <3>1. Other(e) \in End
      BY OtherFacts
    <3>2. z[e] = 0 /\ z[Other(e)] = 0 /\ lib[e] = FreshEnd /\ lib[Other(e)] = FreshEnd
          /\ wire[e] = <<>>
      BY <1>1, <2>1, <3>1
    <3>3. Tuned(FreshEnd, 0, 0, 0) /\ FreshEnd.dec = 0 /\ FreshEnd.enc = 0
      BY <1>4 DEF Tuned, Own, Watch, FreshEnd
    <3>4. /\ Path("announced", 0, <<>>, 0) /\ Path("answered", 0, <<>>, 0)
          /\ Path("decoded", 0, <<>>, 0)
      BY PathNothing
    <3> QED
      BY <3>2, <3>3, <3>4
  <2> QED
    BY <2>1, <2>2 DEF Tied, Linked
<1>6. Flow(lib, wire, up, hist)
  <2>1. Len(<<>>) = 0 /\ FirstOnes(<<>>)
    BY DEF FirstOnes
  <2>2. Arrives(<<>>, <<>>, 0)
    BY <2>1, PathNothing DEF Arrives
  <2>3. Path("typed", 0, <<>>, 0) /\ Path("leapt", 0, <<>>, 0)
    BY PathNothing
  <2>4. Comes(<<>>, <<>>, 0)
    BY PathNothing DEF Comes, Rising, Below
  <2>5. 0 <= 0
    OBVIOUS
  <2> QED
    BY <1>1, <1>2, <1>5, <2>2, <2>3, <2>4, <2>5 DEF Flow
<1>7. rx.left = 0
  BY <1>1 DEF NotReading
<1>8. ~(rx.left > 0) /\ sess.st # "DOWN"
  BY <1>1, <1>7
<1>9. InStep(hist)
  BY <1>6, FlowFirst
<1> QED
  BY <1>3, <1>6, <1>8, <1>9 DEF StreamInv

(* mccpx_start, mccpx_end and the z_streams of libtelnet.c: whatever is      *)
(* switched on or off on either side, and wherever a read ends, every line  *)
(* of the game arrives, once and in order, and so do the user's, less what  *)
(* a lost websocket took with it.                                          *)
THEOREM IntactHolds == Spec => []Intact
<1>1. Init => Inv /\ StreamInv
  BY InitInv, InitFlows
<1>2. Inv /\ StreamInv /\ [Next]_vars => (Inv /\ StreamInv)'
  <2>1. ASSUME Inv, StreamInv, [Next]_vars
        PROVE  Inv' /\ StreamInv'
    <3>1. Inv'
      BY <2>1, NextInv
    <3>2. TypeInv /\ TypeInv'
      BY <2>1, <3>1 DEF Inv
    <3> QED
      BY <2>1, <3>1, <3>2, NextFlows
  <2> QED
    BY <2>1
<1>3. StreamInv => Intact
  BY DEF StreamInv, Clean, InStep, Intact
<1> QED
  BY <1>1, <1>2, <1>3, PTL DEF Spec

-----------------------------------------------------------------------------
(* Words about the charset *)

\* No word of w is one of W.
Never(W, w) == \A i \in DOMAIN w : w[i].say \notin W
Naming == {"REQUEST", "ACCEPTED"}

(* The last charset that w names is v; or w names none, and v is the game's  *)
(* already, or it wants another.                                            *)
LastNamed(w, v) ==
    \E i \in DOMAIN w : /\ w[i].say \in Naming /\ w[i].arg = v
                        /\ \A j \in DOMAIN w : j > i => w[j].say \notin Naming
Heeds(w, has, v, wants) == LastNamed(w, v) \/ (Never(Naming, w) /\ (has = v \/ wants))

LEMMA NeverParts ==
    ASSUME NEW S, NEW w \in Seq(S), NEW W
    PROVE  /\ Never(W, <<>>)
           /\ \A v \in Seq(S) : Never(W, w) /\ Never(W, v) => Never(W, w \o v)
           /\ \A n \in 1 .. Len(w) : Never(W, w) => Never(W, SubSeq(w, n + 1, Len(w)))
           /\ w # <<>> /\ Never(W, w) => Head(w).say \notin W /\ Never(W, Tail(w))
           /\ \A i : i.say \notin W /\ Never(W, w) => Never(W, Append(w, i))
<1>1. Never(W, <<>>)
  BY DEF Never
<1>2. ASSUME NEW v \in Seq(S), Never(W, w), Never(W, v)
      PROVE  Never(W, w \o v)
  <2>1. /\ Len(w \o v) = Len(w) + Len(v) /\ Len(w) \in Nat /\ Len(v) \in Nat
        /\ DOMAIN (w \o v) = 1 .. Len(w) + Len(v)
        /\ \A i \in 1 .. Len(w) + Len(v) :
              (w \o v)[i] = IF i <= Len(w) THEN w[i] ELSE v[i - Len(w)]
    BY ConcatProperties
  <2>2. DOMAIN w = 1 .. Len(w) /\ DOMAIN v = 1 .. Len(v)
    OBVIOUS
  <2>3. ASSUME NEW i \in 1 .. Len(w) + Len(v)
        PROVE  (w \o v)[i].say \notin W
    <3>1. i <= Len(w) => i \in DOMAIN w
      BY <2>1, <2>2
    <3>2. ~ (i <= Len(w)) => i - Len(w) \in DOMAIN v
      BY <2>1, <2>2
    <3> QED
      BY <1>2, <2>1, <3>1, <3>2 DEF Never
  <2> QED
    BY <2>1, <2>3 DEF Never
<1>3. ASSUME NEW n \in 1 .. Len(w), Never(W, w)
      PROVE  Never(W, SubSeq(w, n + 1, Len(w)))
  <2> DEFINE v == SubSeq(w, n + 1, Len(w))
  <2>1. v \in Seq(S) /\ Len(v) = Len(w) - n
    BY RestType
  <2>2. \A i \in 1 .. Len(v) : v[i] = w[i + n] /\ i + n \in DOMAIN w
    BY <2>1
  <2> QED
    BY <1>3, <2>1, <2>2 DEF Never
<1>4. ASSUME w # <<>>, Never(W, w)
      PROVE  Head(w).say \notin W /\ Never(W, Tail(w))
  <2> DEFINE t == Tail(w)
  <2>1. /\ t \in Seq(S) /\ Len(t) = Len(w) - 1
        /\ \A i \in 1 .. Len(t) : t[i] = w[i + 1]
    BY <1>4, HeadTailProperties
  <2>2. 1 \in DOMAIN w /\ Head(w) = w[1] /\ DOMAIN t = 1 .. Len(t)
        /\ \A i \in 1 .. Len(t) : i + 1 \in DOMAIN w
    BY <1>4, <2>1
  <2> HIDE DEF t
  <2> QED
    BY <1>4, <2>1, <2>2 DEF Never, t
<1>5. ASSUME NEW i, i.say \notin W, Never(W, w)
      PROVE  Never(W, Append(w, i))
  BY <1>5 DEF Never
<1> QED
  BY <1>1, <1>2, <1>3, <1>4, <1>5

\* Fewer words are never said.
LEMMA NeverFewer ==
    ASSUME NEW w, NEW W, NEW V, V \subseteq W, Never(W, w)
    PROVE  Never(V, w)
  BY DEF Never

\* What names no charset changes nothing, what names one settles it.
LEMMA HeedsMore ==
    ASSUME NEW S, NEW w \in Seq(S), NEW has, NEW v, NEW wants
    PROVE  /\ \A u \in Seq(S) : Never(Naming, u) /\ Heeds(w, has, v, wants)
                                => Heeds(w \o u, has, v, wants)
           /\ \A i \in S : i.say \in Naming /\ i.arg = v => Heeds(w \o <<i>>, has, v, wants)
<1>1. ASSUME NEW u \in Seq(S), Never(Naming, u), Heeds(w, has, v, wants)
      PROVE  Heeds(w \o u, has, v, wants)
  <2> DEFINE x == w \o u
  <2>1. /\ Len(w) \in Nat /\ Len(u) \in Nat /\ DOMAIN x = 1 .. Len(w) + Len(u)
        /\ \A i \in 1 .. Len(w) + Len(u) : x[i] = IF i <= Len(w) THEN w[i] ELSE u[i - Len(w)]
        /\ DOMAIN w = 1 .. Len(w) /\ DOMAIN u = 1 .. Len(u)
    BY ConcatProperties
  <2> HIDE DEF x
  <2>2. CASE LastNamed(w, v)
    <3>1. PICK i \in DOMAIN w : /\ w[i].say \in Naming /\ w[i].arg = v
                                /\ \A j \in DOMAIN w : j > i => w[j].say \notin Naming
      BY <2>2 DEF LastNamed
    <3>2. i \in DOMAIN x /\ x[i] = w[i]
      BY <2>1, <3>1
    <3>3. ASSUME NEW j \in DOMAIN x, j > i
          PROVE  x[j].say \notin Naming
      <4>1. CASE j <= Len(w)
        BY <2>1, <3>1, <3>3, <4>1
      <4>2. CASE ~ (j <= Len(w))
        <5>1. j - Len(w) \in DOMAIN u /\ x[j] = u[j - Len(w)]
          BY <2>1, <4>2
        <5> QED
          BY <1>1, <5>1 DEF Never
      <4> QED
        BY <4>1, <4>2
    <3> QED
      BY <3>1, <3>2, <3>3 DEF Heeds, LastNamed, x
  <2>3. CASE Never(Naming, w) /\ (has = v \/ wants)
    <3>1. Never(Naming, w \o u)
      BY <1>1, <2>3, NeverParts
    <3> QED
      BY <2>3, <3>1 DEF Heeds
  <2> QED
    BY <1>1, <2>2, <2>3 DEF Heeds
<1>2. ASSUME NEW i \in S, i.say \in Naming, i.arg = v
      PROVE  Heeds(w \o <<i>>, has, v, wants)
  <2> DEFINE x == Append(w, i)
  <2>1. /\ x = w \o <<i>> /\ DOMAIN x = 1 .. Len(w) + 1 /\ x[Len(w) + 1] = i
        /\ Len(w) \in Nat
    BY AppendIsConcat, AppendProperties
  <2> HIDE DEF x
  <2>2. Len(w) + 1 \in DOMAIN x /\ \A j \in DOMAIN x : ~ (j > Len(w) + 1)
    BY <2>1
  <2> QED
    BY <1>2, <2>1, <2>2 DEF Heeds, LastNamed
<1> QED
  BY <1>1, <1>2

\* The game reads the first word.
LEMMA HeedsFirst ==
    ASSUME NEW S, NEW w \in Seq(S), w # <<>>, NEW has, NEW v, NEW wants,
           Heeds(w, has, v, wants)
    PROVE  /\ Head(w).say \notin Naming => Heeds(Tail(w), has, v, wants)
           /\ \A is, b : Head(w).say \in Naming /\ (is = Head(w).arg \/ b)
                         => Heeds(Tail(w), is, v, b)
<1> DEFINE t == Tail(w)
<1>1. /\ t \in Seq(S) /\ Len(t) = Len(w) - 1
      /\ \A i \in 1 .. Len(t) : t[i] = w[i + 1]
  BY HeadTailProperties
<1>2. /\ DOMAIN t = 1 .. Len(t) /\ DOMAIN w = 1 .. Len(w)
      /\ Len(w) \in Nat /\ Len(t) \in Nat /\ 1 \in DOMAIN w /\ Head(w) = w[1]
  BY <1>1
<1> HIDE DEF t
<1>3. CASE LastNamed(w, v)
  <2>1. PICK i \in DOMAIN w : /\ w[i].say \in Naming /\ w[i].arg = v
                              /\ \A j \in DOMAIN w : j > i => w[j].say \notin Naming
    BY <1>3 DEF LastNamed
  <2>2. \A j \in DOMAIN t : j + 1 > i => t[j].say \notin Naming
    BY <1>1, <1>2, <2>1
  <2>3. CASE i = 1
    <3>1. Never(Naming, t)
      BY <1>2, <2>2, <2>3 DEF Never
    <3> QED
      BY <1>2, <2>1, <2>3, <3>1 DEF Heeds, t
  <2>4. CASE i # 1
    <3>1. i - 1 \in DOMAIN t /\ t[i - 1] = w[i]
      BY <1>1, <1>2, <2>4
    <3>2. \A j \in DOMAIN t : j > i - 1 => t[j].say \notin Naming
      BY <1>2, <2>2
    <3>3. LastNamed(t, v)
      BY <2>1, <3>1, <3>2 DEF LastNamed
    <3> QED
      BY <3>3 DEF Heeds, t
  <2> QED
    BY <2>3, <2>4
<1>4. CASE Never(Naming, w) /\ (has = v \/ wants)
  <2>1. Head(w).say \notin Naming /\ Never(Naming, Tail(w))
    BY <1>4, NeverParts
  <2> QED
    BY <1>4, <2>1 DEF Heeds
<1> QED
  BY <1>3, <1>4 DEF Heeds

-----------------------------------------------------------------------------
(* The game can always read what locid says *)

(* Locid never ends its own stream: it is never in a state in which it       *)
(* withdraws its offer, so it says no WONT, and the game, which then has no *)
(* reason to, no DONT.                                                     *)
Willing   == {"NO", "WANTYES", "YES"}
Following == {"NO", "YES"}

\* All of w is what was said by s on becoming l; no word of it is one of W.
Utters(s, l, W) == Never(W, l.out) /\ Path("decoded", s.enc, l.out, l.enc)

LEMMA UttersNothing ==
    ASSUME NEW e, NEW s \in Speaking(e), s.out = <<>>, NEW W
    PROVE  Utters(s, s, W)
<1>1. s.enc \in Nat
  BY DEF Speaking
<1> QED
  BY <1>1, PathNothing DEF Utters, Never

LEMMA UttersMore ==
    ASSUME NEW e, NEW s, NEW l \in Speaking(e), NEW W, Utters(s, l, W),
           NEW i \in Wording(e), i.say \notin W, NEW r, r.out = Append(l.out, i),
           r.enc \in Nat, Decodes(l.enc, i, r.enc)
    PROVE  Utters(s, r, W)
<1>1. l.out \in Seq(Wording(e))
  BY DEF Speaking
<1>2. Never(W, r.out)
  BY <1>1, NeverParts DEF Utters
<1>3. Path("decoded", s.enc, r.out, r.enc)
  BY <1>1, MovesFacts, PathAppend DEF Utters
<1> QED
  BY <1>2, <1>3 DEF Utters

\* A word that is neither BEGIN nor WONT leaves the stream as it is.
LEMMA UttersPlain ==
    ASSUME NEW e, NEW s, NEW l \in Speaking(e), NEW W, Utters(s, l, W),
           NEW say, NEW arg, Item(l.enc, say, arg) \in Wording(e),
           say \notin W, say \notin {"BEGIN", "WONT"},
           NEW r, r.out = Append(l.out, Item(l.enc, say, arg)), r.enc = l.enc
    PROVE  Utters(s, r, W)
<1>1. Decodes(l.enc, Item(l.enc, say, arg), r.enc) /\ Item(l.enc, say, arg).say = say
  BY DEF Decodes, Item
<1>2. r.enc \in Nat
  BY DEF Speaking
<1> QED
  BY <1>1, <1>2, UttersMore

\* A transition has one answer at the most.
Says == {<<>>, <<"yes">>, <<"no">>}
LEMMA SaysOne ==
    \A q : /\ HearYes(q, TRUE).say \in Says /\ HearNo(q).say \in Says
           /\ AskYes(q).say \in Says /\ AskNo(q).say \in Says
  BY DEF HearYes, HearNo, AskYes, AskNo, Transition, Stay, Says

LEMMA HisUtters ==
    ASSUME NEW e, NEW s, NEW l \in Speaking(e), NEW W, Utters(s, l, W),
           NEW tr, tr.say \in Says,
           tr.say = <<"yes">> => "DO" \notin W, tr.say = <<"no">> => "DONT" \notin W
    PROVE  Utters(s, His(l, tr), W)
<1> DEFINE r == His(l, tr)
<1>1. /\ r.enc = l.enc /\ l.enc \in Nat
      /\ tr.say = <<>> => r.out = l.out
      /\ tr.say = <<"yes">> => r.out = Append(l.out, Item(l.enc, "DO", 0))
      /\ tr.say = <<"no">> => r.out = Append(l.out, Item(l.enc, "DONT", 0))
  BY HisFields DEF Speaking
<1>2. Item(l.enc, "DO", 0) \in Wording(e) /\ Item(l.enc, "DONT", 0) \in Wording(e)
  BY <1>1, ItemType DEF About
<1> HIDE DEF r
<1>3. CASE tr.say = <<>>
  BY <1>1, <1>3 DEF Utters, r
<1>4. CASE tr.say = <<"yes">>
  <2>1. Utters(s, r, W)
    BY <1>1, <1>2, <1>4, UttersPlain
  <2> QED
    BY <2>1 DEF r
<1>5. CASE tr.say = <<"no">>
  <2>1. Utters(s, r, W)
    BY <1>1, <1>2, <1>5, UttersPlain
  <2> QED
    BY <2>1 DEF r
<1> QED
  BY <1>3, <1>4, <1>5 DEF Says

LEMMA OursUtters ==
    ASSUME NEW e, NEW s, NEW l \in Speaking(e), NEW W, Utters(s, l, W),
           NEW tr, tr.say \in {<<>>, <<"yes">>}, "WILL" \notin W
    PROVE  Utters(s, Ours(l, tr), W)
<1> DEFINE r == Ours(l, tr)
<1>1. /\ r.enc = l.enc /\ l.enc \in Nat
      /\ tr.say = <<>> => r.out = l.out
      /\ tr.say = <<"yes">> => r.out = Append(l.out, Item(l.enc, "WILL", 0))
  BY OursFields DEF Speaking
<1>2. Item(l.enc, "WILL", 0) \in Wording(e)
  BY <1>1, ItemType DEF About
<1> HIDE DEF r
<1>3. CASE tr.say = <<>>
  BY <1>1, <1>3 DEF Utters, r
<1>4. CASE tr.say = <<"yes">>
  <2>1. Utters(s, r, W)
    BY <1>1, <1>2, <1>4, UttersPlain
  <2> QED
    BY <2>1 DEF r
<1> QED
  BY <1>3, <1>4

LEMMA EndRecvUtters ==
    ASSUME NEW e, NEW s, NEW a \in Speaking(e), NEW W, Utters(s, a, W),
           "DO" \notin W, "DONT" \notin W
    PROVE  EndRecv(a).us = a.us /\ Utters(s, EndRecv(a), W)
<1> DEFINE d == [a EXCEPT !.dec = 0]
           x == EndRecv(a)
<1>1. d \in Speaking(e) /\ d.us = a.us /\ d.out = a.out /\ d.enc = a.enc
  BY DEF Speaking
<1>2. x = His(d, AskNo(a.him))
  BY DEF EndRecv, Speaking
<1> HIDE DEF d, x
<1>3. Utters(s, d, W)
  BY <1>1 DEF Utters
<1>4. Utters(s, x, W)
  BY <1>1, <1>2, <1>3, SaysOne, HisUtters
<1>5. x.us = d.us
  BY <1>1, <1>2, HisFields
<1> QED
  BY <1>1, <1>4, <1>5 DEF x

LEMMA ChokeUtters ==
    ASSUME NEW e, NEW s, NEW a \in Speaking(e), NEW W, Utters(s, a, W),
           "DO" \notin W, "DONT" \notin W, NEW c \in Choke(a)
    PROVE  c.us = a.us /\ Utters(s, c, W)
<1> DEFINE d == [a EXCEPT !.dec = Garbled]
<1>1. d.us = a.us /\ d.out = a.out /\ d.enc = a.enc
  BY DEF Speaking
<1> HIDE DEF d
<1>2. Utters(s, d, W)
  BY <1>1 DEF Utters
<1>3. c = EndRecv(a) \/ c = d
  BY DEF Choke, d
<1> QED
  BY <1>1, <1>2, <1>3, EndRecvUtters

\* What one end does when the other's side changes.
LEMMA HisSideUtters ==
    ASSUME NEW e, NEW s \in Speaking(e), s.out = <<>>, s.us \in Willing,
           NEW tr \in Transitions, tr.say \in Says
    PROVE  /\ HisSide(s, tr).us \in Willing
           /\ Utters(s, HisSide(s, tr), {"WONT"} \cup Naming)
<1> DEFINE W == {"WONT"} \cup Naming
           a == His(s, tr)
           b == Send(a, "ACCEPT", 0)
           c == Ours(b, AskYes(a.us))
           x == EndRecv(a)
<1>1. "DO" \notin W /\ "DONT" \notin W /\ "ACCEPT" \notin W /\ "WILL" \notin W
  BY DEF Naming
<1> HIDE DEF W
<1>2. a \in Speaking(e) /\ a.us = s.us /\ a.enc \in Nat
  BY HisType, HisFields DEF Speaking
<1>3. Utters(s, a, W)
  BY <1>1, UttersNothing, HisUtters
<1> HIDE DEF a
<1>4. b \in Speaking(e) /\ Utters(s, b, W) /\ b.us = a.us
  <2>1. Item(a.enc, "ACCEPT", 0) \in Wording(e)
    BY <1>2, ItemType DEF About
  <2>2. b \in Speaking(e) /\ b.enc = a.enc
    BY <1>2, <2>1, SendType
  <2>3. b.out = Append(a.out, Item(a.enc, "ACCEPT", 0)) /\ b.us = a.us
    BY <1>2 DEF Send, Speaking
  <2> HIDE DEF b
  <2>4. Utters(s, b, W)
    BY <1>1, <1>2, <1>3, <2>1, <2>2, <2>3, UttersPlain
  <2> QED
    BY <2>2, <2>3, <2>4
<1>5. c.us \in Willing /\ Utters(s, c, W)
  <2>1. AskYes(a.us).state \in Willing /\ AskYes(a.us).say \in {<<>>, <<"yes">>}
    BY <1>2 DEF AskYes, Transition, Stay, Willing
  <2>2. c.us = AskYes(a.us).state
    BY <1>4, OursFields
  <2> HIDE DEF b
  <2> QED
    BY <1>1, <1>4, <2>1, <2>2, OursUtters
<1>6. x.us \in Willing /\ Utters(s, x, W)
  BY <1>1, <1>2, <1>3, EndRecvUtters
<1>7. HisSide(s, tr) = c \/ HisSide(s, tr) = x \/ HisSide(s, tr) = a
  BY DEF HisSide, a, b
<1> HIDE DEF c, x
<1>8. HisSide(s, tr).us \in Willing /\ Utters(s, HisSide(s, tr), W)
  BY <1>2, <1>3, <1>5, <1>6, <1>7
<1> QED
  BY <1>8 DEF W

LEMMA LocidUtters ==
    ASSUME NEW e, NEW s \in Speaking(e), s.out = <<>>, s.us \in Willing,
           NEW item, item.say \in About, item.say # "DONT"
    PROVE  /\ Hear(s, item).us \in Willing
           /\ Utters(s, Hear(s, item), {"WONT"} \cup Naming)
<1> DEFINE W == {"WONT"} \cup Naming
           l == Hear(s, item)
<1>1. s.enc \in Nat /\ s.made \in Nat /\ s.him \in QState
  BY DEF Speaking
<1>2. "WONT" \in W /\ "WILL" \notin W /\ "BEGIN" \notin W
  BY DEF Naming
<1>3. CASE item.say = "WILL"
  <2>1. l = HisSide(s, HearYes(s.him, TRUE))
    BY <1>3 DEF Hear
  <2> QED
    BY <1>1, <2>1, HearingTypes, SaysOne, HisSideUtters
<1>4. CASE item.say = "WONT"
  <2>1. l = HisSide(s, HearNo(s.him))
    BY <1>4 DEF Hear
  <2> QED
    BY <1>1, <2>1, HearingTypes, SaysOne, HisSideUtters
<1> HIDE DEF W
<1>5. CASE item.say = "DO"
  <2> DEFINE tr == HearYes(s.us, TRUE)
             a == Ours(s, tr)
  <2>1. /\ tr.say \in {<<>>, <<"yes">>} /\ tr.state \in Willing /\ tr.tell # "off"
    BY DEF HearYes, Transition, Stay, Willing
  <2>2. l = a
    BY <1>5, <2>1 DEF Hear, OurSide
  <2>3. a.us = tr.state
    BY OursFields
  <2>4. Utters(s, s, W)
    BY UttersNothing
  <2> HIDE DEF tr
  <2>5. Utters(s, a, W)
    BY <1>2, <2>1, <2>4, OursUtters
  <2> HIDE DEF a, l
  <2> QED
    BY <2>1, <2>2, <2>3, <2>5 DEF l, W
<1>6. CASE item.say = "ACCEPT"
  <2> DEFINE n == IF s.enc = 0 THEN s.made + 1 ELSE s.enc
             i == Item(s.enc, "BEGIN", n)
             b == Send(s, "BEGIN", n)
  <2>1. n \in Nat /\ (s.enc = 0 \/ n = s.enc)
    BY <1>1
  <2>2. i \in Wording(e) /\ i.say = "BEGIN" /\ i.enc = s.enc /\ i.arg = n
    BY <1>1, <2>1, ItemType DEF About, Item
  <2>3. b \in Speaking(e) /\ b.us = s.us /\ b.out = Append(s.out, i)
    BY <2>2, SendType DEF Send, Speaking
  <2>4. l.us = s.us /\ l.enc = n /\ l.out = Append(s.out, i)
    <3>1. CASE s.enc = 0
      <4>1. l = [b EXCEPT !.enc = s.made + 1, !.made = @ + 1]
        BY <1>6, <3>1 DEF Hear, HearAccept
      <4> HIDE DEF b, l, i
      <4> QED
        BY <2>3, <3>1, <4>1 DEF Speaking
    <3>2. CASE s.enc # 0
      <4>1. l = b
        BY <1>6, <3>2 DEF Hear, HearAccept
      <4>2. b.enc = s.enc
        BY <2>2, SendType
      <4> QED
        BY <2>3, <3>2, <4>1, <4>2
    <3> QED
      BY <3>1, <3>2
  <2> HIDE DEF b, l, i
  <2>5. Decodes(s.enc, i, l.enc) /\ l.enc \in Nat
    BY <2>1, <2>2, <2>4 DEF Decodes
  <2>6. Utters(s, l, W)
    BY <1>2, <2>2, <2>4, <2>5, UttersNothing, UttersMore
  <2> QED
    BY <2>4, <2>6 DEF l, W
<1>7. CASE item.say = "BEGIN"
  <2>1. l.us = s.us /\ l.enc = s.enc /\ l.out = s.out
    BY <1>7 DEF Hear, HearBegin, Speaking
  <2>2. Utters(s, s, W)
    BY UttersNothing
  <2> HIDE DEF l
  <2>3. l.us \in Willing /\ Utters(s, l, W)
    BY <2>1, <2>2 DEF Utters
  <2> QED
    BY <2>3 DEF l, W
<1> QED
  BY <1>3, <1>4, <1>5, <1>6, <1>7 DEF About

LEMMA NeverSays ==
    ASSUME NEW S, NEW w \in Seq(S), NEW W, Never(W, w), NEW enc, NEW say, NEW arg, say \notin W
    PROVE  Never(W, Append(w, Item(enc, say, arg)))
<1>1. Item(enc, say, arg).say = say
  BY DEF Item
<1> QED
  BY <1>1, NeverParts

\* Neither of our two steps, on or off, says anything but WILL or WONT.
LEMMA OursNever ==
    ASSUME NEW e, NEW s \in Speaking(e), NEW tr, tr.say \in Says, NEW W, Never(W, s.out),
           "WILL" \notin W, "WONT" \notin W
    PROVE  Never(W, Ours(s, tr).out)
<1> DEFINE r == Ours(s, tr)
<1>1. /\ tr.say = <<>> => r.out = s.out
      /\ tr.say = <<"yes">> => r.out = Append(s.out, Item(s.enc, "WILL", 0))
      /\ tr.say = <<"no">> => r.out = Append(s.out, Item(s.enc, "WONT", 0))
      /\ s.out \in Seq(Wording(e))
  BY OursFields DEF Speaking
<1>2. Item(s.enc, "WILL", 0).say = "WILL" /\ Item(s.enc, "WONT", 0).say = "WONT"
  BY DEF Item
<1>3. \A i : i.say \notin W => Never(W, Append(s.out, i))
  BY <1>1, NeverParts
<1> HIDE DEF r
<1>4. Never(W, r.out)
  BY <1>1, <1>2, <1>3 DEF Says
<1> QED
  BY <1>4 DEF r

LEMMA EndSendNever ==
    ASSUME NEW e, NEW s \in Speaking(e), NEW W, Never(W, s.out), "WILL" \notin W, "WONT" \notin W
    PROVE  /\ Never(W, EndSend(s).out) /\ EndSend(s).him = s.him /\ EndSend(s).dec = s.dec
<1> DEFINE a == Ours(s, AskNo(s.us))
<1>1. a \in Speaking(e) /\ a.him = s.him /\ a.dec = s.dec
  BY HearingTypes, OursType, OursFields DEF Speaking
<1>2. Never(W, a.out)
  BY SaysOne, OursNever
<1> HIDE DEF a
<1>3. LET x == [a EXCEPT !.enc = 0] IN x.him = a.him /\ x.dec = a.dec /\ x.out = a.out
  BY <1>1 DEF Speaking
<1> QED
  BY <1>1, <1>2, <1>3 DEF EndSend, a

LEMMA OurSideNever ==
    ASSUME NEW e, NEW s \in Speaking(e), s.out = <<>>, NEW tr \in Transitions, tr.say \in Says,
           NEW W, "WILL" \notin W, "WONT" \notin W
    PROVE  /\ Never(W, OurSide(s, tr).out)
           /\ OurSide(s, tr).him = s.him /\ OurSide(s, tr).dec = s.dec
<1> DEFINE a == Ours(s, tr)
<1>1. a \in Speaking(e) /\ a.him = s.him /\ a.dec = s.dec
  BY OursType, OursFields
<1>2. Never(W, s.out)
  BY DEF Never
<1>3. Never(W, a.out)
  BY <1>2, OursNever
<1> HIDE DEF a
<1>4. /\ Never(W, EndSend(a).out) /\ EndSend(a).him = a.him /\ EndSend(a).dec = a.dec
  BY <1>1, <1>3, EndSendNever
<1>5. OurSide(s, tr) = a \/ OurSide(s, tr) = EndSend(a)
  BY DEF OurSide, a
<1> QED
  BY <1>1, <1>3, <1>4, <1>5

LEMMA GameUtters ==
    ASSUME NEW e, NEW s \in Speaking(e), s.out = <<>>, s.him \in Following,
           NEW item, item.say \in About, item.say # "WONT",
           NEW d, Decodes(s.dec, item, d)
    PROVE  LET l == Hear(s, item) IN
           l.him \in Following /\ l.dec = d /\ Never({"DONT"} \cup Naming, l.out)
<1> DEFINE W == {"DONT"} \cup Naming
           l == Hear(s, item)
<1>1. /\ "WILL" \notin W /\ "WONT" \notin W /\ "DO" \notin W /\ "ACCEPT" \notin W
      /\ "BEGIN" \notin W
  BY DEF Naming
<1>2. s.us \in QState /\ s.him \in QState /\ Never(W, s.out) /\ s.out \in Seq(Wording(e))
      /\ s.enc \in Nat /\ s.made \in Nat
  BY DEF Speaking, Never
<1> HIDE DEF W
<1>3. d = IF item.say = "BEGIN" /\ s.dec = 0 THEN item.arg ELSE s.dec
  BY DEF Decodes
<1>4. CASE item.say = "WILL"
  <2> DEFINE tr == HearYes(s.him, TRUE)
             a == His(s, tr)
             b == Send(a, "ACCEPT", 0)
             c == Ours(b, AskYes(a.us))
  <2>1. l = HisSide(s, tr)
    BY <1>4 DEF Hear
  <2>2. CASE s.him = "NO"
    <3>1. tr.say = <<"yes">> /\ tr.state = "YES" /\ tr.tell = "on"
      BY <2>2 DEF HearYes, Transition
    <3>2. l = c
      BY <2>1, <3>1 DEF HisSide
    <3>3. /\ a \in Speaking(e) /\ a.him = "YES" /\ a.dec = s.dec
          /\ a.out = Append(s.out, Item(s.enc, "DO", 0))
      BY <1>2, <3>1, HearingTypes, HisType, HisFields
    <3> HIDE DEF a
    <3>4. Never(W, a.out)
      BY <1>1, <1>2, <3>3, NeverSays
    <3>5. b \in Speaking(e) /\ b.him = a.him /\ b.dec = a.dec /\ Never(W, b.out)
      <4>1. a.enc \in Nat /\ a.out \in Seq(Wording(e))
        BY <3>3 DEF Speaking
      <4>2. Item(a.enc, "ACCEPT", 0) \in Wording(e) /\ Item(a.enc, "ACCEPT", 0).say = "ACCEPT"
        BY <4>1, ItemType DEF About, Item
      <4>3. b \in Speaking(e)
        BY <3>3, <4>2, SendType
      <4>4. b.out = Append(a.out, Item(a.enc, "ACCEPT", 0)) /\ b.him = a.him /\ b.dec = a.dec
        BY <3>3 DEF Send, Speaking
      <4>5. Never(W, Append(a.out, Item(a.enc, "ACCEPT", 0)))
        BY <1>1, <3>4, <4>1, NeverSays
      <4> QED
        BY <4>3, <4>4, <4>5
    <3> HIDE DEF b
    <3>6. c.him = b.him /\ c.dec = b.dec /\ Never(W, c.out)
      BY <1>1, <3>5, SaysOne, OursNever, OursFields
    <3> HIDE DEF c, l
    <3>7. l.him = "YES" /\ l.dec = s.dec /\ Never(W, l.out)
      BY <3>2, <3>3, <3>5, <3>6
    <3> QED
      BY <1>3, <1>4, <3>7 DEF l, W, Following
  <2>3. CASE s.him = "YES"
    <3>1. tr.say = <<>> /\ tr.state = "YES" /\ tr.tell = "nothing"
      BY <2>3 DEF HearYes, Stay, Transition
    <3>2. l = a
      BY <2>1, <3>1 DEF HisSide
    <3>3. a.him = "YES" /\ a.dec = s.dec /\ a.out = s.out
      BY <3>1, HisFields
    <3> HIDE DEF a, l
    <3> QED
      BY <1>2, <1>3, <1>4, <3>2, <3>3 DEF l, W, Following
  <2> QED
    BY <2>2, <2>3 DEF Following
<1>5. CASE item.say = "DO"
  <2> DEFINE tr == HearYes(s.us, TRUE)
  <2>1. l = OurSide(s, tr)
    BY <1>5 DEF Hear
  <2>2. tr \in Transitions /\ tr.say \in Says
    BY <1>2, HearingTypes, SaysOne
  <2> HIDE DEF tr
  <2>3. Never(W, l.out) /\ l.him = s.him /\ l.dec = s.dec
    BY <1>1, <2>1, <2>2, OurSideNever
  <2> HIDE DEF l
  <2> QED
    BY <1>3, <1>5, <2>3 DEF l, W
<1>6. CASE item.say = "DONT"
  <2> DEFINE tr == HearNo(s.us)
  <2>1. l = OurSide(s, tr)
    BY <1>6 DEF Hear
  <2>2. tr \in Transitions /\ tr.say \in Says
    BY <1>2, HearingTypes, SaysOne
  <2> HIDE DEF tr
  <2>3. Never(W, l.out) /\ l.him = s.him /\ l.dec = s.dec
    BY <1>1, <2>1, <2>2, OurSideNever
  <2> HIDE DEF l
  <2> QED
    BY <1>3, <1>6, <2>3 DEF l, W
<1>7. CASE item.say = "ACCEPT"
  <2>1. /\ l.him = s.him /\ l.dec = s.dec
        /\ \E n : l.out = Append(s.out, Item(s.enc, "BEGIN", n))
    <3>1. CASE s.enc = 0
      <4> DEFINE b == Send(s, "BEGIN", s.made + 1)
      <4>1. b.him = s.him /\ b.dec = s.dec /\ b.out = Append(s.out, Item(s.enc, "BEGIN", s.made + 1))
            /\ b \in Speaking(e)
        <5>1. s.made + 1 \in Nat /\ Item(s.enc, "BEGIN", s.made + 1) \in Wording(e)
          BY <1>2, ItemType DEF About
        <5>2. b \in Speaking(e)
          BY <5>1, SendType
        <5> QED
          BY <5>2 DEF Send, Speaking
      <4>2. l = [b EXCEPT !.enc = s.made + 1, !.made = @ + 1]
        BY <1>7, <3>1 DEF Hear, HearAccept
      <4> HIDE DEF b, l
      <4>3. l.him = b.him /\ l.dec = b.dec /\ l.out = b.out
        BY <4>1, <4>2 DEF Speaking
      <4> QED
        BY <4>1, <4>3
    <3>2. CASE s.enc # 0
      <4>1. l = Send(s, "BEGIN", s.enc)
        BY <1>7, <3>2 DEF Hear, HearAccept
      <4> QED
        BY <4>1 DEF Send, Speaking
    <3> QED
      BY <3>1, <3>2
  <2> HIDE DEF l
  <2>2. Never(W, l.out)
    BY <1>1, <1>2, <2>1, NeverSays
  <2> QED
    BY <1>3, <1>7, <2>1, <2>2 DEF l, W
<1>8. CASE item.say = "BEGIN"
  <2>1. /\ l.him = s.him /\ l.out = s.out
        /\ l.dec = IF s.dec = 0 THEN item.arg ELSE s.dec
    BY <1>8 DEF Hear, HearBegin, Speaking
  <2> HIDE DEF l
  <2> QED
    BY <1>2, <1>3, <1>8, <2>1 DEF l, W
<1> QED
  BY <1>4, <1>5, <1>6, <1>7, <1>8 DEF About

-----------------------------------------------------------------------------
(* The charset: the state *)

\* The game reads what locid says, one word after the other.
Readable(l, w) ==
    /\ l[Locid].us \in Willing /\ l[Game].him \in Following
    /\ Never({"WONT"}, w[Game]) /\ Never({"DONT"}, w[Locid])
    /\ Path("decoded", l[Game].dec, w[Game], l[Locid].enc)

(* As long as no choice of the user's is on its way, the browser will come   *)
(* to use what the session does, and so will the game.  While one is, it is *)
(* what the browser uses, and nothing else is on its way there.            *)
Agreed(w, u, s, d, has, is, wants) ==
    IF Without("CHARSET", u)
    THEN /\ Settles("CHARSET", s.q, d, has, s.charset)
         /\ s.cs => Heeds(w[Game], is, s.charset, wants)
    ELSE /\ Never({"REQUEST"}, w[Locid])
         /\ Without("CHARSET", s.q) /\ Without("CHARSET", d)
         /\ Ends("CHARSET", u, has)

Calm == Connected /\ ~hist.failed /\ ~hist.bypassed
CharsetInv ==
    Calm => /\ Readable(lib, wire)
            /\ page.ws \/ hist.unsettled
            /\ ~hist.unsettled
               => Agreed(wire, up, sess, down, page.charset, charset, hist.disputed)

\* t says as much about the charset as s does.
Quietly(s, t) ==
    /\ t \in Session
    /\ t.charset = s.charset /\ t.cs = s.cs
    /\ Without("CHARSET", s.q) => Without("CHARSET", t.q)
    /\ \A v : Ends("CHARSET", s.q, v) => Ends("CHARSET", t.q, v)

LEMMA QuietlyTrans ==
    ASSUME NEW s, NEW t, NEW u, Quietly(s, t), Quietly(t, u)
    PROVE  Quietly(s, u)
  BY DEF Quietly

LEMMA PushQuietly ==
    ASSUME TypeInv, NEW s \in Session, NEW cmd, NEW arg, Msg(cmd, arg) \in Tidings
    PROVE  /\ Push(s, cmd, arg).charset = s.charset /\ Push(s, cmd, arg).cs = s.cs
           /\ cmd # "CHARSET" => Quietly(s, Push(s, cmd, arg))
<1> DEFINE t == Push(s, cmd, arg)
<1>1. t \in Session /\ t.q = Append(s.q, Msg(cmd, arg))
  BY PushFields
<1>2. s.q \in Seq(Tidings) /\ Msg(cmd, arg).cmd = cmd
  BY DEF Session, Msg
<1>3. t.charset = s.charset /\ t.cs = s.cs
  BY DEF Push, Session
<1> HIDE DEF t
<1>4. ASSUME cmd # "CHARSET"
      PROVE  /\ Without("CHARSET", s.q) => Without("CHARSET", t.q)
             /\ \A v : Ends("CHARSET", s.q, v) => Ends("CHARSET", t.q, v)
  BY <1>1, <1>2, <1>4, AppendEnds
<1> QED
  BY <1>1, <1>3, <1>4 DEF Quietly, t

LEMMA PushEchoQuietly ==
    ASSUME TypeInv, NEW s \in Session
    PROVE  Quietly(s, PushEcho(s))
<1>1. Msg("ECHO", s.echo) \in Tidings
  BY DEF Session, Msg, Tidings, Message
<1>2. Quietly(s, Push(s, "ECHO", s.echo))
  BY <1>1, PushQuietly
<1> QED
  BY <1>2 DEF PushEcho, Quietly

LEMMA SessionQuietly ==
    ASSUME TypeInv, NEW s \in Session
    PROVE  /\ \A flags : Quietly(s, Checked(s, flags))
           /\ \A opt : Quietly(s, Stray(s, opt))
           /\ \A n \in Nat : Quietly(s, Show(s, n))
           /\ \A x \in {0, 1} : Quietly(s, [s EXCEPT !.echo = x])
           /\ Quietly(s, Unblocked(s)) /\ Quietly(s, s)
<1>1. ASSUME NEW flags
      PROVE  Quietly(s, Checked(s, flags))
  <2>1. s.check \ flags \in SUBSET Check
    BY DEF Session
  <2>2. ASSUME NEW c \in SUBSET Check
        PROVE  Quietly(s, [s EXCEPT !.check = c])
    BY DEF Session, Quietly
  <2> QED
    BY <2>1, <2>2 DEF Checked
<1>2. ASSUME NEW opt
      PROVE  Quietly(s, Stray(s, opt))
  <2> DEFINE c == Checked(s, {"MUD"})
  <2>1. Quietly(s, c) /\ c \in Session
    BY <1>1 DEF Quietly
  <2> HIDE DEF c
  <2>2. Msg("GMCP", 0) \in Tidings
    BY DEF Msg, Tidings, Message
  <2>3. Quietly(c, Push(c, "GMCP", 0))
    BY <2>1, <2>2, PushQuietly
  <2>4. Quietly(s, Push(c, "GMCP", 0))
    BY <2>1, <2>3, QuietlyTrans
  <2>5. Stray(s, opt) = Push(c, "GMCP", 0) \/ Stray(s, opt) = Checked(s, {"MSSP"})
          \/ Stray(s, opt) = s
    BY DEF Stray, c
  <2> QED
    BY <1>1, <2>4, <2>5 DEF Quietly
<1>3. ASSUME NEW n \in Nat
      PROVE  Quietly(s, Show(s, n))
  <2> DEFINE b == [s EXCEPT !.spoken = TRUE]
             u == IF s.spoken THEN s ELSE PushEcho(b)
  <2>1. b \in Session /\ Quietly(s, b)
    BY DEF Session, Quietly
  <2> HIDE DEF b
  <2>2. Quietly(s, PushEcho(b))
    BY <2>1, PushEchoQuietly, QuietlyTrans
  <2>3. Quietly(s, u) /\ u \in Session
    BY <2>2 DEF Quietly
  <2>4. Show(s, n) = Push(u, "TERM", n)
    BY DEF Show, b
  <2> HIDE DEF u
  <2>5. Msg("TERM", n) \in Tidings
    BY DEF Msg, Tidings, Message
  <2>6. Quietly(u, Push(u, "TERM", n))
    BY <2>3, <2>5, PushQuietly
  <2> QED
    BY <2>3, <2>4, <2>6, QuietlyTrans
<1>4. ASSUME NEW x \in {0, 1}
      PROVE  Quietly(s, [s EXCEPT !.echo = x])
  BY DEF Session, Quietly
<1>5. Quietly(s, Unblocked(s)) /\ Quietly(s, s)
  BY DEF Unblocked, Session, Quietly
<1> QED
  BY <1>1, <1>2, <1>3, <1>4, <1>5

\* Nothing is said about the charset, and what is agreed on stays so.
LEMMA AgreedQuietly ==
    ASSUME NEW w \in Wires, NEW w2, NEW u, NEW s, NEW t, NEW d, NEW has, NEW is, NEW wants,
           Agreed(w, u, s, d, has, is, wants), Quietly(s, t),
           NEW out \in Seq(Wording(Game)), Never(Naming, out), w2[Game] = w[Game] \o out,
           Never({"REQUEST"}, w[Locid]) => Never({"REQUEST"}, w2[Locid])
    PROVE  Agreed(w2, u, t, d, has, is, wants)
<1>1. w[Game] \in Seq(Wording(Game))
  BY DEF Wires, End
<1>2. ASSUME Without("CHARSET", u)
      PROVE  Agreed(w2, u, t, d, has, is, wants)
  <2>1. Settles("CHARSET", s.q, d, has, s.charset)
    BY <1>2 DEF Agreed
  <2>2. Settles("CHARSET", t.q, d, has, t.charset)
    BY <2>1 DEF Quietly, Settles
  <2>3. ASSUME s.cs
        PROVE  Heeds(w2[Game], is, s.charset, wants)
    <3>1. Heeds(w[Game], is, s.charset, wants)
      BY <1>2, <2>3 DEF Agreed
    <3> QED
      BY <1>1, <3>1, HeedsMore
  <2> QED
    BY <1>2, <2>2, <2>3 DEF Agreed, Quietly
<1>3. ASSUME ~Without("CHARSET", u)
      PROVE  Agreed(w2, u, t, d, has, is, wants)
  BY <1>3 DEF Agreed, Quietly
<1> QED
  BY <1>2, <1>3

\* Locid has said what l says.
LEMMA ReadableLocid ==
    ASSUME TypeInv, Readable(lib, wire), NEW l \in Speaking(Game), l.us \in Willing,
           Utters(lib[Locid], l, {"WONT"}),
           lib' = [lib EXCEPT ![Locid] = [l EXCEPT !.out = <<>>]],
           wire'[Game] = wire[Game] \o l.out,
           Never({"DONT"}, wire[Locid]) => Never({"DONT"}, wire'[Locid])
    PROVE  Readable(lib', wire')
<1>1. lib \in [End -> EndType] /\ Locid \in End /\ Game \in End /\ Locid # Game
      /\ wire \in Wires
  BY TypeFacts
<1>2. lib'[Locid].us = l.us /\ lib'[Locid].enc = l.enc /\ lib'[Game] = lib[Game]
  BY <1>1 DEF Speaking
<1>3. wire[Game] \in Seq(Wording(Game)) /\ l.out \in Seq(Wording(Game))
  BY <1>1 DEF Wires, Speaking
<1>4. Never({"WONT"}, wire[Game] \o l.out)
  BY <1>3, NeverParts DEF Readable, Utters
<1>5. Path("decoded", lib[Game].dec, wire[Game] \o l.out, l.enc)
  BY <1>3, PathConcat DEF Readable, Utters
<1> QED
  BY <1>2, <1>4, <1>5 DEF Readable

\* Nothing of it is forgotten.
SameTalk(h, g) ==
    /\ g.failed = h.failed /\ g.unsettled = h.unsettled /\ g.disputed = h.disputed
    /\ h.bypassed => g.bypassed

(* A handler of locid's, which leaves s, and says what l says. *)
LEMMA DoneCharset ==
    ASSUME TypeInv, StreamInv, CharsetInv, rx.left > 0, NEW n \in 1 .. rx.left,
           NEW l \in Speaking(Game), NEW s \in Session, NEW r, Done(n, l, s, r),
           SameTalk(hist, hist'),
           Calm /\ Calm' => /\ l.us \in Willing /\ Utters(lib[Locid], l, {"WONT"}),
           \A h, c, b : /\ wire'[Game] = wire[Game] \o l.out
                        /\ Never({"REQUEST"}, wire[Locid]) => Never({"REQUEST"}, wire'[Locid])
                        /\ Calm /\ Calm' /\ Agreed(wire, up, sess, down, h, c, b)
                        => Agreed(wire', up, s, down, h, c, b)
    PROVE  CharsetInv'
<1>1. /\ wire \in Wires /\ Locid \in End /\ Game \in End /\ Locid # Game
      /\ wire[Locid] \in Seq(Wording(Locid)) /\ rx.left \in 0 .. Len(wire[Locid])
  BY TypeFacts DEF TypeInv
<1>2. /\ lib' = [lib EXCEPT ![Locid] = [l EXCEPT !.out = <<>>]]
      /\ wire' = [wire EXCEPT ![Locid] = SubSeq(@, n + 1, Len(@)), ![Game] = @ \o l.out]
      /\ sess' = s \/ sess' = Unblocked(s)
      /\ page' = page /\ down' = down /\ up' = up /\ charset' = charset
  BY DEF Done
<1>3. /\ wire'[Game] = wire[Game] \o l.out
      /\ wire'[Locid] = SubSeq(wire[Locid], n + 1, Len(wire[Locid]))
  BY <1>1, <1>2 DEF Wires
<1>4. \A W : Never(W, wire[Locid]) => Never(W, wire'[Locid])
  <2>1. n \in 1 .. Len(wire[Locid])
    BY <1>1
  <2> QED
    BY <1>1, <1>3, <2>1, NeverParts
<1>5. Calm' => Calm
  BY ReadingFlow DEF Calm, Connected, SameTalk
<1>6. ASSUME Calm'
      PROVE  Readable(lib', wire')
  <2>1. Readable(lib, wire)
    BY <1>5, <1>6 DEF CharsetInv
  <2>2. l.us \in Willing /\ Utters(lib[Locid], l, {"WONT"})
    BY <1>5, <1>6
  <2> QED
    BY <1>2, <1>3, <1>4, <2>1, <2>2, ReadableLocid
<1>7. Quietly(s, sess')
  BY <1>2, SessionQuietly
<1>8. ASSUME Calm', ~hist'.unsettled
      PROVE  Agreed(wire', up', sess', down', page'.charset, charset', hist'.disputed)
  <2> DEFINE b == hist.disputed
             w == wire'
  <2>1. Agreed(wire, up, sess, down, page.charset, charset, b)
    BY <1>5, <1>8 DEF CharsetInv, SameTalk
  <2>2. Agreed(w, up, s, down, page.charset, charset, b)
    BY <1>3, <1>4, <1>5, <1>8, <2>1
  <2>3. Agreed(w, up, sess', down, page.charset, charset, b)
    BY <1>7, <2>2 DEF Agreed, Quietly, Settles
  <2> QED
    BY <1>2, <2>3 DEF SameTalk
<1>9. Calm' => page'.ws \/ hist'.unsettled
  BY <1>2, <1>5 DEF CharsetInv, SameTalk
<1> QED
  BY <1>6, <1>8, <1>9 DEF CharsetInv

\* ... which is nothing about the charset.
LEMMA DoneQuietly ==
    ASSUME TypeInv, StreamInv, CharsetInv, rx.left > 0, NEW n \in 1 .. rx.left,
           NEW l \in Speaking(Game), NEW s \in Session, NEW r, Done(n, l, s, r),
           SameTalk(hist, hist'), Quietly(sess, s),
           Calm /\ Calm' => /\ l.us \in Willing
                            /\ Utters(lib[Locid], l, {"WONT"} \cup Naming)
    PROVE  CharsetInv'
<1>1. wire \in Wires /\ l.out \in Seq(Wording(Game))
  BY TypeFacts DEF Speaking
<1>2. ASSUME Calm, Calm'
      PROVE  l.us \in Willing /\ Utters(lib[Locid], l, {"WONT"}) /\ Never(Naming, l.out)
  BY <1>2, NeverFewer DEF Utters
<1>3. ASSUME NEW h, NEW c, NEW b, wire'[Game] = wire[Game] \o l.out,
             Never({"REQUEST"}, wire[Locid]) => Never({"REQUEST"}, wire'[Locid]),
             Calm, Calm', Agreed(wire, up, sess, down, h, c, b)
      PROVE  Agreed(wire', up, s, down, h, c, b)
  BY <1>1, <1>2, <1>3, AgreedQuietly
<1> QED
  BY <1>2, <1>3, DoneCharset

\* ... or nothing at all.
LEMMA DoneSilently ==
    ASSUME TypeInv, StreamInv, CharsetInv, rx.left > 0, NEW n \in 1 .. rx.left,
           NEW s, NEW r, Done(n, lib[Locid], s, r), SameTalk(hist, hist'), Quietly(sess, s)
    PROVE  CharsetInv'
<1>1. lib[Locid] \in Speaking(Game) /\ lib[Locid].out = <<>> /\ s \in Session
  BY TypeFacts DEF Quietly
<1>2. Calm => lib[Locid].us \in Willing
  BY DEF CharsetInv, Readable
<1>3. Utters(lib[Locid], lib[Locid], {"WONT"} \cup Naming)
  BY <1>1, UttersNothing
<1> QED
  BY <1>1, <1>2, <1>3, DoneQuietly

LEMMA TalkFields ==
    ASSUME NEW h \in History
    PROVE  /\ \A x : SameTalk(h, [h EXCEPT !.spoke = x])
           /\ \A x, y : SameTalk(h, [h EXCEPT !.spoke = x, !.strayed = y])
           /\ \A x, y, z : SameTalk(h, [h EXCEPT !.spoke = x, !.strayed = y, !.hushed = z])
           /\ \A x, y : SameTalk(h, [h EXCEPT !.spoke = x, !.refed = y])
           /\ \A x : SameTalk(h, [h EXCEPT !.hushed = x])
           /\ \A x : SameTalk(h, [h EXCEPT !.spanned = x])
           /\ \A x : SameTalk(h, [h EXCEPT !.bypassed = h.bypassed \/ x])
           /\ \A x : \A e \in End : SameTalk(h, [h EXCEPT !.got[e] = x])
           /\ \A x : \A e \in End : SameTalk(h, [h EXCEPT !.sent[e] = x])
           /\ SameTalk(h, h)
  BY DEF SameTalk, History

-----------------------------------------------------------------------------
(* The charset: locid reads *)

\* Handlers that pass on text, a mode or a protocol, or tick off a check.
LEMMA RxQuietCharset ==
    ASSUME TypeInv, StreamInv, CharsetInv,
           RxText \/ RxEcho \/ RxGmcp \/ RxMssp \/ RxAnswer \/ RxFreed
    PROVE  CharsetInv'
<1>1. /\ rx.left > 0 /\ sess \in Session /\ hist \in History /\ Locid \in End
      /\ 1 \in 1 .. rx.left /\ rx.left \in 1 .. rx.left /\ It \in Wording(Locid)
  BY TypeFacts, ReadFacts DEF RxText, RxEcho, RxGmcp, RxMssp, RxAnswer, RxFreed, Reads
<1>2. CASE RxText
  <2>1. Done(1, lib[Locid], Show(sess, It.arg), rx) /\ It.arg \in Nat
    BY <1>1, <1>2 DEF RxText, Reads, Wording
  <2>2. SameTalk(hist, hist')
    BY <1>1, <1>2, TalkFields DEF RxText
  <2>3. Quietly(sess, Show(sess, It.arg))
    BY <1>1, <2>1, SessionQuietly
  <2> QED
    BY <1>1, <2>1, <2>2, <2>3, DoneSilently
<1>3. CASE RxEcho
  <2> DEFINE a == [sess EXCEPT !.echo = It.arg]
             b == Checked(a, {"TELNET"})
             c == PushEcho(b)
  <2>1. Done(1, lib[Locid], c, rx) /\ It.arg \in {0, 1}
    BY <1>1, <1>3 DEF RxEcho, Reads, Wording
  <2>2. SameTalk(hist, hist')
    BY <1>1, <1>3, TalkFields DEF RxEcho
  <2>3. Quietly(sess, a) /\ a \in Session
    BY <1>1, <2>1, SessionQuietly DEF Quietly
  <2> HIDE DEF a
  <2>4. Quietly(a, b) /\ b \in Session
    BY <2>3, SessionQuietly DEF Quietly
  <2> HIDE DEF b
  <2>5. Quietly(b, c)
    BY <2>4, PushEchoQuietly
  <2> HIDE DEF c
  <2>6. Quietly(sess, c)
    BY <2>3, <2>4, <2>5, QuietlyTrans
  <2> QED
    BY <1>1, <2>1, <2>2, <2>6, DoneSilently
<1>4. CASE RxGmcp
  <2> DEFINE a == Checked(sess, {"TELNET", "MUD"})
             b == Push(a, "GMCP", 1)
  <2>1. Done(1, lib[Locid], b, rx)
    BY <1>4 DEF RxGmcp
  <2>2. SameTalk(hist, hist')
    BY <1>1, <1>4, TalkFields DEF RxGmcp
  <2>3. Quietly(sess, a) /\ a \in Session
    BY <1>1, SessionQuietly DEF Quietly
  <2>4. Msg("GMCP", 1) \in Tidings
    BY DEF Msg, Tidings, Message
  <2> HIDE DEF a
  <2>5. Quietly(a, b)
    BY <2>3, <2>4, PushQuietly
  <2> HIDE DEF b
  <2>6. Quietly(sess, b)
    BY <2>3, <2>5, QuietlyTrans
  <2> QED
    BY <1>1, <2>1, <2>2, <2>6, DoneSilently
<1>5. CASE RxMssp
  <2>1. Done(1, lib[Locid], Checked(sess, Check), rx)
    BY <1>5 DEF RxMssp
  <2>2. SameTalk(hist, hist')
    BY <1>1, <1>5, TalkFields DEF RxMssp
  <2>3. Quietly(sess, Checked(sess, Check))
    BY <1>1, SessionQuietly
  <2> QED
    BY <1>1, <2>1, <2>2, <2>3, DoneSilently
<1>6. CASE RxAnswer
  <2>1. Done(1, lib[Locid], Checked(sess, {"TELNET"}), rx)
    BY <1>6 DEF RxAnswer
  <2>2. SameTalk(hist, hist')
    BY <1>1, <1>6, TalkFields DEF RxAnswer
  <2>3. Quietly(sess, Checked(sess, {"TELNET"}))
    BY <1>1, SessionQuietly
  <2> QED
    BY <1>1, <2>1, <2>2, <2>3, DoneSilently
<1>7. CASE RxFreed
  <2>1. Done(rx.left, lib[Locid], sess, rx)
    BY <1>7 DEF RxFreed
  <2>2. SameTalk(hist, hist')
    BY <1>1, <1>7, TalkFields DEF RxFreed
  <2>3. Quietly(sess, sess)
    BY <1>1, SessionQuietly
  <2> QED
    BY <1>1, <2>1, <2>2, <2>3, DoneSilently
<1> QED
  BY <1>2, <1>3, <1>4, <1>5, <1>6, <1>7

LEMMA RxDontCharset ==
    ASSUME TypeInv, StreamInv, CharsetInv, NEW stray, RxDont(stray)
    PROVE  CharsetInv'
<1> DEFINE a == Checked(sess, {"TELNET"})
           b == Stray(a, stray)
<1>1. rx.left > 0 /\ sess \in Session /\ hist \in History /\ 1 \in 1 .. rx.left
  BY TypeFacts, ReadFacts DEF RxDont, Reads
<1>2. Done(1, lib[Locid], b, rx)
  BY DEF RxDont
<1>3. SameTalk(hist, hist')
  BY <1>1, TalkFields DEF RxDont
<1>4. Quietly(sess, a) /\ a \in Session
  BY <1>1, SessionQuietly DEF Quietly
<1> HIDE DEF a
<1>5. Quietly(a, b)
  BY <1>4, SessionQuietly
<1> HIDE DEF b
<1>6. Quietly(sess, b)
  BY <1>4, <1>5, QuietlyTrans
<1> QED
  BY <1>1, <1>2, <1>3, <1>6, DoneSilently

\* As nothing makes the game say DONT, what is answered keeps locid's side.
LEMMA RxMccpxCharset ==
    ASSUME TypeInv, StreamInv, CharsetInv, NEW stray, RxMccpx(stray)
    PROVE  CharsetInv'
<1> DEFINE l == Hear(lib[Locid], It)
           a == Checked(sess, Proves(lib[Locid], It))
           s == Stray(a, stray)
           x == CallOn(l)
<1>1. /\ rx.left > 0 /\ It.say \in About /\ sess \in Session /\ hist \in History
      /\ 1 \in 1 .. rx.left /\ It \in Wording(Locid) /\ lib[Locid] \in Speaking(Game)
      /\ lib[Locid].out = <<>> /\ wire \in Wires
  BY TypeFacts, ReadFacts DEF RxMccpx, Reads
<1>2. Done(1, l, s, x)
  BY DEF RxMccpx
<1>3. SameTalk(hist, hist')
  BY <1>1, TalkFields DEF RxMccpx
<1>4. Quietly(sess, a) /\ a \in Session
  BY <1>1, SessionQuietly DEF Quietly
<1> HIDE DEF a
<1>5. Quietly(a, s)
  BY <1>4, SessionQuietly
<1>6. Quietly(sess, s) /\ s \in Session
  BY <1>4, <1>5, QuietlyTrans DEF Quietly
<1> HIDE DEF s
<1>7. l \in Speaking(Game)
  <2>1. It.say = "BEGIN" => It.arg \in Nat
    BY <1>1 DEF Wording
  <2> QED
    BY <1>1, <2>1, HearType
<1>8. ASSUME Calm
      PROVE  l.us \in Willing /\ Utters(lib[Locid], l, {"WONT"} \cup Naming)
  <2>1. lib[Locid].us \in Willing /\ Never({"DONT"}, wire[Locid])
    BY <1>8 DEF CharsetInv, Readable
  <2>2. wire[Locid] # <<>> /\ wire[Locid] \in Seq(Wording(Locid))
    BY <1>1, ReadingFlow DEF Wires, End
  <2>3. It.say # "DONT"
    BY <2>1, <2>2, NeverParts DEF It
  <2> QED
    BY <1>1, <2>1, <2>3, LocidUtters
<1> HIDE DEF l, x
<1> QED
  BY <1>1, <1>2, <1>3, <1>6, <1>7, <1>8, DoneQuietly

LEMMA RxAytCharset ==
    ASSUME TypeInv, StreamInv, CharsetInv, RxAyt
    PROVE  CharsetInv'
<1> DEFINE o == lib[Locid]
           i == Item(0, "YES", 0)
           l == [o EXCEPT !.out = Append(@, i)]
           b == lib[Locid].enc # 0
<1>1. /\ rx.left > 0 /\ sess \in Session /\ hist \in History /\ 1 \in 1 .. rx.left
      /\ o \in Speaking(Game) /\ o.out = <<>> /\ o.enc \in Nat
  BY TypeFacts, ReadFacts DEF RxAyt, Reads
<1>2. i \in Wording(Game) /\ i.say = "YES"
  BY DEF Item, Wording, Said, Arg
<1>3. Done(1, l, sess, rx) /\ hist' = [hist EXCEPT !.bypassed = hist.bypassed \/ b]
  BY DEF RxAyt
<1>4. SameTalk(hist, hist') /\ (Calm' => o.enc = 0)
  <2>1. hist'.bypassed = (hist.bypassed \/ b)
    BY <1>1, <1>3 DEF History
  <2> QED
    BY <1>1, <1>3, <2>1, TalkFields DEF Calm
<1>5. /\ l \in Speaking(Game) /\ l.us = o.us /\ l.enc = o.enc /\ l.out = Append(o.out, i)
  <2>1. Append(o.out, i) \in Seq(Wording(Game))
    BY <1>1, <1>2, AppendProperties DEF Speaking
  <2> QED
    BY <1>1, <2>1 DEF Speaking
<1>6. Quietly(sess, sess)
  BY <1>1, SessionQuietly
<1> HIDE DEF l
<1>7. ASSUME Calm, Calm'
      PROVE  l.us \in Willing /\ Utters(o, l, {"WONT"} \cup Naming)
  <2> DEFINE W == {"WONT"} \cup Naming
  <2>1. o.us \in Willing
    BY <1>7 DEF CharsetInv, Readable
  <2>2. "YES" \notin W
    BY DEF Naming
  <2>3. Item(o.enc, "YES", 0) \in Wording(Game) /\ l.out = Append(o.out, Item(o.enc, "YES", 0))
    BY <1>2, <1>4, <1>5, <1>7
  <2> HIDE DEF W, o
  <2>4. Utters(o, o, W)
    BY <1>1, UttersNothing
  <2>5. Utters(o, l, W)
    BY <1>1, <1>5, <2>2, <2>3, <2>4, UttersPlain
  <2> QED
    BY <1>5, <2>1, <2>5 DEF W
<1> QED
  BY <1>1, <1>3, <1>4, <1>5, <1>6, <1>7, DoneQuietly

\* A decoder that chokes says at most DONT.
LEMMA ChokeCharset ==
    ASSUME TypeInv, StreamInv, CharsetInv, rx.left > 0, SameTalk(hist, hist'),
           NEW a \in Speaking(Game),
           Calm => /\ a.us \in Willing
                   /\ Utters(lib[Locid], a, {"WONT"} \cup Naming),
           NEW s \in Session, Quietly(sess, s),
           NEW l \in Choke(a), Done(rx.left, l, s, rx)
    PROVE  CharsetInv'
<1> DEFINE W == {"WONT"} \cup Naming
<1>1. rx.left \in 1 .. rx.left
  BY TypeFacts, ReadFacts
<1>2. l \in Speaking(Game)
  BY ChokeType
<1>3. "DO" \notin W /\ "DONT" \notin W
  BY DEF Naming
<1> HIDE DEF W
<1>4. Calm => l.us = a.us /\ Utters(lib[Locid], l, W)
  BY <1>3, ChokeUtters DEF W
<1>5. Calm => l.us \in Willing /\ Utters(lib[Locid], l, {"WONT"} \cup Naming)
  BY <1>4 DEF W
<1> QED
  BY <1>1, <1>2, <1>5, DoneQuietly

LEMMA RxUnreadableCharset ==
    ASSUME TypeInv, StreamInv, CharsetInv, RxUnreadable \/ RxSpoilt
    PROVE  CharsetInv'
<1> DEFINE o == lib[Locid]
<1>1. /\ rx.left > 0 /\ sess \in Session /\ hist \in History
      /\ 1 \in 1 .. rx.left /\ rx.left \in 1 .. rx.left
      /\ o \in Speaking(Game) /\ o.out = <<>>
  BY TypeFacts, ReadFacts DEF RxUnreadable, RxSpoilt
<1>2. SameTalk(hist, hist') /\ Quietly(sess, sess)
  <2>1. SameTalk(hist, hist) /\ SameTalk(hist, [hist EXCEPT !.spanned = TRUE])
    BY <1>1, TalkFields
  <2>2. hist' = hist \/ hist' = [hist EXCEPT !.spanned = TRUE]
    BY DEF RxUnreadable, RxSpoilt
  <2> QED
    BY <1>1, <2>1, <2>2, SessionQuietly
<1>3. CASE Done(1, o, sess, rx)
  BY <1>1, <1>2, <1>3, DoneSilently
<1>4. Calm => o.us \in Willing
  BY DEF CharsetInv, Readable
<1>5. Utters(o, o, {"WONT"} \cup Naming)
  BY <1>1, UttersNothing
<1>6. ASSUME NEW l \in Choke(o), Done(rx.left, l, sess, rx)
      PROVE  CharsetInv'
  BY <1>1, <1>2, <1>4, <1>5, <1>6, ChokeCharset
<1>7. CASE Done(rx.left, EndRecv(o), sess, rx)
  <2>1. EndRecv(o) \in Choke(o)
    BY DEF Choke
  <2> QED
    BY <1>6, <1>7, <2>1
<1> QED
  BY <1>3, <1>6, <1>7 DEF RxUnreadable, RxSpoilt

\* ... after the BEGIN of its own stream.
LEMMA RxAcceptCharset ==
    ASSUME TypeInv, StreamInv, CharsetInv, RxAccept
    PROVE  CharsetInv'
<1> DEFINE a == Hear(lib[Locid], It)
           s == Checked(sess, Proves(lib[Locid], It))
           spoke == hist.spoke \cup Proves(lib[Locid], It)
<1>1. /\ rx.left > 0 /\ It.say = "ACCEPT" /\ sess \in Session /\ hist \in History
      /\ It \in Wording(Locid) /\ lib[Locid] \in Speaking(Game)
      /\ lib[Locid].out = <<>> /\ It.say \in About
  BY TypeFacts, ReadFacts DEF RxAccept, Reads, About
<1>2. PICK l \in Choke(a) : Done(rx.left, l, s, rx)
  BY DEF RxAccept
<1>3. hist' = [hist EXCEPT !.spoke = spoke, !.refed = TRUE]
  BY DEF RxAccept
<1>4. Quietly(sess, s) /\ s \in Session
  BY <1>1, SessionQuietly DEF Quietly
<1>5. a \in Speaking(Game)
  BY <1>1, HearType
<1>6. ASSUME Calm
      PROVE  a.us \in Willing /\ Utters(lib[Locid], a, {"WONT"} \cup Naming)
  <2>1. lib[Locid].us \in Willing
    BY <1>6 DEF CharsetInv, Readable
  <2> QED
    BY <1>1, <2>1, LocidUtters
<1> HIDE DEF a, s, spoke
<1>7. SameTalk(hist, hist')
  BY <1>1, <1>3, TalkFields
<1> QED
  BY <1>1, <1>2, <1>4, <1>5, <1>6, <1>7, ChokeCharset

\* One word that leaves the stream as it is.
LEMMA SendUtters ==
    ASSUME NEW e, NEW o \in Speaking(e), o.out = <<>>, NEW say, NEW arg,
           Item(o.enc, say, arg) \in Wording(e), say \notin {"BEGIN", "WONT"}
    PROVE  LET l == Send(o, say, arg) IN
           /\ l \in Speaking(e) /\ l.us = o.us /\ l.him = o.him /\ l.dec = o.dec
           /\ l.out = <<Item(o.enc, say, arg)>>
           /\ \A W : say \notin W => Utters(o, l, W)
<1> DEFINE i == Item(o.enc, say, arg)
           l == Send(o, say, arg)
<1>1. l \in Speaking(e) /\ l.enc = o.enc
  BY SendType
<1>2. l.us = o.us /\ l.him = o.him /\ l.dec = o.dec /\ l.out = Append(o.out, i)
  BY DEF Send, Speaking
<1>3. Append(<<>>, i) = <<i>>
  OBVIOUS
<1> HIDE DEF l
<1>4. ASSUME NEW W, say \notin W
      PROVE  Utters(o, l, W)
  <2>1. Utters(o, o, W)
    BY UttersNothing
  <2> QED
    BY <1>1, <1>2, <1>4, <2>1, UttersPlain
<1> QED
  BY <1>1, <1>2, <1>3, <1>4 DEF l

\* The game may be told: its DO comes late, or early.
LEMMA RxDoCharsetCharset ==
    ASSUME TypeInv, StreamInv, CharsetInv, RxDoCharset
    PROVE  CharsetInv'
<1> DEFINE o == lib[Locid]
           a == [sess EXCEPT !.cs = TRUE]
           s == Checked(a, {"TELNET"})
           i == Item(o.enc, "REQUEST", s.charset)
           l == Send(o, "REQUEST", s.charset)
<1>1. /\ rx.left > 0 /\ sess \in Session /\ hist \in History /\ 1 \in 1 .. rx.left
      /\ o \in Speaking(Game) /\ o.out = <<>> /\ o.enc \in Nat /\ wire \in Wires
      /\ Locid # Game
  BY TypeFacts, ReadFacts DEF RxDoCharset, Reads
<1>2. a \in Session /\ a.cs /\ a.q = sess.q /\ a.charset = sess.charset
  BY <1>1 DEF Session
<1> HIDE DEF a
<1>3. s \in Session /\ s.cs /\ s.charset = sess.charset /\ s.q = a.q
  <2>1. Quietly(a, s)
    BY <1>2, SessionQuietly
  <2>2. s.q = a.q
    BY <1>2 DEF Checked, Session
  <2> QED
    BY <1>2, <2>1, <2>2 DEF Quietly
<1>4. Done(1, SendRequest(o, s), s, rx) /\ SameTalk(hist, hist')
  BY <1>1, TalkFields DEF RxDoCharset, a
<1> HIDE DEF s
<1>5. Done(1, l, s, rx)
  BY <1>3, <1>4 DEF SendRequest
<1>6. i \in Wording(Game) /\ i.say \in Naming /\ i.arg = sess.charset
  BY <1>1, <1>3 DEF Item, Wording, Said, Arg, Naming, Session
<1>7. l \in Speaking(Game) /\ l.us = o.us /\ l.out = <<i>> /\ Utters(o, l, {"WONT"})
  BY <1>1, <1>6, SendUtters
<1>8. Calm => o.us \in Willing
  BY DEF CharsetInv, Readable
<1>9. wire[Game] \in Seq(Wording(Game))
  BY <1>1 DEF Wires, End
<1> HIDE DEF l, i
<1>10. ASSUME NEW h, NEW c, NEW b, wire'[Game] = wire[Game] \o l.out,
              Never({"REQUEST"}, wire[Locid]) => Never({"REQUEST"}, wire'[Locid]),
              Agreed(wire, up, sess, down, h, c, b)
       PROVE  Agreed(wire', up, s, down, h, c, b)
  <2> DEFINE w == wire'
  <2>1. Heeds(w[Game], c, s.charset, b)
    BY <1>3, <1>6, <1>7, <1>9, <1>10, HeedsMore
  <2>2. Never({"REQUEST"}, wire[Locid]) => Never({"REQUEST"}, w[Locid])
    BY <1>10
  <2> HIDE DEF w
  <2>3. Agreed(w, up, s, down, h, c, b)
    BY <1>2, <1>3, <1>10, <2>1, <2>2 DEF Agreed
  <2> QED
    BY <2>3 DEF w
<1>11. Calm => l.us \in Willing /\ Utters(lib[Locid], l, {"WONT"})
  BY <1>7, <1>8
<1> HIDE DEF o
<1> QED
  BY <1>1, <1>3, <1>4, <1>5, <1>7, <1>10, <1>11, DoneCharset

\* A charset of the game's list becomes the session's; both ends are told.
LEMMA RxOfferCharset ==
    ASSUME TypeInv, StreamInv, CharsetInv, RxOffer
    PROVE  CharsetInv'
<1> DEFINE o == lib[Locid]
           c == Accepted(It.arg)
           s == Checked(sess, {"TELNET"})
           a == [s EXCEPT !.charset = c]
           t == Push(a, "CHARSET", c)
<1>1. /\ rx.left > 0 /\ sess \in Session /\ hist \in History /\ 1 \in 1 .. rx.left
      /\ o \in Speaking(Game) /\ o.out = <<>> /\ o.enc \in Nat /\ wire \in Wires
      /\ Locid # Game /\ It \in Wording(Locid) /\ It.say = "REQUEST"
  BY TypeFacts, ReadFacts DEF RxOffer, Reads
<1>2. c \in Name \cup {NoName}
  <2>1. It.arg \in Offer
    BY <1>1 DEF Wording
  <2> QED
    BY <2>1, AcceptedType
<1>3. SameTalk(hist, hist')
  BY <1>1, TalkFields DEF RxOffer
<1>4. Quietly(sess, s) /\ s \in Session
  BY <1>1, SessionQuietly DEF Quietly
<1>5. Calm => o.us \in Willing
  BY DEF CharsetInv, Readable
<1>6. /\ c = NoName => Done(1, Send(o, "REJECTED", c), s, rx)
      /\ c # NoName => Done(1, Send(o, "ACCEPTED", c), t, rx)
  BY DEF RxOffer
<1> HIDE DEF c, s
<1>7. CASE c = NoName
  <2> DEFINE l == Send(o, "REJECTED", c)
  <2>1. Item(o.enc, "REJECTED", c) \in Wording(Game)
    BY <1>1, <1>2 DEF Item, Wording, Said, Arg
  <2>2. "REJECTED" \notin {"WONT"} \cup Naming
    BY DEF Naming
  <2>3. l \in Speaking(Game) /\ l.us = o.us /\ Utters(o, l, {"WONT"} \cup Naming)
    BY <1>1, <2>1, <2>2, SendUtters
  <2> HIDE DEF l
  <2>4. Calm => l.us \in Willing /\ Utters(lib[Locid], l, {"WONT"} \cup Naming)
    BY <1>5, <2>3
  <2>5. Done(1, l, s, rx)
    BY <1>6, <1>7 DEF l
  <2> HIDE DEF o
  <2> QED
    BY <1>1, <1>3, <1>4, <2>3, <2>4, <2>5, DoneQuietly
<1>8. CASE c # NoName
  <2> DEFINE i == Item(o.enc, "ACCEPTED", c)
             l == Send(o, "ACCEPTED", c)
  <2>1. c \in Name /\ Msg("CHARSET", c) \in Tidings
    BY <1>2, <1>8 DEF Msg, Tidings, Message
  <2>2. i \in Wording(Game) /\ i.say \in Naming /\ i.arg = c
    BY <1>1, <2>1 DEF Item, Wording, Said, Arg, Naming
  <2>3. l \in Speaking(Game) /\ l.us = o.us /\ l.out = <<i>> /\ Utters(o, l, {"WONT"})
    BY <1>1, <2>2, SendUtters
  <2>4. a \in Session /\ a.charset = c /\ a.cs = s.cs /\ a.q = s.q
    BY <1>4, <2>1 DEF Session
  <2> HIDE DEF a
  <2>5. /\ t \in Session /\ t.charset = c /\ t.q = Append(a.q, Msg("CHARSET", c))
    BY <2>1, <2>4, PushFields, PushQuietly
  <2>6. Ends("CHARSET", t.q, c)
    <3>1. a.q \in Seq(Tidings) /\ Msg("CHARSET", c).cmd = "CHARSET" /\ Msg("CHARSET", c).arg = c
      BY <2>4 DEF Session, Msg
    <3> QED
      BY <2>1, <2>5, <3>1, AppendEnds
  <2> HIDE DEF l, i, t
  <2>7. wire[Game] \in Seq(Wording(Game)) /\ wire[Locid] \in Seq(Wording(Locid))
        /\ wire[Locid] # <<>>
    BY <1>1, ReadingFlow DEF Wires, End
  <2>8. ~Never({"REQUEST"}, wire[Locid])
    BY <1>1, <2>7, NeverParts DEF It
  <2>9. ASSUME NEW h, NEW d, NEW b, wire'[Game] = wire[Game] \o l.out,
               Agreed(wire, up, sess, down, h, d, b)
        PROVE  Agreed(wire', up, t, down, h, d, b)
    <3>1. Without("CHARSET", up)
      BY <2>8, <2>9 DEF Agreed
    <3>2. Heeds(wire'[Game], d, t.charset, b)
      BY <2>2, <2>3, <2>5, <2>7, <2>9, HeedsMore
    <3> DEFINE w == wire'
    <3>3. Heeds(w[Game], d, t.charset, b)
      BY <3>2
    <3> HIDE DEF w
    <3>4. Agreed(w, up, t, down, h, d, b)
      BY <2>5, <2>6, <3>1, <3>3 DEF Agreed, Settles
    <3> QED
      BY <3>4 DEF w
  <2>10. Calm => l.us \in Willing /\ Utters(lib[Locid], l, {"WONT"})
    BY <1>5, <2>3
  <2>11. Done(1, l, t, rx)
    BY <1>6, <1>8 DEF l
  <2> HIDE DEF o
  <2> QED
    BY <1>1, <1>3, <2>3, <2>5, <2>9, <2>10, <2>11, DoneCharset
<1> QED
  BY <1>7, <1>8

-----------------------------------------------------------------------------
(* The charset: locid's other callbacks *)

\* Nothing about the charset is said, read or forgotten.
LEMMA KeptCharset ==
    ASSUME TypeInv, CharsetInv, lib' = lib, charset' = charset, down' = down,
           page'.charset = page.charset, page.ws => page'.ws, wire'[Game] = wire[Game],
           \A W : Never(W, wire[Locid]) => Never(W, wire'[Locid]),
           Calm' => Calm /\ Quietly(sess, sess'),
           hist'.unsettled = hist.unsettled, hist'.disputed = hist.disputed,
           Without("CHARSET", up) <=> Without("CHARSET", up'),
           \A v : Ends("CHARSET", up, v) => Ends("CHARSET", up', v)
    PROVE  CharsetInv'
<1>1. ASSUME Calm'
      PROVE  Readable(lib', wire')
  BY <1>1 DEF CharsetInv, Readable
<1>2. ASSUME Calm', ~hist'.unsettled
      PROVE  Agreed(wire', up', sess', down', page'.charset, charset', hist'.disputed)
  <2> DEFINE w == wire'
             u == up'
             t == sess'
             b == hist.disputed
             has == page.charset
  <2>1. Agreed(wire, up, sess, down, has, charset, b) /\ Quietly(sess, t)
    BY <1>2 DEF CharsetInv
  <2>2. /\ w[Game] = wire[Game]
        /\ Never({"REQUEST"}, wire[Locid]) => Never({"REQUEST"}, w[Locid])
        /\ Without("CHARSET", up) <=> Without("CHARSET", u)
        /\ \A v : Ends("CHARSET", up, v) => Ends("CHARSET", u, v)
    OBVIOUS
  <2> HIDE DEF w, u, t, b, has
  <2>3. Agreed(w, u, t, down, has, charset, b)
    BY <2>1, <2>2 DEF Agreed, Quietly, Settles
  <2> QED
    BY <2>3 DEF w, u, t, b, has
<1>3. Calm' => page'.ws \/ hist'.unsettled
  BY DEF CharsetInv
<1> QED
  BY <1>1, <1>2, <1>3 DEF CharsetInv

\* What a callback notes of itself is nothing about the charset.
LEMMA CallbackTalk ==
    ASSUME TypeInv
    PROVE  LET f == hist.failed \/ Failed(sess)
               Same(h) == /\ h.unsettled = hist.unsettled /\ h.disputed = hist.disputed
                          /\ h.bypassed = hist.bypassed
               Noted(h) == Same(h) /\ h.failed = f
           IN  /\ Noted([hist EXCEPT !.failed = f])
               /\ \A x : Noted([hist EXCEPT !.failed = f, !.stalled = x])
               /\ \A x : Noted([hist EXCEPT !.failed = f, !.closed = x])
               /\ \A x : Same([hist EXCEPT !.sent[Game] = x])
               /\ \A x : [hist EXCEPT !.sent[Game] = x].failed = hist.failed
<1>1. hist \in History
  BY TypeFacts
<1> QED
  BY <1>1 DEF History

LEMMA EnforcedQuietly ==
    ASSUME TypeInv, ~Failed(sess)
    PROVE  Enforced(sess) = sess /\ Quietly(sess, sess)
<1>1. sess \in Session
  BY TypeFacts
<1> QED
  BY <1>1, SessionQuietly DEF Enforced

LEMMA RawRxCharset ==
    ASSUME TypeInv, CharsetInv, NEW k \in 1 .. Len(wire[Locid]), RawRx(k)
    PROVE  CharsetInv'
<1>1. /\ sess.st # "DOWN" /\ sess' = Enforced(sess)
      /\ hist' = [hist EXCEPT !.failed = hist.failed \/ Failed(sess)]
      /\ UNCHANGED <<lib, page, down, up, charset, plan>>
  BY DEF RawRx
<1>2. /\ hist'.unsettled = hist.unsettled /\ hist'.disputed = hist.disputed
      /\ hist'.bypassed = hist.bypassed /\ hist'.failed = (hist.failed \/ Failed(sess))
  BY <1>1, CallbackTalk
<1>3. /\ wire \in Wires /\ Locid \in End /\ Game \in End /\ Locid # Game
      /\ wire[Locid] \in Seq(Wording(Locid))
  BY TypeFacts DEF TypeInv
<1>4. /\ wire'[Game] = wire[Game]
      /\ \/ wire'[Locid] = wire[Locid]
         \/ wire'[Locid] = SubSeq(wire[Locid], k + 1, Len(wire[Locid]))
  <2>1. CASE sess'.st = "CLOSING"
    BY <1>3, <2>1 DEF RawRx, Wires
  <2>2. CASE sess'.st # "CLOSING"
    BY <2>2 DEF RawRx
  <2> QED
    BY <2>1, <2>2
<1>5. \A W : Never(W, wire[Locid]) => Never(W, wire'[Locid])
  BY <1>3, <1>4, NeverParts
<1>6. Calm' => Calm /\ Quietly(sess, sess')
  BY <1>1, <1>2, EnforcedQuietly DEF Calm, Connected
<1> QED
  BY <1>1, <1>2, <1>4, <1>5, <1>6, KeptCharset

\* The deadline, and the callback that finds the checks failed.
LEMMA TimerCharset ==
    ASSUME TypeInv, CharsetInv, DeadlinePasses \/ Timer
    PROVE  CharsetInv'
<1>1. UNCHANGED <<lib, wire, page, down, up, charset>> /\ hist \in History /\ sess \in Session
  BY TypeFacts DEF DeadlinePasses, Timer
<1>2. CASE DeadlinePasses
  <2>1. sess' = [sess EXCEPT !.due = TRUE] /\ hist' = hist
    BY <1>2 DEF DeadlinePasses
  <2>2. Quietly(sess, sess') /\ sess'.st = sess.st
    BY <1>1, <2>1 DEF Quietly, Session
  <2>3. Calm' => Calm
    BY <2>1, <2>2 DEF Calm, Connected
  <2> QED
    BY <1>1, <2>1, <2>2, <2>3, KeptCharset
<1>3. CASE Timer
  <2>1. hist'.failed
    BY <1>1, <1>3 DEF Timer, History
  <2> QED
    BY <2>1 DEF CharsetInv, Calm
<1> QED
  BY <1>2, <1>3

\* A message goes over, and what it settles with it.
LEMMA WriteableCharset ==
    ASSUME TypeInv, CharsetInv, Writeable
    PROVE  CharsetInv'
<1> DEFINE e == Enforced(sess)
           s == [e EXCEPT !.want = FALSE]
<1>1. /\ Idle /\ sess \in Session /\ down \in Seq(Tidings)
      /\ UNCHANGED <<lib, wire, page, up, charset>>
  BY DEF TypeInv, Writeable
<1>2. /\ hist'.unsettled = hist.unsettled /\ hist'.disputed = hist.disputed
      /\ hist'.bypassed = hist.bypassed /\ hist'.failed = (hist.failed \/ Failed(sess))
  BY CallbackTalk DEF Writeable
<1>3. \/ sess' = s /\ down' = down
      \/ /\ s.q # <<>> /\ down' = Append(down, Head(s.q))
         /\ sess' = [s EXCEPT !.q = Tail(@), !.want = Tail(s.q) # <<>>]
  BY DEF Writeable
<1>4. CASE Failed(sess)
  BY <1>2, <1>4 DEF CharsetInv, Calm
<1>5. CASE ~Failed(sess)
  <2>1. s = [sess EXCEPT !.want = FALSE]
    BY <1>5, EnforcedQuietly
  <2> HIDE DEF s
  <2>2. Quietly(sess, s) /\ s.st = sess.st /\ s.q = sess.q
    BY <1>1, <2>1 DEF Quietly, Session
  <2>3. CASE sess' = s /\ down' = down
    <3>1. Calm' => Calm /\ Quietly(sess, sess')
      BY <1>2, <2>2, <2>3 DEF Calm, Connected
    <3> QED
      BY <1>1, <1>2, <2>3, <3>1, KeptCharset
  <2>4. CASE /\ s.q # <<>> /\ down' = Append(down, Head(s.q))
             /\ sess' = [s EXCEPT !.q = Tail(@), !.want = Tail(s.q) # <<>>]
    <3> DEFINE m == Head(s.q)
               t == sess'
               d == down'
    <3>1. /\ t.q = Tail(s.q) /\ t.charset = sess.charset /\ t.cs = sess.cs /\ t.st = sess.st
          /\ s.q \in Seq(Tidings) /\ d = Append(down, m)
      BY <1>1, <2>1, <2>4 DEF Session
    <3>2. m \in Tidings
      BY <2>4, <3>1, HeadTailProperties
    <3>3. Without("CHARSET", s.q) => m.cmd # "CHARSET" /\ Without("CHARSET", t.q)
      <4>1. \A x : Without(x, s.q) => Head(s.q).cmd # x /\ Without(x, Tail(s.q))
        BY <2>4, <3>1, TailEnds
      <4> QED
        BY <3>1, <4>1
    <3>4. Without("CHARSET", s.q) /\ Without("CHARSET", down) => Without("CHARSET", d)
      BY <1>1, <3>1, <3>2, <3>3, AppendEnds
    <3> DEFINE has == page.charset
               b == hist.disputed
    <3>5. Settles("CHARSET", s.q, down, has, sess.charset)
          => Settles("CHARSET", t.q, d, has, sess.charset)
      BY <1>1, <2>4, <3>1, MoveSettles
    <3> HIDE DEF m, t, d, has, b
    <3>6. Agreed(wire, up, sess, down, has, charset, b) => Agreed(wire, up, t, d, has, charset, b)
      BY <2>2, <3>1, <3>3, <3>4, <3>5 DEF Agreed
    <3>7. Calm' => Calm
      BY <1>2, <3>1 DEF Calm, Connected, t
    <3> QED
      BY <1>1, <1>2, <3>6, <3>7 DEF CharsetInv, t, d, has, b
  <2> QED
    BY <1>3, <2>3, <2>4
<1> QED
  BY <1>4, <1>5

\* What was there before is still there.
LEMMA AppendWithout ==
    ASSUME NEW S, NEW q \in Seq(S), NEW m \in S, NEW c, Without(c, Append(q, m))
    PROVE  Without(c, q)
<1> DEFINE a == Append(q, m)
<1>1. /\ DOMAIN q = 1 .. Len(q) /\ DOMAIN a = 1 .. Len(q) + 1 /\ Len(q) \in Nat
      /\ \A i \in 1 .. Len(q) : a[i] = q[i]
  BY AppendProperties
<1> HIDE DEF a
<1> QED
  BY <1>1 DEF Without, a

\* The user's choice becomes the session's, and the game is asked for it.
LEMMA ReceiveCharset ==
    ASSUME TypeInv, CharsetInv, Receive
    PROVE  CharsetInv'
<1> DEFINE o == lib[Locid]
           m == Head(up)
           s == Enforced(sess)
           c == [s EXCEPT !.charset = m.arg]
           d == [s EXCEPT !.st = "CLOSING"]
           t == CASE m.cmd = "CHARSET" -> c
                  [] m.cmd = "DISCONNECT" /\ s.st # "DOWN" -> Push(d, "CONNECT", 0)
                  [] OTHER -> s
           l == CASE m.cmd = "TERM"    -> Send(o, "TEXT", m.arg)
                  [] m.cmd = "CHARSET" -> SendRequest(o, t)
                  [] OTHER             -> o
<1>1. /\ up # <<>> /\ sess' = t /\ up' = Tail(up)
      /\ lib' = [lib EXCEPT ![Locid] = [l EXCEPT !.out = <<>>]]
      /\ wire' = [wire EXCEPT ![Game] = @ \o (IF t.st = "DOWN" THEN <<>> ELSE l.out)]
      /\ hist' = [hist EXCEPT !.failed = hist.failed \/ Failed(sess)]
      /\ UNCHANGED <<rx, page, down, charset, plan>>
  BY DEF Receive
<1>2. /\ wire \in Wires /\ Locid \in End /\ Game \in End /\ Locid # Game /\ up \in Seq(Wishes)
      /\ sess \in Session /\ o \in Speaking(Game) /\ o.out = <<>> /\ o.enc \in Nat
      /\ wire[Game] \in Seq(Wording(Game))
  BY TypeFacts DEF TypeInv
<1>3. m \in Wishes
  BY <1>1, <1>2, HeadTailProperties
<1>4. /\ hist'.unsettled = hist.unsettled /\ hist'.disputed = hist.disputed
      /\ hist'.bypassed = hist.bypassed /\ hist'.failed = (hist.failed \/ Failed(sess))
  BY <1>1, CallbackTalk
<1>5. /\ \A x : Without(x, up) => m.cmd # x /\ Without(x, up')
      /\ \A v : Ends("CHARSET", up, v) => \/ Ends("CHARSET", up', v)
                                          \/ /\ m.cmd = "CHARSET" /\ m.arg = v
                                             /\ Without("CHARSET", up')
  BY <1>1, <1>2, TailEnds
<1> SUFFICES ASSUME Calm'
             PROVE  CharsetInv'
  BY DEF CharsetInv
<1>6. Calm /\ s = sess
  <2>1. ~Failed(sess) /\ ~hist.failed /\ ~hist.bypassed
    BY <1>4 DEF Calm
  <2>2. s = sess /\ s.st = sess.st
    BY <2>1, EnforcedQuietly
  <2> HIDE DEF s
  <2>3. c.st = sess.st /\ d.st = "CLOSING" /\ "st" \in DOMAIN d
    BY <1>2, <2>2 DEF Session
  <2>4. Push(d, "CONNECT", 0).st = "CLOSING"
    BY <2>3, StKept
  <2> HIDE DEF c, d
  <2>5. t.st # "DOWN" => sess.st # "DOWN"
    BY <2>2, <2>3, <2>4
  <2> QED
    BY <1>1, <2>1, <2>2, <2>5 DEF Calm, Connected
<1> HIDE DEF s, m
<1>7. /\ m.cmd = "CHARSET" => /\ c \in Session /\ c.charset = m.arg /\ c.cs = sess.cs
                              /\ c.q = sess.q
      /\ Quietly(sess, d) /\ d \in Session
  BY <1>2, <1>3, <1>6 DEF Session, Wishes, Quietly
<1>8. Quietly(sess, Push(d, "CONNECT", 0))
  <2>1. Msg("CONNECT", 0) \in Tidings
    BY DEF Msg, Tidings, Message
  <2> HIDE DEF d
  <2> QED
    BY <1>7, <2>1, PushQuietly, QuietlyTrans
<1>9. Quietly(sess, sess)
  BY <1>2, SessionQuietly
<1> HIDE DEF c, d
<1>10. /\ m.cmd = "CHARSET" => t = c
       /\ m.cmd # "CHARSET" => Quietly(sess, t)
  BY <1>6, <1>8, <1>9
<1>11. /\ m.cmd = "TERM" => l = Send(o, "TEXT", m.arg)
       /\ m.cmd = "CHARSET" => l = SendRequest(o, t)
       /\ m.cmd = "DISCONNECT" => l = o
  OBVIOUS
<1>12. t.st # "DOWN"
  BY <1>1 DEF Calm, Connected
<1> HIDE DEF t, l
<1>13. wire' = [wire EXCEPT ![Game] = @ \o l.out]
  BY <1>1, <1>12
<1>14. wire'[Game] = wire[Game] \o l.out /\ wire'[Locid] = wire[Locid]
  BY <1>2, <1>13 DEF Wires
<1>15. o.us \in Willing
  BY <1>6 DEF CharsetInv, Readable
<1>16. /\ l \in Speaking(Game) /\ l.us = o.us /\ Utters(o, l, {"WONT"})
       /\ m.cmd # "CHARSET" => Never(Naming, l.out)
       /\ m.cmd = "CHARSET" /\ sess.cs
          => \E i \in Wording(Game) : i.say = "REQUEST" /\ i.arg = m.arg /\ l.out = <<i>>
  <2> HIDE DEF o
  <2>1. CASE m.cmd = "TERM"
    <3>1. Item(o.enc, "TEXT", m.arg) \in Wording(Game)
      BY <1>2, <1>3, <2>1 DEF Wishes, Item, Wording, Said, Arg
    <3>2. "TEXT" \notin {"WONT"} \cup Naming
      BY DEF Naming
    <3>3. l = Send(o, "TEXT", m.arg)
      BY <1>11, <2>1
    <3>4. l \in Speaking(Game) /\ l.us = o.us /\ Utters(o, l, {"WONT"} \cup Naming)
      BY <1>2, <3>1, <3>2, <3>3, SendUtters
    <3> QED
      BY <2>1, <3>4, NeverFewer DEF Utters
  <2>2. CASE l = o /\ ~(m.cmd = "CHARSET" /\ sess.cs)
    <3>1. Utters(o, l, {"WONT"} \cup Naming)
      BY <1>2, <2>2, UttersNothing
    <3> QED
      BY <1>2, <2>2, <3>1, NeverFewer DEF Utters
  <2>3. CASE m.cmd = "CHARSET" /\ sess.cs
    <3> DEFINE i == Item(o.enc, "REQUEST", m.arg)
    <3>1. i \in Wording(Game) /\ i.say = "REQUEST" /\ i.arg = m.arg
      BY <1>2, <1>3, <2>3 DEF Wishes, Item, Wording, Said, Arg
    <3>2. l = Send(o, "REQUEST", m.arg)
      BY <1>7, <1>10, <1>11, <2>3 DEF SendRequest
    <3>3. l \in Speaking(Game) /\ l.us = o.us /\ l.out = <<i>> /\ Utters(o, l, {"WONT"})
      BY <1>2, <3>1, <3>2, SendUtters
    <3> QED
      BY <2>3, <3>1, <3>3
  <2>4. m.cmd = "CHARSET" /\ ~sess.cs => l = o
    BY <1>7, <1>10, <1>11 DEF SendRequest
  <2>5. m.cmd \in {"TERM", "CHARSET", "DISCONNECT"}
    BY <1>3 DEF Wishes
  <2> QED
    BY <1>11, <2>1, <2>2, <2>3, <2>4, <2>5
<1>17. Readable(lib', wire')
  BY <1>1, <1>6, <1>14, <1>15, <1>16, ReadableLocid DEF CharsetInv
<1>18. ASSUME ~hist.unsettled
       PROVE  Agreed(wire', up', sess', down', page'.charset, charset', hist'.disputed)
  <2> DEFINE w == wire'
             u == up'
             has == page.charset
             b == hist.disputed
  <2>1. Agreed(wire, up, sess, down, has, charset, b)
    BY <1>6, <1>18 DEF CharsetInv
  <2>2. /\ w[Game] = wire[Game] \o l.out /\ w[Locid] = wire[Locid]
        /\ l.out \in Seq(Wording(Game))
    BY <1>14, <1>16 DEF Speaking
  <2>3. CASE m.cmd # "CHARSET"
    <3>1. Quietly(sess, t) /\ Never(Naming, l.out)
      BY <1>10, <1>16, <2>3
    <3>2. /\ Without("CHARSET", up) => Without("CHARSET", u)
          /\ \A v : Ends("CHARSET", up, v) => Ends("CHARSET", u, v)
      BY <1>5, <2>3
    <3> HIDE DEF w, u, has, b
    <3>3. Agreed(w, up, t, down, has, charset, b)
      BY <1>2, <2>1, <2>2, <3>1, AgreedQuietly
    <3>4. ~Without("CHARSET", up) => ~Without("CHARSET", u)
      <4>1. ASSUME ~Without("CHARSET", up)
            PROVE  Ends("CHARSET", u, has)
        BY <2>1, <3>2, <4>1 DEF Agreed
      <4> QED
        BY <4>1 DEF Ends, Without
    <3>5. Agreed(w, u, t, down, has, charset, b)
      BY <3>2, <3>3, <3>4 DEF Agreed
    <3> QED
      BY <1>1, <1>4, <3>5 DEF w, u, has, b
  <2>4. CASE m.cmd = "CHARSET"
    <3>1. /\ t.charset = m.arg /\ t.cs = sess.cs /\ t.q = sess.q
      BY <1>7, <1>10, <2>4
    <3>2. ~Without("CHARSET", up)
      BY <1>5, <2>4
    <3>3. /\ Never({"REQUEST"}, wire[Locid]) /\ Without("CHARSET", sess.q)
          /\ Without("CHARSET", down) /\ Ends("CHARSET", up, has)
      BY <2>1, <3>2 DEF Agreed
    <3>4. \/ Ends("CHARSET", u, has)
          \/ m.arg = has /\ Without("CHARSET", u)
      BY <1>5, <3>3
    <3>5. m.arg = has /\ t.cs => Heeds(w[Game], charset, t.charset, b)
      <4>1. ASSUME t.cs
            PROVE  Heeds(w[Game], charset, t.charset, b)
        <5>1. PICK i \in Wording(Game) : i.say = "REQUEST" /\ i.arg = m.arg /\ l.out = <<i>>
          BY <1>16, <2>4, <3>1, <4>1
        <5>2. i \in Wording(Game) /\ i.say \in Naming /\ i.arg = t.charset
          BY <3>1, <5>1 DEF Naming
        <5>3. Heeds(wire[Game] \o <<i>>, charset, t.charset, b)
          BY <1>2, <5>2, HeedsMore
        <5> QED
          BY <2>2, <5>1, <5>3
      <4> QED
        BY <4>1
    <3> HIDE DEF w, u, has, b
    <3>6. ASSUME Without("CHARSET", u)
          PROVE  Agreed(w, u, t, down, has, charset, b)
      <4>1. m.arg = has
        BY <3>4, <3>6 DEF Ends, Without
      <4>2. Settles("CHARSET", t.q, down, has, t.charset)
        BY <3>1, <3>3, <4>1 DEF Settles
      <4> QED
        BY <3>5, <3>6, <4>1, <4>2 DEF Agreed
    <3>7. ASSUME ~Without("CHARSET", u)
          PROVE  Agreed(w, u, t, down, has, charset, b)
      BY <2>2, <3>1, <3>3, <3>4, <3>7 DEF Agreed
    <3> QED
      BY <1>1, <1>4, <3>6, <3>7 DEF w, u, has, b
  <2> QED
    BY <2>3, <2>4
<1>19. page'.ws \/ hist'.unsettled
  BY <1>1, <1>4, <1>6 DEF CharsetInv
<1> QED
  BY <1>4, <1>17, <1>18, <1>19 DEF CharsetInv

\* A game that is gone agrees on nothing, and a lost websocket unsettles.
LEMMA SocketsCharset ==
    ASSUME TypeInv, CharsetInv, RawClose \/ WebsocketCloses \/ Lost \/ Roam
    PROVE  CharsetInv'
<1>1. sess \in Session /\ hist \in History /\ sess.st \in {"BLOCKING", "UP", "CLOSING", "DOWN"}
  BY TypeFacts
<1>2. CASE RawClose
  <2> DEFINE e == Enforced(sess)
             s == [e EXCEPT !.st = "DOWN"]
  <2>1. sess' = s \/ sess' = Push(s, "CONNECT", 0)
    BY <1>2 DEF RawClose
  <2>2. "st" \in DOMAIN s /\ s.st = "DOWN"
    BY EnforcedStates
  <2> HIDE DEF s
  <2>3. sess'.st = "DOWN"
    BY <2>1, <2>2, StKept
  <2> QED
    BY <2>3 DEF CharsetInv, Calm, Connected
<1>3. CASE WebsocketCloses
  <2>1. sess'.st = "DOWN"
    BY <1>1, <1>3 DEF WebsocketCloses, Session
  <2> QED
    BY <2>1 DEF CharsetInv, Calm, Connected
<1>4. CASE Lost
  <2>1. /\ sess' = [sess EXCEPT !.want = FALSE] /\ lib' = lib /\ wire' = wire
        /\ hist' = [hist EXCEPT !.dropped = TRUE, !.unsettled = TRUE]
    BY <1>4 DEF Lost
  <2>2. sess'.st = sess.st /\ hist'.unsettled /\ hist'.failed = hist.failed
        /\ hist'.bypassed = hist.bypassed
    BY <1>1, <2>1 DEF Session, History
  <2> QED
    BY <2>1, <2>2 DEF CharsetInv, Calm, Connected
<1>5. CASE Roam
  <2> DEFINE e == Enforced(sess)
             s == [e EXCEPT !.charset = Default, !.want = TRUE, !.q = Append(@, Msg("CONNECT", 1))]
  <2>1. /\ ~page.ws /\ sess.st # "DOWN" /\ lib' = lib /\ wire' = wire
        /\ hist' = [hist EXCEPT !.failed = hist.failed \/ Failed(sess)]
    BY <1>5 DEF Roam
  <2>2. /\ hist'.unsettled = hist.unsettled /\ hist'.bypassed = hist.bypassed
        /\ hist'.failed = (hist.failed \/ Failed(sess))
    BY <2>1, CallbackTalk
  <2>3. ASSUME Calm'
        PROVE  Calm /\ hist'.unsettled
    <3>1. Calm
      BY <2>1, <2>2, <2>3 DEF Calm, Connected
    <3> QED
      BY <2>1, <2>2, <3>1 DEF CharsetInv
  <2> QED
    BY <2>1, <2>3 DEF CharsetInv
<1> QED
  BY <1>2, <1>3, <1>4, <1>5

-----------------------------------------------------------------------------
(* The charset: the browser *)

\* A message is read, and what it settles with it.
LEMMA PageReadsCharset ==
    ASSUME TypeInv, CharsetInv, PageReads
    PROVE  CharsetInv'
<1> DEFINE m == Head(down)
           d == down'
           has == page.charset
           hat == IF m.cmd = "CHARSET" THEN m.arg ELSE has
           b == hist.disputed
<1>1. /\ down # <<>> /\ d = Tail(down) /\ down \in Seq(Tidings) /\ page \in PageType
      /\ UNCHANGED <<lib, wire, rx, sess, up, charset, plan, hist>>
  BY DEF PageReads, TypeInv
<1>2. page'.charset = hat /\ page'.ws = page.ws
  BY <1>1 DEF PageReads, PageType
<1>3. Calm' <=> Calm
  BY <1>1 DEF Calm, Connected
<1>4. \A x : Without(x, down) => m.cmd # x /\ Without(x, d)
  BY <1>1, TailEnds
<1>5. Settles("CHARSET", sess.q, down, has, sess.charset)
      => Settles("CHARSET", sess.q, d, hat, sess.charset)
  BY <1>1, ReadSettles
<1>6. Without("CHARSET", down) => hat = has
  BY <1>4
<1> HIDE DEF m, d, has, hat, b
<1>7. Agreed(wire, up, sess, down, has, charset, b) => Agreed(wire, up, sess, d, hat, charset, b)
  BY <1>4, <1>5, <1>6 DEF Agreed
<1> QED
  BY <1>1, <1>2, <1>3, <1>7 DEF CharsetInv, d, has, b

LEMMA TypedCharset ==
    ASSUME TypeInv, CharsetInv, Input \/ Disconnect
    PROVE  CharsetInv'
<1>1. up \in Seq(Wishes) /\ hist \in History /\ sess \in Session /\ Game \in End
  BY TypeFacts
<1>2. UNCHANGED <<lib, wire, sess, page, down, charset>>
  BY DEF Input, Disconnect
<1>3. PICK x \in Wishes : x.cmd # "CHARSET" /\ up' = Append(up, x)
  <2>1. CASE Input
    <3> DEFINE n == hist.sent[Game] + 1
    <3>1. n \in Nat
      BY <1>1 DEF History
    <3>2. up' = Append(up, Msg("TERM", n))
      BY <2>1 DEF Input
    <3> HIDE DEF n
    <3>3. Msg("TERM", n) \in Wishes /\ Msg("TERM", n).cmd # "CHARSET"
      BY <3>1 DEF Msg, Wishes
    <3> QED
      BY <3>2, <3>3
  <2>2. CASE Disconnect
    <3>1. up' = Append(up, Msg("DISCONNECT", 0))
      BY <2>2 DEF Disconnect
    <3>2. Msg("DISCONNECT", 0) \in Wishes /\ Msg("DISCONNECT", 0).cmd # "CHARSET"
      BY DEF Msg, Wishes
    <3> QED
      BY <3>1, <3>2
  <2> QED
    BY <2>1, <2>2
<1>4. /\ hist'.unsettled = hist.unsettled /\ hist'.disputed = hist.disputed
      /\ hist'.failed = hist.failed /\ hist'.bypassed = hist.bypassed
  <2>1. CASE Input
    BY <2>1, CallbackTalk DEF Input
  <2>2. CASE Disconnect
    BY <2>2 DEF Disconnect
  <2> QED
    BY <2>1, <2>2
<1>5. /\ \A v : Ends("CHARSET", up, v) => Ends("CHARSET", up', v)
      /\ Without("CHARSET", up) => Without("CHARSET", up')
  BY <1>1, <1>3, AppendEnds
<1>6. Without("CHARSET", up') => Without("CHARSET", up)
  BY <1>1, <1>3, AppendWithout
<1>7. Calm' => Calm /\ Quietly(sess, sess')
  BY <1>1, <1>2, <1>4, SessionQuietly DEF Calm, Connected
<1> QED
  BY <1>2, <1>4, <1>5, <1>6, <1>7, KeptCharset

\* A choice counts if no offer is under way to meet it.
LEMMA PickCharsetCharset ==
    ASSUME TypeInv, CharsetInv, NEW c \in Name, PickCharset(c)
    PROVE  CharsetInv'
<1> DEFINE x == Msg("CHARSET", c)
           u == up'
<1>1. /\ page.ws /\ page' = [page EXCEPT !.charset = c] /\ u = Append(up, x)
      /\ hist' = [hist EXCEPT !.unsettled = Offering]
      /\ UNCHANGED <<lib, wire, rx, sess, down, charset>>
  BY DEF PickCharset
<1>2. up \in Seq(Wishes) /\ hist \in History /\ page \in PageType
  BY TypeFacts DEF TypeInv
<1>3. /\ hist'.unsettled = Offering /\ hist'.disputed = hist.disputed
      /\ hist'.failed = hist.failed /\ hist'.bypassed = hist.bypassed
  BY <1>1, <1>2 DEF History
<1>4. page'.ws /\ page'.charset = c
  BY <1>1, <1>2 DEF PageType
<1>5. Calm' <=> Calm
  BY <1>1, <1>3 DEF Calm, Connected
<1>6. Ends("CHARSET", u, c)
  <2>1. x \in Wishes /\ x.cmd = "CHARSET" /\ x.arg = c
    BY DEF Msg, Wishes
  <2> QED
    BY <1>1, <1>2, <2>1, AppendEnds
<1>7. ~Without("CHARSET", u)
  BY <1>6 DEF Ends, Without
<1>8. ~Offering => /\ Never({"REQUEST"}, wire[Locid])
                   /\ Without("CHARSET", sess.q) /\ Without("CHARSET", down)
  BY DEF Offering, Never, Without
<1>9. ~Offering => Agreed(wire, u, sess, down, c, charset, hist.disputed)
  BY <1>6, <1>7, <1>8 DEF Agreed
<1> QED
  BY <1>1, <1>3, <1>4, <1>5, <1>9 DEF CharsetInv

-----------------------------------------------------------------------------
(* The charset: the game *)

\* The game says what l has to say.
LEMMA EmitCharset ==
    ASSUME TypeInv, CharsetInv, NEW l \in Speaking(Locid), Emit(l),
           l.him = lib[Game].him, l.dec = lib[Game].dec, Never({"DONT"}, l.out),
           hist'.failed = hist.failed, hist'.bypassed = hist.bypassed,
           hist'.disputed = hist.disputed, hist.unsettled => hist'.unsettled,
           ~hist'.unsettled => Without("CHARSET", up) \/ Never({"REQUEST"}, l.out)
    PROVE  CharsetInv'
<1>1. /\ lib \in [End -> EndType] /\ wire \in Wires /\ Locid \in End /\ Game \in End
      /\ Locid # Game /\ wire[Locid] \in Seq(Wording(Locid)) /\ l.out \in Seq(Wording(Locid))
  BY TypeFacts DEF TypeInv, Speaking
<1>2. /\ lib' = [lib EXCEPT ![Game] = [l EXCEPT !.out = <<>>]]
      /\ wire' = [wire EXCEPT ![Locid] = @ \o l.out]
      /\ UNCHANGED <<rx, sess, page, down, up, charset>>
  BY DEF Emit
<1>3. wire'[Locid] = wire[Locid] \o l.out /\ wire'[Game] = wire[Game]
  BY <1>1, <1>2 DEF Wires
<1>4. /\ lib'[Locid] = lib[Locid] /\ lib'[Game].him = lib[Game].him
      /\ lib'[Game].dec = lib[Game].dec
  BY <1>1, <1>2 DEF Speaking
<1>5. Calm' <=> Calm
  BY <1>2 DEF Calm, Connected
<1>6. \A W : Never(W, wire[Locid]) /\ Never(W, l.out) => Never(W, wire'[Locid])
  BY <1>1, <1>3, NeverParts
<1>7. ASSUME Calm
      PROVE  Readable(lib', wire')
  BY <1>3, <1>4, <1>6, <1>7 DEF CharsetInv, Readable
<1>8. ASSUME Calm, ~hist'.unsettled
      PROVE  Agreed(wire', up', sess', down', page'.charset, charset', hist'.disputed)
  <2> DEFINE w == wire'
             has == page.charset
             b == hist.disputed
  <2>1. Agreed(wire, up, sess, down, has, charset, b)
    BY <1>8 DEF CharsetInv
  <2>2. /\ w[Game] = wire[Game]
        /\ ~Without("CHARSET", up) /\ Never({"REQUEST"}, wire[Locid])
           => Never({"REQUEST"}, w[Locid])
    BY <1>3, <1>6, <1>8
  <2> HIDE DEF w, has, b
  <2>3. Agreed(w, up, sess, down, has, charset, b)
    BY <2>1, <2>2 DEF Agreed
  <2> QED
    BY <1>2, <2>3 DEF w, has, b
<1>9. Calm => page'.ws \/ hist'.unsettled
  BY <1>2 DEF CharsetInv
<1> QED
  BY <1>5, <1>7, <1>8, <1>9 DEF CharsetInv

\* A word that is neither of MCCPX nor an offer.
LEMMA GameWordCharset ==
    ASSUME TypeInv, CharsetInv, NEW say, NEW arg, Item(lib[Game].enc, say, arg) \in Wording(Locid),
           say \notin About, Emit(Send(lib[Game], say, arg)),
           hist'.failed = hist.failed, hist'.bypassed = hist.bypassed,
           hist'.disputed = hist.disputed, hist.unsettled => hist'.unsettled,
           say = "REQUEST" /\ ~hist'.unsettled => Without("CHARSET", up)
    PROVE  CharsetInv'
<1> DEFINE g == lib[Game]
           i == Item(g.enc, say, arg)
           l == Send(g, say, arg)
<1>1. g \in Speaking(Locid) /\ g.out = <<>> /\ say \notin {"BEGIN", "WONT", "DONT"}
  BY TypeFacts DEF About
<1>2. l \in Speaking(Locid) /\ l.him = g.him /\ l.dec = g.dec
  BY <1>1, SendUtters
<1>3. Utters(g, l, {"DONT"}) /\ (say # "REQUEST" => Utters(g, l, {"REQUEST"}))
  BY <1>1, SendUtters
<1>4. Never({"DONT"}, l.out) /\ (say # "REQUEST" => Never({"REQUEST"}, l.out))
  BY <1>3 DEF Utters
<1> HIDE DEF l
<1> QED
  BY <1>2, <1>4, EmitCharset DEF l

LEMMA GameSaysCharset ==
    ASSUME TypeInv, CharsetInv,
           GameText \/ GameEcho \/ (\E sign \in Sign : GameSigns(sign))
                    \/ (\E o \in Offer : GameOffers(o))
    PROVE  CharsetInv'
<1>1. /\ lib[Game] \in Speaking(Locid) /\ lib[Game].enc \in Nat /\ hist \in History
      /\ plan \in PlanType /\ Locid \in End
  BY TypeFacts DEF TypeInv
<1>2. CASE GameText
  <2> DEFINE n == hist.sent[Locid] + 1
  <2>1. Emit(Send(lib[Game], "TEXT", n)) /\ n \in Nat
        /\ hist' = [hist EXCEPT !.sent[Locid] = n]
    BY <1>1, <1>2 DEF GameText, History
  <2> HIDE DEF n
  <2>2. Item(lib[Game].enc, "TEXT", n) \in Wording(Locid) /\ "TEXT" \notin About
    BY <1>1, <2>1 DEF Item, Wording, Said, Arg, About
  <2>3. /\ hist'.failed = hist.failed /\ hist'.bypassed = hist.bypassed
        /\ hist'.disputed = hist.disputed /\ hist'.unsettled = hist.unsettled
    BY <1>1, <2>1 DEF History
  <2> QED
    BY <2>1, <2>2, <2>3, GameWordCharset
<1>3. CASE GameEcho
  <2> DEFINE n == plan.echo % 2
  <2>1. Emit(Send(lib[Game], "ECHO", n)) /\ n \in {0, 1} /\ hist' = hist
    BY <1>1, <1>3 DEF GameEcho, PlanType
  <2> HIDE DEF n
  <2>2. Item(lib[Game].enc, "ECHO", n) \in Wording(Locid) /\ "ECHO" \notin About
    BY <1>1, <2>1 DEF Item, Wording, Said, Arg, About
  <2> QED
    BY <2>1, <2>2, GameWordCharset
<1>4. CASE \E sign \in Sign : GameSigns(sign)
  <2>1. PICK sign \in Sign : GameSigns(sign)
    BY <1>4
  <2> DEFINE say == CASE sign = "DONT"    -> "NAWS"
                      [] sign = "CHARSET" -> "DO CHARSET"
                      [] OTHER            -> sign
  <2>2. Emit(Send(lib[Game], say, 0)) /\ hist' = hist
    BY <2>1 DEF GameSigns
  <2>3. say \in {"NAWS", "DO CHARSET", "GMCP", "MSSP", "AYT"}
    BY <2>1 DEF Sign
  <2> HIDE DEF say
  <2>4. Item(lib[Game].enc, say, 0) \in Wording(Locid) /\ say \notin About /\ say # "REQUEST"
    BY <1>1, <2>3 DEF Item, Wording, Said, Arg, About
  <2> QED
    BY <2>2, <2>4, GameWordCharset
<1>5. CASE \E o \in Offer : GameOffers(o)
  <2>1. PICK o \in Offer : GameOffers(o)
    BY <1>5
  <2>2. /\ Emit(Send(lib[Game], "REQUEST", o))
        /\ hist' = [hist EXCEPT !.unsettled = hist.unsettled \/ Choosing]
    BY <2>1 DEF GameOffers
  <2>3. /\ hist'.failed = hist.failed /\ hist'.bypassed = hist.bypassed
        /\ hist'.disputed = hist.disputed
        /\ hist'.unsettled = (hist.unsettled \/ Choosing)
    BY <1>1, <2>2 DEF History
  <2>4. ~Choosing => Without("CHARSET", up)
    BY DEF Choosing, Without
  <2>5. Item(lib[Game].enc, "REQUEST", o) \in Wording(Locid) /\ "REQUEST" \notin About
    BY <1>1, <2>1 DEF Item, Wording, Said, Arg, About
  <2> QED
    BY <2>2, <2>3, <2>4, <2>5, GameWordCharset
<1> QED
  BY <1>2, <1>3, <1>4, <1>5

\* It offers compression, or ends it: neither is a DONT.
LEMMA GameWishCharset ==
    ASSUME TypeInv, CharsetInv, GameWish
    PROVE  CharsetInv'
<1> DEFINE g == lib[Game]
           a == Ours(g, AskYes(g.us))
           z == EndSend(g)
<1>1. g \in Speaking(Locid) /\ g.out = <<>> /\ g.us \in QState /\ hist \in History
  BY TypeFacts DEF Speaking
<1>2. \A W : Never(W, g.out)
  BY <1>1 DEF Never
<1>3. a \in Speaking(Locid) /\ a.him = g.him /\ a.dec = g.dec
  BY <1>1, HearingTypes, OursType, OursFields
<1>4. z \in Speaking(Locid)
  BY <1>1, EndSendType
<1>5. ASSUME NEW W, "WILL" \notin W, "WONT" \notin W
      PROVE  Never(W, a.out) /\ Never(W, z.out) /\ z.him = g.him /\ z.dec = g.dec
  BY <1>1, <1>2, <1>5, SaysOne, OursNever, EndSendNever
<1> HIDE DEF a, z
<1>6. /\ Never({"DONT"}, a.out) /\ Never({"REQUEST"}, a.out)
      /\ Never({"DONT"}, z.out) /\ Never({"REQUEST"}, z.out)
      /\ z.him = g.him /\ z.dec = g.dec
  BY <1>5
<1>7. CASE Emit(a) /\ hist' = hist
  BY <1>3, <1>6, <1>7, EmitCharset
<1>8. CASE Emit(z) /\ hist' = [hist EXCEPT !.hushed = hist.hushed \/ Hushed(g, z)]
  <2>1. /\ hist'.failed = hist.failed /\ hist'.bypassed = hist.bypassed
        /\ hist'.disputed = hist.disputed /\ hist'.unsettled = hist.unsettled
    BY <1>1, <1>8 DEF History
  <2> QED
    BY <1>4, <1>6, <1>8, <2>1, EmitCharset
<1> QED
  BY <1>7, <1>8 DEF GameWish, a, z

\* What the game never says of its own accord while it reads.
Apart == {"DONT", "REQUEST"}

\* The game reads a word, and says what l has to say.
LEMMA GameTakesCharset ==
    ASSUME TypeInv, CharsetInv, wire[Game] # <<>>, NEW l \in Speaking(Locid),
           lib' = [lib EXCEPT ![Game] = [l EXCEPT !.out = <<>>]],
           wire' = [wire EXCEPT ![Game] = Tail(@), ![Locid] = @ \o l.out],
           UNCHANGED <<rx, sess, page, down, up, plan>>,
           hist'.failed = hist.failed, hist'.bypassed = hist.bypassed,
           hist'.unsettled = hist.unsettled,
           Calm => /\ l.him \in Following /\ Never(Apart, l.out)
                   /\ Path("decoded", l.dec, Tail(wire[Game]), lib[Locid].enc),
           \A v : Heeds(wire[Game], charset, v, hist.disputed)
                  => Heeds(Tail(wire[Game]), charset', v, hist'.disputed)
    PROVE  CharsetInv'
<1>1. /\ lib \in [End -> EndType] /\ wire \in Wires /\ Locid \in End /\ Game \in End
      /\ Locid # Game /\ wire[Locid] \in Seq(Wording(Locid)) /\ l.out \in Seq(Wording(Locid))
      /\ wire[Game] \in Seq(Wording(Game))
  BY TypeFacts DEF TypeInv, Speaking
<1>2. wire'[Locid] = wire[Locid] \o l.out /\ wire'[Game] = Tail(wire[Game])
  BY <1>1 DEF Wires
<1>3. lib'[Locid] = lib[Locid] /\ lib'[Game].him = l.him /\ lib'[Game].dec = l.dec
  BY <1>1 DEF Speaking
<1>4. Calm' <=> Calm
  BY DEF Calm, Connected
<1>5. \A W : Never(W, wire[Locid]) /\ Never(W, l.out) => Never(W, wire'[Locid])
  <2>1. ASSUME NEW W, Never(W, wire[Locid]), Never(W, l.out)
        PROVE  Never(W, wire[Locid] \o l.out)
    BY <1>1, <2>1, NeverParts
  <2> QED
    BY <1>2, <2>1
<1>6. Never({"WONT"}, wire[Game]) => Never({"WONT"}, wire'[Game])
  BY <1>1, <1>2, NeverParts
<1>7. Calm => Never({"DONT"}, l.out) /\ Never({"REQUEST"}, l.out)
  BY NeverFewer DEF Apart
<1>8. ASSUME Calm
      PROVE  Readable(lib', wire')
  BY <1>2, <1>3, <1>5, <1>6, <1>7, <1>8 DEF CharsetInv, Readable
<1>9. ASSUME Calm, ~hist'.unsettled
      PROVE  Agreed(wire', up', sess', down', page'.charset, charset', hist'.disputed)
  <2> DEFINE w == wire'
             has == page.charset
             b == hist.disputed
             is == charset'
             bb == hist'.disputed
  <2>1. Agreed(wire, up, sess, down, has, charset, b)
    BY <1>9 DEF CharsetInv
  <2>2. /\ w[Game] = Tail(wire[Game])
        /\ Never({"REQUEST"}, wire[Locid]) => Never({"REQUEST"}, w[Locid])
        /\ \A v : Heeds(wire[Game], charset, v, b) => Heeds(w[Game], is, v, bb)
    BY <1>2, <1>5, <1>7, <1>9
  <2> HIDE DEF w, has, b, is, bb
  <2>3. Agreed(w, up, sess, down, has, is, bb)
    BY <2>1, <2>2 DEF Agreed
  <2> QED
    BY <2>3 DEF w, has, b, is, bb
<1>10. Calm => page'.ws \/ hist'.unsettled
  BY DEF CharsetInv
<1> QED
  BY <1>4, <1>8, <1>9, <1>10 DEF CharsetInv

LEMMA GameReadsCharset ==
    ASSUME TypeInv, CharsetInv, GameReads
    PROVE  CharsetInv'
<1> DEFINE item == Head(wire[Game])
           rest == Tail(wire[Game])
           g == lib[Game]
           Answer(l) ==
               /\ lib' = [lib EXCEPT ![Game] = [l EXCEPT !.out = <<>>]]
               /\ wire' = [wire EXCEPT ![Game] = Tail(@), ![Locid] = @ \o l.out]
           Same == /\ hist'.failed = hist.failed /\ hist'.bypassed = hist.bypassed
                   /\ hist'.unsettled = hist.unsettled
           Heeded == \A v : Heeds(wire[Game], charset, v, hist.disputed)
                            => Heeds(rest, charset', v, hist'.disputed)
<1>1. wire[Game] # <<>> /\ UNCHANGED <<rx, sess, page, down, up, plan>>
  BY DEF GameReads
<1>2. /\ g \in Speaking(Locid) /\ g.out = <<>> /\ g.enc \in Nat /\ hist \in History
      /\ wire[Game] \in Seq(Wording(Game)) /\ Locid \in End /\ Game \in End
  BY TypeFacts DEF TypeInv
<1>3. item \in Wording(Game)
  BY <1>1, <1>2, HeadTailProperties
<1>4. ASSUME Calm
      PROVE  /\ g.him \in Following /\ item.say # "WONT" /\ item.enc = g.dec
             /\ \E d \in Nat : Decodes(g.dec, item, d) /\ Path("decoded", d, rest, lib[Locid].enc)
  <2>1. Readable(lib, wire)
    BY <1>4 DEF CharsetInv
  <2>2. Path("decoded", g.dec, wire[Game], lib[Locid].enc) /\ Never({"WONT"}, wire[Game])
    BY <2>1 DEF Readable
  <2>3. PICK d \in Nat : Moves("decoded", g.dec, item, d) /\ Path("decoded", d, rest, lib[Locid].enc)
    BY <1>1, <1>2, <2>2, PathFirst
  <2>4. Decodes(g.dec, item, d)
    BY <2>3, MovesFacts
  <2>5. item.say # "WONT"
    BY <1>1, <1>2, <2>2, NeverParts
  <2> QED
    BY <2>1, <2>3, <2>4, <2>5 DEF Readable, Decodes
<1>5. /\ item.say \notin Naming /\ charset' = charset /\ hist'.disputed = hist.disputed => Heeded
      /\ item.say \in Naming /\ (charset' = item.arg \/ hist'.disputed) => Heeded
  <2>1. ASSUME NEW v, Heeds(wire[Game], charset, v, hist.disputed)
        PROVE  /\ item.say \notin Naming => Heeds(rest, charset, v, hist.disputed)
               /\ \A is, b : item.say \in Naming /\ (is = item.arg \/ b) => Heeds(rest, is, v, b)
    BY <1>1, <1>2, <2>1, HeedsFirst
  <2> QED
    BY <2>1
<1>6. ASSUME Calm, item.say \notin {"BEGIN", "WONT"}
      PROVE  Path("decoded", g.dec, rest, lib[Locid].enc)
  BY <1>4, <1>6 DEF Decodes
<1> HIDE DEF item, rest, g, Heeded
\* A word that is not about MCCPX is read, and answered by no REQUEST.
<1>7. ASSUME NEW l \in Speaking(Locid), Answer(l), Same, Heeded,
             item.say \notin {"BEGIN", "WONT"},
             l.him = g.him, l.dec = g.dec, Utters(g, l, Apart)
      PROVE  CharsetInv'
  <2>1. Calm => /\ l.him \in Following /\ Never(Apart, l.out)
                /\ Path("decoded", l.dec, rest, lib[Locid].enc)
    BY <1>4, <1>6, <1>7 DEF Utters
  <2> QED
    BY <1>1, <1>7, <2>1, GameTakesCharset DEF rest, Heeded
<1>8. ASSUME Answer(g), Same, Heeded, item.say \notin {"BEGIN", "WONT"}
      PROVE  CharsetInv'
  <2>1. Utters(g, g, Apart)
    BY <1>2, UttersNothing
  <2> QED
    BY <1>2, <1>7, <1>8, <2>1
<1>9. CASE /\ item.enc # g.dec
           /\ Answer(IF g.dec = 0 THEN g ELSE EndRecv(g))
           /\ UNCHANGED <<charset, hist>>
  <2>1. ~Calm
    BY <1>4, <1>9
  <2>2. ~Calm'
    BY <1>1, <1>9, <2>1 DEF Calm, Connected
  <2> QED
    BY <2>2 DEF CharsetInv
<1>10. CASE /\ item.say \in About /\ Answer(Hear(g, item))
            /\ hist' = [hist EXCEPT !.hushed = @ \/ Hushed(g, Hear(g, item))]
            /\ UNCHANGED charset
  <2> DEFINE l == Hear(g, item)
             h == hist.hushed \/ Hushed(g, l)
  <2>1. l \in Speaking(Locid)
    <3>1. item.say = "BEGIN" => item.arg \in Nat
      BY <1>3 DEF Wording
    <3> QED
      BY <1>2, <1>10, <3>1, HearType
  <2>2. hist' = [hist EXCEPT !.hushed = h] /\ Answer(l)
    BY <1>10
  <2>3. ASSUME Calm
        PROVE  /\ l.him \in Following /\ Never(Apart, l.out)
               /\ Path("decoded", l.dec, rest, lib[Locid].enc)
    <3>1. PICK d \in Nat : Decodes(g.dec, item, d) /\ Path("decoded", d, rest, lib[Locid].enc)
      BY <1>4, <2>3
    <3>2. l.him \in Following /\ l.dec = d /\ Never({"DONT"} \cup Naming, l.out)
      BY <1>2, <1>4, <1>10, <2>3, <3>1, GameUtters
    <3>3. Apart \subseteq {"DONT"} \cup Naming
      BY DEF Apart, Naming
    <3> QED
      BY <3>1, <3>2, <3>3, NeverFewer
  <2> HIDE DEF h, l
  <2>4. Same /\ hist'.disputed = hist.disputed
    BY <1>2, <2>2 DEF History
  <2>5. item.say \notin Naming
    BY <1>10 DEF About, Naming
  <2>6. Heeded
    BY <1>5, <1>10, <2>4, <2>5
  <2> QED
    BY <1>1, <2>1, <2>2, <2>3, <2>4, <2>6, GameTakesCharset DEF rest, Heeded
<1>11. CASE /\ item.say = "TEXT" /\ Answer(g)
            /\ hist' = [hist EXCEPT !.got[Game] = Append(@, item.arg)]
            /\ UNCHANGED charset
  <2>1. Same /\ hist'.disputed = hist.disputed
    BY <1>2, <1>11 DEF History
  <2>2. Heeded
    BY <1>5, <1>11, <2>1 DEF Naming
  <2> QED
    BY <1>8, <1>11, <2>1, <2>2
<1>12. ASSUME NEW say \in {"ACCEPTED", "REJECTED"}, NEW c \in Name, item.say = "REQUEST",
              Answer(Send(g, say, c)), Same, charset' = item.arg \/ hist'.disputed
       PROVE  CharsetInv'
  <2> DEFINE l == Send(g, say, c)
  <2>1. Item(g.enc, say, c) \in Wording(Locid)
    BY <1>2, <1>12 DEF Item, Wording, Said, Arg
  <2>2. say \notin Apart /\ say \notin {"BEGIN", "WONT"}
    BY <1>12 DEF Apart
  <2>3. l \in Speaking(Locid) /\ l.him = g.him /\ l.dec = g.dec /\ Utters(g, l, Apart)
    BY <1>2, <2>1, <2>2, SendUtters
  <2>4. Heeded /\ item.say \notin {"BEGIN", "WONT"}
    BY <1>5, <1>12 DEF Naming
  <2>5. Answer(l)
    BY <1>12
  <2> HIDE DEF l
  <2> QED
    BY <1>7, <1>12, <2>3, <2>4, <2>5
<1>13. CASE /\ item.say = "REQUEST"
            /\ \E c \in Supported \cup {item.arg} :
                   /\ Answer(Send(g, "ACCEPTED", c))
                   /\ charset' = c
                   /\ hist' = [hist EXCEPT !.disputed = c # item.arg]
  <2>1. PICK c \in Supported \cup {item.arg} :
            /\ Answer(Send(g, "ACCEPTED", c))
            /\ charset' = c
            /\ hist' = [hist EXCEPT !.disputed = c # item.arg]
    BY <1>13
  <2>2. c \in Name
    BY <1>3, <1>13, <2>1, CharsetAssumption, EndsAssumption DEF Wording
  <2>3. Same /\ hist'.disputed = (c # item.arg)
    BY <1>2, <2>1 DEF History
  <2> QED
    BY <1>12, <1>13, <2>1, <2>2, <2>3
<1>14. CASE /\ item.say = "REQUEST"
            /\ Answer(Send(g, "REJECTED", item.arg))
            /\ hist' = [hist EXCEPT !.disputed = TRUE]
            /\ UNCHANGED charset
  <2>1. item.arg \in Name
    BY <1>3, <1>14, EndsAssumption DEF Wording
  <2>2. Same /\ hist'.disputed
    BY <1>2, <1>14 DEF History
  <2> QED
    BY <1>12, <1>14, <2>1, <2>2
<1>15. CASE /\ item.say = "ACCEPTED" /\ Answer(g)
            /\ charset' = item.arg
            /\ hist' = [hist EXCEPT !.disputed = FALSE]
  <2>1. Same
    BY <1>2, <1>15 DEF History
  <2>2. Heeded
    BY <1>5, <1>15 DEF Naming
  <2> QED
    BY <1>8, <1>15, <2>1, <2>2
<1>16. CASE /\ item.say \in {"REJECTED", "YES"} /\ Answer(g)
            /\ UNCHANGED <<charset, hist>>
  <2>1. Same /\ hist'.disputed = hist.disputed
    BY <1>16
  <2>2. Heeded /\ item.say \notin {"BEGIN", "WONT"}
    BY <1>5, <1>16, <2>1 DEF Naming
  <2> QED
    BY <1>8, <1>16, <2>1, <2>2
<1> QED
  BY <1>9, <1>10, <1>11, <1>13, <1>14, <1>15, <1>16 DEF GameReads, item, g

-----------------------------------------------------------------------------
(* The charset: all together *)

LEMMA RxCharset ==
    ASSUME TypeInv, StreamInv, CharsetInv, Rx
    PROVE  CharsetInv'
<1>1. CASE \E k \in 1 .. Len(wire[Locid]) : RawRx(k)
  BY <1>1, RawRxCharset
<1>2. CASE \E stray \in Strays : RxMccpx(stray)
  BY <1>2, RxMccpxCharset
<1>3. CASE \E stray \in Strays : RxDont(stray)
  BY <1>3, RxDontCharset
<1> QED
  BY <1>1, <1>2, <1>3, RxQuietCharset, RxAytCharset, RxDoCharsetCharset, RxOfferCharset,
     RxAcceptCharset, RxUnreadableCharset DEF Rx

LEMMA NextCharset ==
    ASSUME TypeInv, StreamInv, CharsetInv, [Next]_vars
    PROVE  CharsetInv'
<1>1. CASE Server
  BY <1>1, RxCharset, TimerCharset, WriteableCharset, ReceiveCharset, SocketsCharset DEF Server
<1>2. CASE Lost \/ Roam \/ WebsocketCloses
  BY <1>2, SocketsCharset
<1>3. CASE Browser
  BY <1>3, PageReadsCharset, TypedCharset, PickCharsetCharset DEF Browser
<1>4. CASE Peer
  BY <1>4, GameSaysCharset, GameWishCharset, GameReadsCharset DEF Peer
<1>5. CASE UNCHANGED vars
  <2>1. UNCHANGED <<lib, wire, sess, page, down, up, charset, hist>>
    BY <1>5 DEF vars
  <2>2. (Calm' => Calm) /\ Quietly(sess, sess)
    BY <2>1, TypeFacts, SessionQuietly DEF Calm, Connected
  <2> QED
    BY <2>1, <2>2, KeptCharset
<1> QED
  BY <1>1, <1>2, <1>3, <1>4, <1>5 DEF Next

\* Everybody uses the same one, and nobody has said anything.
LEMMA InitCharset ==
    ASSUME Init
    PROVE  CharsetInv
<1>1. /\ lib = [e \in End |-> FreshEnd] /\ wire = [e \in End |-> <<>>]
      /\ sess.q = <<>> /\ ~sess.cs /\ sess.charset = Default
      /\ page.ws /\ page.charset = Default /\ down = <<>> /\ up = <<>>
  BY DEF Init
<1>2. Locid \in End /\ Game \in End
  BY DEF End
<1>3. Readable(lib, wire)
  <2>1. Path("decoded", 0, <<>>, 0)
    BY PathNothing
  <2>2. /\ lib[Locid] = FreshEnd /\ lib[Game] = FreshEnd
        /\ wire[Locid] = <<>> /\ wire[Game] = <<>>
    BY <1>1, <1>2
  <2>3. /\ FreshEnd.us \in Willing /\ FreshEnd.him \in Following
        /\ FreshEnd.enc = 0 /\ FreshEnd.dec = 0
    BY DEF FreshEnd, Willing, Following
  <2>4. \A W : Never(W, <<>>)
    BY DEF Never
  <2> QED
    BY <2>1, <2>2, <2>3, <2>4 DEF Readable
<1>4. Agreed(wire, up, sess, down, page.charset, charset, hist.disputed)
  BY <1>1 DEF Agreed, Without, Settles
<1> QED
  BY <1>1, <1>3, <1>4 DEF CharsetInv

(* loci_proxy_set_charset and the CHARSET subnegotiations of telnet.c, the   *)
(* browser's choice in client.c, and what loci_client_send_cmd queues for   *)
(* it: whatever the user chooses and the game offers, and however both are  *)
(* delayed, once nothing is on its way any more browser, session and game   *)
(* use the same charset, or it is known why not.                           *)
THEOREM CharsetsAgree == Spec => []CharsetAgree
<1> DEFINE I == Inv /\ StreamInv /\ CharsetInv
<1>1. Init => I
  BY InitInv, InitFlows, InitCharset
<1>2. I /\ [Next]_vars => I'
  <2>1. ASSUME Inv, StreamInv, CharsetInv, [Next]_vars
        PROVE  Inv' /\ StreamInv' /\ CharsetInv'
    <3>1. Inv'
      BY <2>1, NextInv
    <3>2. TypeInv /\ TypeInv'
      BY <2>1, <3>1 DEF Inv
    <3> QED
      BY <2>1, <3>1, <3>2, NextFlows, NextCharset
  <2> QED
    BY <2>1
<1>3. I => CharsetAgree
  <2>1. ASSUME CharsetInv, sess.cs, Connected, ~Choosing, ~Offering, ~Informing,
               ~hist.unsettled, ~hist.disputed, ~hist.failed, ~hist.bypassed
        PROVE  page.charset = sess.charset /\ charset = sess.charset
    <3>1. Agreed(wire, up, sess, down, page.charset, charset, hist.disputed)
      BY <2>1 DEF CharsetInv, Calm
    <3>2. Without("CHARSET", up) /\ Without("CHARSET", sess.q) /\ Without("CHARSET", down)
      BY <2>1 DEF Choosing, Offering, Without
    <3>3. Never(Naming, wire[Game])
      BY <2>1 DEF Informing, Never, Naming
    <3>4. page.charset = sess.charset
      BY <3>1, <3>2 DEF Agreed, Settles, Ends, Without
    <3>5. charset = sess.charset
      BY <2>1, <3>1, <3>2, <3>3 DEF Agreed, Heeds, LastNamed, Never
    <3> QED
      BY <3>4, <3>5
  <2> QED
    BY <2>1 DEF CharsetAgree
<1> QED
  BY <1>1, <1>2, <1>3, PTL DEF Spec

=============================================================================
