------------------------ MODULE RecordKeeping_proofs ------------------------
(***************************************************************************)
(* Proofs that the records of module GameRecords are kept: what the browser  *)
(* shows is the last report, the telnet options are one connection's, a game *)
(* that is given up has been silent, and none is asked for its data too      *)
(* early.  They hold for any users, data, options and limits, any number of  *)
(* failures and crashes, and whichever kinds of records are followed.       *)
(*                                                                         *)
(* Each of the four speaks of a record that nobody is writing and that was   *)
(* not disturbed.  The invariant says besides what is true while a process   *)
(* writes it undisturbed: that the statements it has left will make the      *)
(* record sound.  For that it needs the order in which a callback's          *)
(* statements come, and that of two processes that write the same kind of    *)
(* record neither believes itself undisturbed.                              *)
(***************************************************************************)
EXTENDS GameRecords_proofs

Record == {"mssp", "telopts", "scan"}

Rewrites(s) == s.put \in {"status", "since"}
MsspPut == {"insert", "lastMssp", "updated", "names"}

\* The statements that may come after one of a report.
MsspAfter(put) ==
    IF put = "insert" THEN MsspPut \ {"insert"}
    ELSE IF put = "lastMssp" THEN {"updated", "names"}
    ELSE IF put = "updated" THEN {"names"}
    ELSE {}

\* A statement s may stand somewhere before a statement t.
Precedes(s, t) ==
    /\ s.kind = "file" <=> t.kind = "file"
    /\ s.kind = "mssp" <=> t.kind = "mssp"
    /\ s.kind = "mssp" => t.put \in MsspAfter(s.put)
    /\ s.put = "insert" /\ t.put = "names" => s.val = t.val
    /\ t.put # "clear"
    /\ s.put = "telopt" /\ t.put = "telopt" => s.val # t.val
    /\ s.kind = "scan" => Rewrites(s) /\ s.val = "APPROVED" /\ t.put = "greeting"

\* What a statement must have after it.
Followers(s) ==
    IF s.put = "insert" THEN {"lastMssp"}
    ELSE IF s.put \in {"lastMssp", "updated"} THEN {"names"}
    ELSE IF Rewrites(s) /\ s.val = "APPROVED" THEN {"greeting"}
    ELSE {}

\* The kind of record that a statement writes.
PutFits(s) ==
    /\ s.kind = "mssp" <=> s.put \in MsspPut
    /\ s.kind = "telopts" <=> s.put \in {"clear", "telopt"}
    /\ s.kind = "scan" <=> Rewrites(s) \/ s.put = "greeting"

Shaped(todo) ==
    /\ \A i \in DOMAIN todo : PutFits(todo[i])
    /\ \A i, j \in DOMAIN todo : i < j => Precedes(todo[i], todo[j])
    /\ \A i \in DOMAIN todo : \A put \in Followers(todo[i]) :
         \E j \in DOMAIN todo : i < j /\ todo[j].put = put

\* The statements of one kind that are left to do.
InTodo(todo) == {todo[i] : i \in DOMAIN todo}
OfKind(k, W) == {s \in W : s.kind = k}
Left(k, todo) == OfKind(k, InTodo(todo))
Has(W, put) == \E s \in W : s.put = put

-----------------------------------------------------------------------------
(* The lists of statements *)

LEMMA KindsLeft ==
    ASSUME NEW todo
    PROVE  \A k : k \in KindsIn(todo) <=> Left(k, todo) # {}
  BY DEF KindsIn, Left, OfKind, InTodo

LEMMA EmptyTodo == InTodo(<<>>) = {} /\ Shaped(<<>>) /\ \A k : Left(k, <<>>) = {}
  BY DEF InTodo, Shaped, Left, OfKind

LEMMA OneTodo ==
    ASSUME NEW s, PutFits(s), Followers(s) = {}
    PROVE  InTodo(<<s>>) = {s} /\ Shaped(<<s>>)
  BY DEF InTodo, Shaped

\* The first statement is done: what was before of it and the rest.
LEMMA RestOfTodo ==
    ASSUME NEW todo \in Seq(Statement), todo # <<>>
    PROVE  /\ InTodo(todo) = {Head(todo)} \cup InTodo(Tail(todo))
           /\ Shaped(todo) =>
                /\ Shaped(Tail(todo)) /\ PutFits(Head(todo))
                /\ \A t \in InTodo(Tail(todo)) : PutFits(t) /\ Precedes(Head(todo), t)
                /\ \A put \in Followers(Head(todo)) : Has(InTodo(Tail(todo)), put)
<1> DEFINE rest == Tail(todo)
           n == Len(todo)
<1>1. /\ n \in Nat /\ n > 0 /\ DOMAIN todo = 1..n /\ Head(todo) = todo[1]
      /\ DOMAIN rest = 1..(n - 1) /\ \A i \in 1..(n - 1) : rest[i] = todo[i + 1]
  <2>1. n \in Nat /\ DOMAIN todo = 1..n
    BY LenProperties
  <2>2. n # 0
    BY EmptySeq
  <2>3. Head(todo) = todo[1]
    BY HeadTailProperties
  <2>4. rest \in Seq(Statement) /\ Len(rest) = n - 1
        /\ \A i \in 1..Len(rest) : rest[i] = todo[i + 1]
    BY HeadTailProperties
  <2>5. DOMAIN rest = 1..(n - 1)
    BY <2>4, LenProperties
  <2> HIDE DEF rest, n
  <2> QED
    BY <2>1, <2>2, <2>3, <2>4, <2>5
<1> HIDE DEF rest, n
<1>2. \A i \in 1..(n - 1) : i + 1 \in 1..n
  BY <1>1
<1>3. \A i \in 1..n : i = 1 \/ (i - 1 \in 1..(n - 1) /\ i = (i - 1) + 1)
  BY <1>1
<1>4. 1 \in 1..n
  BY <1>1
<1>5. \A i \in 1..n : i = 1 \/ (i - 1 \in DOMAIN rest /\ todo[i] = rest[i - 1])
  BY <1>1, <1>3
<1>6. \A i \in DOMAIN rest : i + 1 \in DOMAIN todo /\ rest[i] = todo[i + 1] /\ 1 < i + 1
  BY <1>1, <1>2
<1>7. InTodo(todo) = {Head(todo)} \cup InTodo(rest)
  <2>1. InTodo(todo) \subseteq {Head(todo)} \cup InTodo(rest)
    BY <1>1, <1>5 DEF InTodo
  <2>2. {Head(todo)} \cup InTodo(rest) \subseteq InTodo(todo)
    BY <1>1, <1>4, <1>6 DEF InTodo
  <2> QED
    BY <2>1, <2>2
<1>8. ASSUME Shaped(todo)
      PROVE  Shaped(rest) /\ PutFits(Head(todo))
             /\ (\A t \in InTodo(rest) : PutFits(t) /\ Precedes(Head(todo), t))
             /\ \A put \in Followers(Head(todo)) : Has(InTodo(rest), put)
  <2>1. PutFits(Head(todo)) /\ \A i \in DOMAIN rest : PutFits(rest[i])
    BY <1>1, <1>4, <1>6, <1>8 DEF Shaped
  <2>2. \A i \in DOMAIN rest : Precedes(Head(todo), rest[i])
    BY <1>1, <1>4, <1>6, <1>8 DEF Shaped
  <2>3. ASSUME NEW i \in DOMAIN rest, NEW j \in DOMAIN rest, i < j
        PROVE  Precedes(rest[i], rest[j])
    <3>1. i + 1 < j + 1
      BY <1>1, <2>3
    <3> QED
      BY <1>6, <1>8, <3>1 DEF Shaped
  <2>4. ASSUME NEW i \in DOMAIN todo, NEW put \in Followers(todo[i])
        PROVE  \E j \in DOMAIN rest : i < j + 1 /\ rest[j].put = put
    <3>1. PICK j \in DOMAIN todo : i < j /\ todo[j].put = put
      BY <1>8, <2>4 DEF Shaped
    <3>2. j # 1
      BY <1>1, <3>1
    <3>3. j - 1 \in DOMAIN rest /\ todo[j] = rest[j - 1] /\ i < (j - 1) + 1
      BY <1>1, <1>5, <3>1, <3>2
    <3> QED
      BY <3>1, <3>3
  <2>5. ASSUME NEW i \in DOMAIN rest, NEW put \in Followers(rest[i])
        PROVE  \E j \in DOMAIN rest : i < j /\ rest[j].put = put
    <3>1. PICK j \in DOMAIN rest : i + 1 < j + 1 /\ rest[j].put = put
      BY <1>6, <2>4
    <3>2. i < j
      BY <1>1, <3>1
    <3> QED
      BY <3>1, <3>2
  <2>6. Shaped(rest)
    BY <2>1, <2>3, <2>5 DEF Shaped
  <2>7. ASSUME NEW put \in Followers(Head(todo))
        PROVE  Has(InTodo(rest), put)
    <3>1. 1 \in DOMAIN todo /\ put \in Followers(todo[1])
      BY <1>1, <1>4
    <3>2. PICK j \in DOMAIN rest : rest[j].put = put
      BY <2>4, <3>1
    <3> QED
      BY <3>2 DEF Has, InTodo
  <2> QED
    BY <2>1, <2>2, <2>6, <2>7 DEF InTodo
<1> QED
  BY <1>7, <1>8 DEF rest

LEMMA TwoTodos ==
    ASSUME NEW a \in Seq(Statement), NEW b \in Seq(Statement)
    PROVE  /\ InTodo(a \o b) = InTodo(a) \cup InTodo(b)
           /\ /\ Shaped(b)
              /\ \A s \in InTodo(a) : PutFits(s)
              /\ \A i, j \in DOMAIN a : i < j => Precedes(a[i], a[j])
              /\ \A i \in DOMAIN a : \A put \in Followers(a[i]) :
                    \/ \E j \in DOMAIN a : i < j /\ a[j].put = put
                    \/ Has(InTodo(b), put)
              /\ \A s \in InTodo(a), t \in InTodo(b) : Precedes(s, t)
              => Shaped(a \o b)
<1> DEFINE c == a \o b
           m == Len(a)
           n == Len(b)
<1>1. /\ m \in Nat /\ n \in Nat /\ DOMAIN a = 1..m /\ DOMAIN b = 1..n
      /\ DOMAIN c = 1..(m + n)
      /\ \A i \in 1..(m + n) : c[i] = IF i <= m THEN a[i] ELSE b[i - m]
  <2>1. m \in Nat /\ n \in Nat /\ DOMAIN a = 1..m /\ DOMAIN b = 1..n
    BY LenProperties
  <2>2. c \in Seq(Statement) /\ Len(c) = m + n
        /\ \A i \in 1..(m + n) : c[i] = IF i <= m THEN a[i] ELSE b[i - m]
    BY ConcatProperties
  <2>3. DOMAIN c = 1..(m + n)
    BY <2>2, LenProperties
  <2> QED
    BY <2>1, <2>2, <2>3
<1> HIDE DEF c, m, n
<1>2. ASSUME NEW i \in DOMAIN c
      PROVE  \/ i \in DOMAIN a /\ c[i] = a[i]
             \/ i > m /\ i - m \in DOMAIN b /\ c[i] = b[i - m]
  BY <1>1
<1>3. ASSUME NEW i \in DOMAIN a
      PROVE  i \in DOMAIN c /\ c[i] = a[i] /\ i <= m
  BY <1>1
<1>4. ASSUME NEW i \in DOMAIN b
      PROVE  i + m \in DOMAIN c /\ c[i + m] = b[i] /\ i + m > m
  <2>1. i + m \in 1..(m + n) /\ ~(i + m <= m) /\ (i + m) - m = i
    BY <1>1
  <2> QED
    BY <1>1, <2>1
<1>5. InTodo(c) = InTodo(a) \cup InTodo(b)
  <2>1. InTodo(c) \subseteq InTodo(a) \cup InTodo(b)
    BY <1>2 DEF InTodo
  <2>2. InTodo(a) \subseteq InTodo(c) /\ InTodo(b) \subseteq InTodo(c)
    BY <1>3, <1>4 DEF InTodo
  <2> QED
    BY <2>1, <2>2
<1>6. ASSUME Shaped(b), \A s \in InTodo(a) : PutFits(s),
             \A i, j \in DOMAIN a : i < j => Precedes(a[i], a[j]),
             \A i \in DOMAIN a : \A put \in Followers(a[i]) :
                \/ \E j \in DOMAIN a : i < j /\ a[j].put = put
                \/ Has(InTodo(b), put),
             \A s \in InTodo(a), t \in InTodo(b) : Precedes(s, t)
      PROVE  Shaped(c)
  <2>1. \A i \in DOMAIN c : PutFits(c[i])
    BY <1>2, <1>6 DEF Shaped, InTodo
  <2>2. ASSUME NEW i \in DOMAIN c, NEW j \in DOMAIN c, i < j
        PROVE  Precedes(c[i], c[j])
    <3>1. CASE j \in DOMAIN a
      <4>1. i \in DOMAIN a
        BY <1>1, <2>2, <3>1
      <4> QED
        BY <1>3, <1>6, <2>2, <3>1, <4>1
    <3>2. CASE j > m /\ j - m \in DOMAIN b /\ c[j] = b[j - m]
      <4>1. CASE i \in DOMAIN a
        BY <1>3, <1>6, <3>2, <4>1 DEF InTodo
      <4>2. CASE i > m /\ i - m \in DOMAIN b /\ c[i] = b[i - m]
        <5>1. i - m < j - m
          BY <1>1, <2>2
        <5> QED
          BY <1>6, <3>2, <4>2, <5>1 DEF Shaped
      <4> QED
        BY <1>2, <4>1, <4>2
    <3> QED
      BY <1>2, <3>1, <3>2
  <2>3. ASSUME NEW i \in DOMAIN c, NEW put \in Followers(c[i])
        PROVE  \E j \in DOMAIN c : i < j /\ c[j].put = put
    <3>1. CASE i \in DOMAIN a
      <4>1. put \in Followers(a[i])
        BY <1>3, <2>3, <3>1
      <4>2. CASE \E j \in DOMAIN a : i < j /\ a[j].put = put
        BY <1>3, <4>2
      <4>3. CASE Has(InTodo(b), put)
        <5>1. PICK j \in DOMAIN b : b[j].put = put
          BY <4>3 DEF Has, InTodo
        <5>2. i < j + m
          BY <1>1, <1>3, <1>4, <3>1
        <5> QED
          BY <1>4, <5>1, <5>2
      <4> QED
        BY <1>6, <3>1, <4>1, <4>2, <4>3
    <3>2. CASE i > m /\ i - m \in DOMAIN b /\ c[i] = b[i - m]
      <4>1. PICK j \in DOMAIN b : i - m < j /\ b[j].put = put
        BY <1>6, <2>3, <3>2 DEF Shaped
      <4>2. i < j + m
        BY <1>1, <4>1
      <4> QED
        BY <1>4, <4>1, <4>2
    <3> QED
      BY <1>2, <3>1, <3>2
  <2> QED
    BY <2>1, <2>2, <2>3 DEF Shaped
<1> QED
  BY <1>5, <1>6 DEF c

-----------------------------------------------------------------------------
(* What the callbacks have to do *)

LEMMA SqlFields ==
    ASSUME NEW kind, NEW put, NEW val
    PROVE  /\ Sql(kind, put, val).kind = kind
           /\ Sql(kind, put, val).put = put
           /\ Sql(kind, put, val).val = val
  BY DEF Sql

\* One statement before others.
LEMMA FirstTodo ==
    ASSUME NEW s \in Statement, NEW b \in Seq(Statement), PutFits(s), Shaped(b),
           \A put \in Followers(s) : Has(InTodo(b), put),
           \A t \in InTodo(b) : Precedes(s, t)
    PROVE  Shaped(<<s>> \o b) /\ InTodo(<<s>> \o b) = {s} \cup InTodo(b)
<1> DEFINE a == <<s>>
<1>1. a \in Seq(Statement) /\ DOMAIN a = {1} /\ a[1] = s /\ InTodo(a) = {s}
  BY DEF InTodo
<1> HIDE DEF a
<1>2. \A i, j \in DOMAIN a : ~(i < j)
  BY <1>1
<1>3. /\ \A t \in InTodo(a) : PutFits(t)
      /\ \A i, j \in DOMAIN a : i < j => Precedes(a[i], a[j])
      /\ \A i \in DOMAIN a : \A put \in Followers(a[i]) :
            \/ \E j \in DOMAIN a : i < j /\ a[j].put = put
            \/ Has(InTodo(b), put)
      /\ \A t \in InTodo(a), u \in InTodo(b) : Precedes(t, u)
  BY <1>1, <1>2
<1> HIDE DEF Shaped, InTodo
<1>4. InTodo(a \o b) = InTodo(a) \cup InTodo(b) /\ Shaped(a \o b)
  BY <1>1, <1>3, TwoTodos, Zenon
<1> QED
  BY <1>1, <1>4 DEF a

LEMMA Reassociated ==
    ASSUME NEW a \in Seq(Statement), NEW b \in Seq(Statement), NEW c \in Seq(Statement)
    PROVE  (a \o b) \o c = a \o (b \o c)
  BY ConcatAssociative

RewritingOf(sc) == Sql("scan", IF sc.is # sc.was THEN "since" ELSE "status", sc.is)
Greeting == Sql("scan", "greeting", NULL)

LEMMA FinalizeShaped ==
    ASSUME NEW sc \in ConnRecord
    PROVE  /\ Shaped(Finalize(sc))
           /\ InTodo(Finalize(sc)) =
                {RewritingOf(sc)} \cup (IF sc.is = "APPROVED" THEN {Greeting} ELSE {})
<1> DEFINE first == RewritingOf(sc)
           last == IF sc.is = "APPROVED" THEN <<Greeting>> ELSE <<>>
<1>1. sc.is \in ScanStatus
  BY DEF ConnRecord
<1>2. /\ first \in Statement /\ first.kind = "scan" /\ first.val = sc.is
      /\ first.put \in {"status", "since"}
      /\ Greeting \in Statement /\ Greeting.kind = "scan" /\ Greeting.put = "greeting"
  BY <1>1 DEF RewritingOf, Greeting, Sql, Statement, Kind, Put
<1>3. PutFits(first) /\ PutFits(Greeting) /\ Followers(Greeting) = {}
  BY <1>2 DEF PutFits, Rewrites, MsspPut, Followers
<1>4. last \in Seq(Statement) /\ Shaped(last)
      /\ InTodo(last) = IF sc.is = "APPROVED" THEN {Greeting} ELSE {}
  <2>1. CASE sc.is = "APPROVED"
    <3>1. last = <<Greeting>>
      BY <2>1
    <3> HIDE DEF last
    <3> QED
      BY <1>2, <1>3, <2>1, <3>1, OneTodo
  <2>2. CASE sc.is # "APPROVED"
    <3>1. last = <<>>
      BY <2>2
    <3> HIDE DEF last
    <3> QED
      BY <2>2, <3>1, EmptyTodo
  <2> QED
    BY <2>1, <2>2
<1>5. Finalize(sc) = <<first>> \o last
  BY DEF Finalize, RewritingOf, Greeting
<1> HIDE DEF first, last
<1>6. \A put \in Followers(first) : Has(InTodo(last), put)
  BY <1>2, <1>4 DEF Followers, Rewrites, Has
<1>7. \A t \in InTodo(last) : Precedes(first, t)
  BY <1>2, <1>4 DEF Precedes, Rewrites
<1>8. Shaped(<<first>> \o last) /\ InTodo(<<first>> \o last) = {first} \cup InTodo(last)
  BY <1>2, <1>3, <1>4, <1>6, <1>7, FirstTodo, Zenon
<1> QED
  BY <1>4, <1>5, <1>8 DEF first

ReportOf(what, news) ==
    {Sql("mssp", "insert", what), Sql("mssp", "lastMssp", NULL), Sql("mssp", "names", what)}
      \cup (IF news THEN {Sql("mssp", "updated", NULL)} ELSE {})

LEMMA ReportShaped ==
    ASSUME NEW what \in Data, NEW news \in BOOLEAN
    PROVE  Shaped(Report(what, news)) /\ InTodo(Report(what, news)) = ReportOf(what, news)
<1> DEFINE s1 == Sql("mssp", "insert", what)
           s2 == Sql("mssp", "lastMssp", NULL)
           s3 == Sql("mssp", "updated", NULL)
           s4 == Sql("mssp", "names", what)
<1>1. /\ s1 \in Statement /\ s2 \in Statement /\ s3 \in Statement /\ s4 \in Statement
      /\ s1.kind = "mssp" /\ s2.kind = "mssp" /\ s3.kind = "mssp" /\ s4.kind = "mssp"
      /\ s1.put = "insert" /\ s2.put = "lastMssp" /\ s3.put = "updated" /\ s4.put = "names"
      /\ s1.val = what /\ s4.val = what
  BY DEF Sql, Statement, Kind, Put
<1>2. ReportOf(what, news) = {s1, s2, s4} \cup (IF news THEN {s3} ELSE {})
  BY DEF ReportOf
<1>3. Report(what, news) = (<<s1, s2>> \o (IF news THEN <<s3>> ELSE <<>>)) \o <<s4>>
  BY DEF Report
<1> HIDE DEF s1, s2, s3, s4
<1>4. PutFits(s1) /\ PutFits(s2) /\ PutFits(s3) /\ PutFits(s4) /\ Followers(s4) = {}
  BY <1>1 DEF PutFits, Rewrites, MsspPut, Followers
<1> DEFINE b4 == <<s4>>
           b3 == <<s3>> \o b4
           b == IF news THEN b3 ELSE b4
           b2 == <<s2>> \o b
           b1 == <<s1>> \o b2
<1>5. b4 \in Seq(Statement) /\ Shaped(b4) /\ InTodo(b4) = {s4}
  BY <1>1, <1>4, OneTodo
<1>6. Report(what, news) = b1
  <2> DEFINE x1 == <<s1>>
             x2 == <<s2>>
             x3 == IF news THEN <<s3>> ELSE <<>>
  <2>1. /\ x1 \in Seq(Statement) /\ x2 \in Seq(Statement) /\ x3 \in Seq(Statement)
    BY <1>1
  <2>11. <<s1, s2>> = x1 \o x2
    <3> DEFINE x == <<s1, s2>>
               y == x1 \o x2
    <3>1. x \in Seq(Statement) /\ Len(x) = 2 /\ x[1] = s1 /\ x[2] = s2
      BY <1>1
    <3>2. Len(x1) = 1 /\ x1[1] = s1 /\ Len(x2) = 1 /\ x2[1] = s2
      OBVIOUS
    <3> HIDE DEF x, x1, x2
    <3>3. y \in Seq(Statement) /\ Len(y) = 2 /\ y[1] = s1 /\ y[2] = s2
      BY <2>1, <3>2, ConcatProperties
    <3> HIDE DEF y
    <3>4. \A i \in 1..Len(x) : x[i] = y[i]
      <4>1. \A i \in 1..2 : i = 1 \/ i = 2
        OBVIOUS
      <4> QED
        BY <3>1, <3>3, <4>1
    <3>5. x = y
      BY <3>1, <3>3, <3>4, SeqEqual
    <3> QED
      BY <3>5 DEF x, y
  <2>12. x3 \o b4 = b
    <3>1. CASE news
      BY <3>1
    <3>2. CASE ~news
      <4>1. x3 = <<>> /\ b = b4
        BY <3>2
      <4> HIDE DEF x3, b, b4
      <4> QED
        BY <1>5, <4>1, ConcatEmptySeq
    <3> QED
      BY <3>1, <3>2
  <2>2. Report(what, news) = ((x1 \o x2) \o x3) \o b4
    BY <1>3, <2>11
  <2>3. b1 = x1 \o (x2 \o b)
    OBVIOUS
  <2> HIDE DEF x1, x2, x3, b4, b, b1
  <2>4. (x1 \o x2) \o x3 = x1 \o (x2 \o x3)
    BY <2>1, Reassociated, Zenon
  <2>50. x2 \o x3 \in Seq(Statement)
    BY <2>1
  <2>5. PICK y \in Seq(Statement) : y = x2 \o x3
    BY <2>50, Zenon
  <2>6. (x1 \o y) \o b4 = x1 \o (y \o b4)
    <3>1. x1 \in Seq(Statement) /\ y \in Seq(Statement) /\ b4 \in Seq(Statement)
      BY <1>5, <2>1, <2>5
    <3> QED
      BY ONLY <3>1, Reassociated, Zenon
  <2>7. (x2 \o x3) \o b4 = x2 \o (x3 \o b4)
    BY <1>5, <2>1, Reassociated, Zenon
  <2> QED
    BY ONLY <2>12, <2>2, <2>3, <2>4, <2>5, <2>6, <2>7, Zenon
<1> HIDE DEF b4
<1>7. b3 \in Seq(Statement) /\ Shaped(b3) /\ InTodo(b3) = {s3, s4}
  <2>1. \A put \in Followers(s3) : Has(InTodo(b4), put)
    BY <1>1, <1>5 DEF Followers, Rewrites, Has
  <2>2. \A t \in InTodo(b4) : Precedes(s3, t)
    BY <1>1, <1>5 DEF Precedes, Rewrites, MsspAfter, MsspPut
  <2>3. Shaped(b3) /\ InTodo(b3) = {s3} \cup InTodo(b4)
    BY <1>1, <1>4, <1>5, <2>1, <2>2, FirstTodo
  <2> QED
    BY <1>1, <1>5, <2>3
<1> HIDE DEF b3
<1>8. b \in Seq(Statement) /\ Shaped(b) /\ InTodo(b) = {s4} \cup (IF news THEN {s3} ELSE {})
  BY <1>5, <1>7
<1> HIDE DEF b
<1>9. b2 \in Seq(Statement) /\ Shaped(b2) /\ InTodo(b2) = {s2} \cup InTodo(b)
  <2>1. \A put \in Followers(s2) : Has(InTodo(b), put)
    BY <1>1, <1>8 DEF Followers, Rewrites, Has
  <2>2. \A t \in InTodo(b) : Precedes(s2, t)
    BY <1>1, <1>8 DEF Precedes, Rewrites, MsspAfter, MsspPut
  <2>3. Shaped(b2) /\ InTodo(b2) = {s2} \cup InTodo(b)
    BY <1>1, <1>4, <1>8, <2>1, <2>2, FirstTodo, Zenon
  <2> QED
    BY <1>1, <1>8, <2>3
<1> HIDE DEF b2
<1>10. Shaped(b1) /\ InTodo(b1) = {s1} \cup InTodo(b2)
  <2>1. \A put \in Followers(s1) : Has(InTodo(b2), put)
    BY <1>1, <1>9 DEF Followers, Rewrites, Has
  <2>2. \A t \in InTodo(b2) : Precedes(s1, t)
    BY <1>1, <1>8, <1>9 DEF Precedes, Rewrites, MsspAfter, MsspPut
  <2> QED
    BY <1>1, <1>4, <1>9, <2>1, <2>2, FirstTodo
<1> QED
  BY <1>2, <1>6, <1>8, <1>9, <1>10

ClearRows == Sql("telopts", "clear", NULL)
RowFor(o) == Sql("telopts", "telopt", o)
TeloptsOf(opts) == {ClearRows} \cup {RowFor(o) : o \in opts}

\* A set as a sequence has each member once.
LEMMA SetToSeqOnce ==
    ASSUME NEW S, IsFiniteSet(S)
    PROVE  LET seq == SetToSeq(S) IN
           /\ \A i, j \in DOMAIN seq : seq[i] = seq[j] => i = j
           /\ S = {seq[i] : i \in DOMAIN seq}
<1>1. Cardinality(S) \in Nat /\ ExistsBijection(1..Cardinality(S), S)
  BY FS_CardinalityType
<1>2. \E f \in [1..Cardinality(S) -> S] : IsInjective(f)
  BY <1>1 DEF ExistsBijection, Bijection, Injection, IsInjective
<1>3. SetToSeq(S) \in [1..Cardinality(S) -> S] /\ IsInjective(SetToSeq(S))
  BY <1>2, Zenon DEF SetToSeq
<1> DEFINE seq == SetToSeq(S)
<1> HIDE DEF seq
<1>4. seq \in [1..Cardinality(S) -> S] /\ \A i, j \in DOMAIN seq : seq[i] = seq[j] => i = j
  BY <1>3 DEF IsInjective, seq
<1>6. \A y \in S : \E i \in 1..Cardinality(S) : seq[i] = y
  <2>1. IsFiniteSet(1..Cardinality(S)) /\ Cardinality(1..Cardinality(S)) = Cardinality(S)
    BY <1>1, FS_Interval
  <2> DEFINE T == {seq[i] : i \in 1..Cardinality(S)}
  <2>2. T \subseteq S
    BY <1>4
  <2>3. IsFiniteSet(T) /\ Cardinality(T) = Cardinality(S)
    <3> DEFINE D == 1..Cardinality(S)
    <3>1. /\ DOMAIN seq = D /\ seq \in [D -> T]
          /\ \A i, j \in D : seq[i] = seq[j] => i = j
          /\ \A y \in T : \E i \in D : seq[i] = y
      BY <1>4
    <3> HIDE DEF T, D
    <3>2. seq \in Bijection(D, T)
      BY <3>1, Zenon DEF Bijection, Injection, Surjection, IsInjective
    <3>3. ExistsBijection(D, T)
      BY <3>2 DEF ExistsBijection
    <3>4. IsFiniteSet(D) /\ Cardinality(D) = Cardinality(S)
      BY <2>1 DEF D
    <3> QED
      BY <3>3, <3>4, FS_Bijection
  <2> HIDE DEF T
  <2>4. T = S
    BY <2>2, <2>3, FS_Subset
  <2> QED
    BY <2>4 DEF T
<1> QED
  BY <1>4, <1>6 DEF seq

LEMMA TeloptsShaped ==
    ASSUME NEW opts \in SUBSET Option, NEW b \in Seq(Statement), Shaped(b),
           \A t \in InTodo(b) : t.kind = "scan"
    PROVE  /\ Shaped(Telopts(SetToSeq(opts)) \o b)
           /\ InTodo(Telopts(SetToSeq(opts)) \o b) = TeloptsOf(opts) \cup InTodo(b)
<1> DEFINE seq == SetToSeq(opts)
           rows == [i \in DOMAIN seq |-> RowFor(seq[i])]
<1>1. /\ \A i, j \in DOMAIN seq : seq[i] = seq[j] => i = j
      /\ opts = {seq[i] : i \in DOMAIN seq}
      /\ seq \in Seq(opts)
  <2>1. IsFiniteSet(opts)
    BY OptionAssumption, FS_Subset
  <2> QED
    BY <2>1, SetToSeqOnce, SetToSeqTyped
<1>2. /\ ClearRows \in Statement /\ ClearRows.kind = "telopts" /\ ClearRows.put = "clear"
      /\ \A o \in Option : /\ RowFor(o) \in Statement /\ RowFor(o).kind = "telopts"
                           /\ RowFor(o).put = "telopt" /\ RowFor(o).val = o
  BY DEF ClearRows, RowFor, Sql, Statement, Kind, Put
<1>3. Telopts(seq) = <<ClearRows>> \o rows
  BY DEF Telopts, ClearRows, RowFor
<1> HIDE DEF seq
<1>4. /\ rows \in Seq(Statement) /\ DOMAIN rows = DOMAIN seq
      /\ \A i \in DOMAIN rows : rows[i] = RowFor(seq[i]) /\ seq[i] \in Option
  <2>1. DOMAIN seq = 1..Len(seq) /\ Len(seq) \in Nat /\ \A i \in DOMAIN seq : seq[i] \in Option
    BY <1>1
  <2>2. rows \in [1..Len(seq) -> Statement]
    <3>1. \A i \in 1..Len(seq) : RowFor(seq[i]) \in Statement
      BY <1>2, <2>1
    <3>2. rows = [i \in 1..Len(seq) |-> RowFor(seq[i])]
      BY <2>1
    <3> HIDE DEF rows
    <3> QED
      BY <3>1, <3>2
  <2>3. rows \in Seq(Statement)
    <3> HIDE DEF rows
    <3> QED
      BY <2>1, <2>2
  <2> QED
    BY <2>1, <2>3
<1> HIDE DEF rows
<1>5. InTodo(rows) = {RowFor(o) : o \in opts}
  BY <1>1, <1>4 DEF InTodo
<1>6. \A t \in InTodo(b) : PutFits(t)
  BY DEF Shaped, InTodo
<1>7. Shaped(rows \o b) /\ InTodo(rows \o b) = InTodo(rows) \cup InTodo(b)
      /\ rows \o b \in Seq(Statement)
  <2>1. \A s \in InTodo(rows) : s.kind = "telopts" /\ s.put = "telopt"
    BY <1>2, <1>4 DEF InTodo
  <2>2. \A s \in InTodo(rows) : PutFits(s)
    BY <2>1 DEF PutFits, Rewrites, MsspPut
  <2>3. \A i, j \in DOMAIN rows : i < j => Precedes(rows[i], rows[j])
    <3>1. SUFFICES ASSUME NEW i \in DOMAIN rows, NEW j \in DOMAIN rows, i < j
                   PROVE  Precedes(rows[i], rows[j])
      OBVIOUS
    <3>2. seq[i] # seq[j]
      <4>1. i # j
        BY <1>1, <1>4, <3>1
      <4> QED
        BY <1>1, <1>4, <4>1
    <3>3. /\ rows[i].kind = "telopts" /\ rows[i].put = "telopt" /\ rows[i].val = seq[i]
          /\ rows[j].kind = "telopts" /\ rows[j].put = "telopt" /\ rows[j].val = seq[j]
      BY <1>2, <1>4
    <3> QED
      BY <3>2, <3>3 DEF Precedes
  <2>4. \A i \in DOMAIN rows : Followers(rows[i]) = {}
    BY <1>2, <1>4 DEF Followers, Rewrites
  <2>5. \A s \in InTodo(rows), t \in InTodo(b) : Precedes(s, t)
    BY <1>6, <2>1 DEF Precedes, PutFits, Rewrites
  <2>6. \A i \in DOMAIN rows : \A put \in Followers(rows[i]) :
          \/ \E j \in DOMAIN rows : i < j /\ rows[j].put = put
          \/ Has(InTodo(b), put)
    BY <2>4
  <2> QED
    BY <1>4, <2>2, <2>3, <2>5, <2>6, TwoTodos
<1> DEFINE tail == rows \o b
<1>8. Telopts(seq) \o b = <<ClearRows>> \o tail
  BY <1>2, <1>3, <1>4, ConcatAssociative
<1>9. \A t \in InTodo(tail) : Precedes(ClearRows, t)
  <2>1. \A t \in InTodo(tail) : PutFits(t) /\ t.kind \in {"telopts", "scan"} /\ t.put # "clear"
    <3>1. \A s \in InTodo(rows) : s.kind = "telopts" /\ s.put = "telopt" /\ PutFits(s)
      BY <1>2, <1>4 DEF InTodo, PutFits, Rewrites, MsspPut
    <3> QED
      BY <1>6, <1>7, <3>1 DEF PutFits
  <2> QED
    BY <1>2, <2>1 DEF Precedes
<1>10. PutFits(ClearRows) /\ Followers(ClearRows) = {}
  BY <1>2 DEF PutFits, Followers, Rewrites, MsspPut
<1> HIDE DEF tail
<1>11. Shaped(<<ClearRows>> \o tail)
       /\ InTodo(<<ClearRows>> \o tail) = {ClearRows} \cup InTodo(tail)
  BY <1>2, <1>7, <1>9, <1>10, FirstTodo DEF tail
<1> QED
  BY <1>5, <1>7, <1>8, <1>11 DEF seq, tail, TeloptsOf

-----------------------------------------------------------------------------
(* Who writes what, and whether undisturbed *)

\* A process with this record writes kind k, and was not disturbed so far.
CleanIn(r, k) == k \in r.clean /\ Left(k, r.todo) # {}
Unwritten(P, k) == \A q \in Process : Left(k, P[q].todo) = {}

\* Nothing has to hold of kind k any more.
Broken(k, P, dist) == k \in dist /\ \A q \in Process : ~CleanIn(P[q], k)

\* The processes P and Q do not differ in what they write of kind k.
Same(k, P, Q) ==
    \A q \in Process : /\ Left(k, Q[q].todo) = Left(k, P[q].todo)
                       /\ CleanIn(Q[q], k) => CleanIn(P[q], k)

Callbacks(P, kinds) ==
    \A p \in Process :
        /\ Shaped(P[p].todo)
        /\ \A k \in Record \ kinds : Left(k, P[p].todo) = {}
        /\ P[p].run = "off" => P[p].todo = <<>>

\* Who writes without being alone knows it, or everybody does.
Alone(P, dist) ==
    \A p \in Process, k \in Record :
        /\ Left(k, P[p].todo) # {} => k \in P[p].clean \/ k \in dist
        /\ CleanIn(P[p], k) => \A q \in Process \ {p} : Left(k, P[q].todo) = {}

LEMMA SameAlone ==
    ASSUME NEW P, NEW Q, NEW dist, NEW dist2, Alone(P, dist), dist \subseteq dist2,
           \A q \in Process : Q[q].todo = P[q].todo /\ Q[q].clean = P[q].clean
    PROVE  Alone(Q, dist2)
  BY DEF Alone, CleanIn

LEMMA SameTodo ==
    ASSUME NEW P, NEW Q, NEW k,
           \A q \in Process : Q[q].todo = P[q].todo /\ Q[q].clean = P[q].clean
    PROVE  Same(k, P, Q)
  BY DEF Same, CleanIn

\* What becomes of the processes when p begins a callback.
Meets(k, P, p, work) ==
    Left(k, work) # {} /\ \E q \in Process \ {p} : Left(k, P[q].todo) # {}

LEMMA Begun ==
    ASSUME NEW P \in [Process -> ProcessRecord], NEW p \in Process, NEW work,
           NEW spoilt, BeginSpoilt(P, p, work, spoilt)
    PROVE  /\ proc'[p].todo = work /\ proc'[p].run = P[p].run
           /\ \A q \in Process \ {p} : proc'[q].todo = P[q].todo /\ proc'[q].run = P[q].run
           /\ \A k \in Record :
                /\ k \in proc'[p].clean
                     <=> Left(k, work) # {} /\ ~Meets(k, P, p, work) /\ k \notin spoilt
                /\ \A q \in Process \ {p} :
                     k \in proc'[q].clean <=> k \in P[q].clean /\ ~Meets(k, P, p, work)
                /\ k \in disturbed'
                     <=> k \in disturbed \/ Meets(k, P, p, work) \/ k \in spoilt
<1> DEFINE others == UNION {KindsIn(P[q].todo) : q \in Process \ {p}}
           mixed == others \cap KindsIn(work)
<1>1. \A k : k \in mixed <=> Meets(k, P, p, work)
  <2>1. \A k : k \in others <=> \E q \in Process \ {p} : k \in KindsIn(P[q].todo)
    OBVIOUS
  <2>2. \A todo, k : k \in KindsIn(todo) <=> Left(k, todo) # {}
    BY KindsLeft
  <2> HIDE DEF others
  <2> QED
    BY <2>1, <2>2 DEF Meets
<1> HIDE DEF mixed, others
<1>2. /\ proc' = [q \in Process |->
            IF q = p THEN [P[q] EXCEPT !.todo = work,
                                       !.clean = KindsIn(work) \ (mixed \cup spoilt)]
            ELSE [P[q] EXCEPT !.clean = @ \ mixed]]
      /\ disturbed' = disturbed \cup (mixed \ {"file"}) \cup spoilt
  BY DEF BeginSpoilt, mixed, others
<1>3. /\ proc'[p].todo = work /\ proc'[p].run = P[p].run
      /\ proc'[p].clean = KindsIn(work) \ (mixed \cup spoilt)
  BY <1>2 DEF ProcessRecord
<1>4. \A q \in Process \ {p} : /\ proc'[q].todo = P[q].todo /\ proc'[q].run = P[q].run
                               /\ proc'[q].clean = P[q].clean \ mixed
  BY <1>2 DEF ProcessRecord
<1>5. \A k \in Record : k # "file"
  BY DEF Record
<1> QED
  BY <1>1, <1>2, <1>3, <1>4, <1>5, KindsLeft

LEMMA BegunAlone ==
    ASSUME NEW P \in [Process -> ProcessRecord], NEW p \in Process, NEW work,
           NEW spoilt, BeginSpoilt(P, p, work, spoilt), P[p].todo = <<>>,
           Alone(P, disturbed)
    PROVE  Alone(proc', disturbed')
<1> SUFFICES ASSUME NEW q \in Process, NEW k \in Record
             PROVE  /\ Left(k, proc'[q].todo) # {} => k \in proc'[q].clean \/ k \in disturbed'
                    /\ CleanIn(proc'[q], k)
                         => \A r \in Process \ {q} : Left(k, proc'[r].todo) = {}
  BY DEF Alone
<1>1. \A r \in Process \ {p} : proc'[r].todo = P[r].todo
  BY Begun
<1>2. CASE q = p
  BY <1>1, <1>2, Begun DEF CleanIn, Meets
<1>3. CASE q # p
  <2>1. Left(k, P[q].todo) # {} => k \in P[q].clean \/ k \in disturbed
    BY DEF Alone
  <2>2. CleanIn(P[q], k) => \A r \in Process \ {q} : Left(k, P[r].todo) = {}
    BY DEF Alone
  <2>4. proc'[p].todo = work
    BY Begun
  <2>5. k \in proc'[q].clean <=> k \in P[q].clean /\ ~Meets(k, P, p, work)
    BY <1>3, Begun
  <2>3. CleanIn(proc'[q], k) => CleanIn(P[q], k) /\ Left(k, work) = {}
    BY <1>1, <1>3, <2>5 DEF CleanIn, Meets
  <2>6. k \in disturbed' <=> k \in disturbed \/ Meets(k, P, p, work) \/ k \in spoilt
    BY Begun
  <2> QED
    BY <1>1, <1>3, <2>1, <2>2, <2>3, <2>4, <2>5, <2>6
<1> QED
  BY <1>2, <1>3

LEMMA BegunOther ==
    ASSUME NEW P \in [Process -> ProcessRecord], NEW p \in Process, NEW work,
           NEW spoilt, BeginSpoilt(P, p, work, spoilt), P[p].todo = <<>>,
           NEW k \in Record, Left(k, work) = {}
    PROVE  Same(k, P, proc')
<1>1. /\ proc'[p].todo = work
      /\ \A q \in Process \ {p} : proc'[q].todo = P[q].todo
      /\ \A q \in Process \ {p} : k \in proc'[q].clean => k \in P[q].clean
  BY Begun
<1>2. Left(k, P[p].todo) = {}
  BY EmptyTodo
<1> QED
  BY <1>1, <1>2 DEF Same, CleanIn

\* Either the new writing of kind k is not undisturbed, or nobody else writes.
LEMMA BegunOwn ==
    ASSUME NEW P \in [Process -> ProcessRecord], NEW p \in Process, NEW work,
           NEW spoilt, BeginSpoilt(P, p, work, spoilt), P[p].todo = <<>>,
           NEW k \in Record, Left(k, work) # {}
    PROVE  \/ Broken(k, proc', disturbed')
           \/ /\ Unwritten(P, k) /\ k \notin spoilt
              /\ k \in disturbed' <=> k \in disturbed
              /\ Left(k, proc'[p].todo) = Left(k, work)
              /\ \A q \in Process \ {p} : Left(k, proc'[q].todo) = {}
<1>1. /\ proc'[p].todo = work
      /\ \A q \in Process \ {p} : proc'[q].todo = P[q].todo
      /\ k \in proc'[p].clean
           <=> Left(k, work) # {} /\ ~Meets(k, P, p, work) /\ k \notin spoilt
      /\ \A q \in Process \ {p} :
           k \in proc'[q].clean <=> k \in P[q].clean /\ ~Meets(k, P, p, work)
      /\ k \in disturbed' <=> k \in disturbed \/ Meets(k, P, p, work) \/ k \in spoilt
  BY Begun
<1>2. Left(k, P[p].todo) = {}
  BY EmptyTodo
<1>3. CASE Meets(k, P, p, work)
  BY <1>1, <1>3 DEF Broken, CleanIn
<1>4. CASE ~Meets(k, P, p, work) /\ k \in spoilt
  BY <1>1, <1>4 DEF Broken, CleanIn, Meets
<1>5. CASE ~Meets(k, P, p, work) /\ k \notin spoilt
  BY <1>1, <1>2, <1>5 DEF Unwritten, Meets
<1> QED
  BY <1>3, <1>4, <1>5

\* Process p is done with its first statement.
Advance(p, clean) ==
    /\ proc[p].todo # <<>>
    /\ clean \in SUBSET proc[p].clean
    /\ proc' = [proc EXCEPT ![p].todo = Tail(proc[p].todo), ![p].clean = clean]

LEMMA Advanced ==
    ASSUME Inv, NEW p \in Process, NEW clean, Advance(p, clean)
    PROVE  LET s == Head(proc[p].todo)
               rest == Tail(proc[p].todo)
           IN  /\ proc'[p].todo = rest /\ proc'[p].clean = clean
               /\ proc'[p].run = proc[p].run
               /\ \A q \in Process \ {p} : proc'[q] = proc[q]
               /\ Left(s.kind, proc[p].todo) = {s} \cup Left(s.kind, rest)
               /\ \A k : k # s.kind => Left(k, rest) = Left(k, proc[p].todo)
<1>1. proc \in [Process -> ProcessRecord] /\ proc[p].todo \in Seq(Statement)
  BY DEF Inv, ProcOK, ProcessRecord
<1> DEFINE s == Head(proc[p].todo)
           rest == Tail(proc[p].todo)
<1>2. InTodo(proc[p].todo) = {s} \cup InTodo(rest)
  BY <1>1, RestOfTodo DEF Advance
<1> HIDE DEF s, rest
<1>3. /\ Left(s.kind, proc[p].todo) = {s} \cup Left(s.kind, rest)
      /\ \A k : k # s.kind => Left(k, rest) = Left(k, proc[p].todo)
  BY <1>2 DEF Left, OfKind
<1>4. proc' = [proc EXCEPT ![p].todo = rest, ![p].clean = clean]
  BY DEF Advance, rest
<1>5. /\ proc'[p].todo = rest /\ proc'[p].clean = clean /\ proc'[p].run = proc[p].run
      /\ \A q \in Process \ {p} : proc'[q] = proc[q]
  BY <1>1, <1>4 DEF ProcessRecord
<1> QED
  BY <1>3, <1>5 DEF s, rest

LEMMA AdvancedCallbacks ==
    ASSUME Inv, NEW p \in Process, NEW clean, Advance(p, clean),
           Callbacks(proc, setting.kinds), setting' = setting
    PROVE  Callbacks(proc', setting'.kinds)
<1> DEFINE rest == Tail(proc[p].todo)
<1>1. proc[p].todo \in Seq(Statement) /\ proc[p].todo # <<>>
  BY DEF Inv, ProcOK, ProcessRecord, Advance
<1>2. /\ proc'[p].todo = rest /\ proc'[p].run = proc[p].run
      /\ \A q \in Process \ {p} : proc'[q] = proc[q]
  BY Advanced
<1>3. InTodo(rest) \subseteq InTodo(proc[p].todo) /\ Shaped(rest)
  BY <1>1, RestOfTodo DEF Callbacks
<1>4. \A k \in Record \ setting.kinds : Left(k, rest) = {}
  BY <1>3 DEF Callbacks, Left, OfKind
<1>5. proc[p].run # "off"
  BY <1>1 DEF Callbacks
<1> HIDE DEF rest
<1> QED
  BY <1>2, <1>3, <1>4, <1>5 DEF Callbacks

LEMMA AdvancedOther ==
    ASSUME Inv, NEW p \in Process, NEW clean, Advance(p, clean),
           NEW k, k # Head(proc[p].todo).kind
    PROVE  Same(k, proc, proc')
<1>1. clean \subseteq proc[p].clean
  BY DEF Advance
<1>2. /\ proc'[p].todo = Tail(proc[p].todo) /\ proc'[p].clean = clean
      /\ \A q \in Process \ {p} : proc'[q] = proc[q]
      /\ Left(k, Tail(proc[p].todo)) = Left(k, proc[p].todo)
  BY Advanced
<1> QED
  BY <1>1, <1>2 DEF Same, CleanIn

LEMMA AdvancedAlone ==
    ASSUME Inv, NEW p \in Process, NEW clean, Advance(p, clean), Alone(proc, disturbed),
           \A k \in Record : /\ k \in proc[p].clean
                             /\ Left(k, Tail(proc[p].todo)) # {}
                             => k \in clean \/ k \in disturbed',
           \A k \in Record : k \in disturbed /\ k \notin disturbed'
                             => /\ Left(k, Tail(proc[p].todo)) = {}
                                /\ CleanIn(proc[p], k)
    PROVE  Alone(proc', disturbed')
<1> DEFINE s == Head(proc[p].todo)
           rest == Tail(proc[p].todo)
<1>1. /\ proc'[p].todo = rest /\ proc'[p].clean = clean
      /\ \A q \in Process \ {p} : proc'[q] = proc[q]
      /\ \A k : Left(k, rest) \subseteq Left(k, proc[p].todo)
      /\ clean \subseteq proc[p].clean
  BY Advanced DEF Advance
<1> HIDE DEF s, rest
<1> SUFFICES ASSUME NEW q \in Process, NEW k \in Record
             PROVE  /\ Left(k, proc'[q].todo) # {} => k \in proc'[q].clean \/ k \in disturbed'
                    /\ CleanIn(proc'[q], k)
                         => \A r \in Process \ {q} : Left(k, proc'[r].todo) = {}
  BY DEF Alone
<1>2. \A r \in Process :
        /\ Left(k, proc[r].todo) # {} => k \in proc[r].clean \/ k \in disturbed
        /\ CleanIn(proc[r], k) => \A t \in Process \ {r} : Left(k, proc[t].todo) = {}
  BY DEF Alone
<1>3. \A r \in Process : /\ Left(k, proc'[r].todo) \subseteq Left(k, proc[r].todo)
                         /\ proc'[r].clean \subseteq proc[r].clean
  BY <1>1
<1>4. CleanIn(proc'[q], k) => \A r \in Process \ {q} : Left(k, proc'[r].todo) = {}
  BY <1>2, <1>3 DEF CleanIn
<1>5. ASSUME Left(k, proc'[q].todo) # {}
      PROVE  k \in proc'[q].clean \/ k \in disturbed'
  <2>1. k \in proc[q].clean \/ k \in disturbed
    BY <1>2, <1>3, <1>5
  <2>2. CASE q = p
    BY <1>1, <1>5, <2>1, <2>2 DEF rest
  <2>3. CASE q # p
    BY <1>1, <1>2, <1>5, <2>1, <2>3
  <2> QED
    BY <2>2, <2>3
<1> QED
  BY <1>4, <1>5

\* While p writes of a kind, nobody else believes to do so undisturbed.
LEMMA AdvancedOwn ==
    ASSUME Inv, NEW p \in Process, NEW clean, Advance(p, clean), Alone(proc, disturbed),
           NEW k \in Record, k = Head(proc[p].todo).kind
    PROVE  \A q \in Process \ {p} : ~CleanIn(proc'[q], k)
<1>1. Left(k, proc[p].todo) # {} /\ \A q \in Process \ {p} : proc'[q] = proc[q]
  BY Advanced
<1> QED
  BY <1>1 DEF Alone

LEMMA DoneAdvances ==
    ASSUME Inv, NEW p \in Process, NEW heals, proc[p].todo # <<>>, Done(p, heals)
    PROVE  Advance(p, proc[p].clean \cap KindsIn(Tail(proc[p].todo)))
<1> DEFINE rest == Tail(proc[p].todo)
           clean == proc[p].clean \cap KindsIn(rest)
<1>1. proc' = [proc EXCEPT ![p].todo = rest, ![p].clean = clean]
  BY DEF Done, Inv, ProcOK, ProcessRecord
<1>2. clean \in SUBSET proc[p].clean
  OBVIOUS
<1> HIDE DEF clean
<1> QED
  BY <1>1, <1>2 DEF Advance, clean

LEMMA DoneAlone ==
    ASSUME Inv, NEW p \in Process, NEW heals, proc[p].todo # <<>>, Done(p, heals),
           Alone(proc, disturbed)
    PROVE  Alone(proc', disturbed')
<1> DEFINE s == Head(proc[p].todo)
           rest == Tail(proc[p].todo)
           clean == proc[p].clean \cap KindsIn(rest)
<1>1. Advance(p, clean)
  BY DoneAdvances
<1>2. \A k : k \in KindsIn(rest) <=> Left(k, rest) # {}
  BY KindsLeft
<1>3. Left(s.kind, proc[p].todo) # {}
  BY <1>1, Advanced
<1>4. disturbed' = IF heals /\ s.kind \in proc[p].clean \ KindsIn(rest)
                   THEN disturbed \ {s.kind} ELSE disturbed
  BY DEF Done
<1> HIDE DEF s, rest
<1>5. \A k : k \in proc[p].clean /\ Left(k, rest) # {} => k \in clean
  BY <1>2
<1>6. \A k : k \in disturbed /\ k \notin disturbed'
             => Left(k, rest) = {} /\ CleanIn(proc[p], k)
  BY <1>2, <1>3, <1>4 DEF CleanIn
<1> HIDE DEF clean
<1> QED
  BY <1>1, <1>5, <1>6, AdvancedAlone DEF rest

\* What is known of the kind that p has written a statement of.
LEMMA DoneOwn ==
    ASSUME Inv, NEW p \in Process, NEW heals, proc[p].todo # <<>>, Done(p, heals),
           Alone(proc, disturbed),
           NEW k \in Record, k = Head(proc[p].todo).kind
    PROVE  /\ CleanIn(proc'[p], k) => CleanIn(proc[p], k) /\ disturbed' = disturbed
           /\ k \notin disturbed' /\ Unwritten(proc', k)
                => /\ CleanIn(proc[p], k)
                   /\ Left(k, Tail(proc[p].todo)) = {}
                   /\ heals \/ k \notin disturbed
<1> DEFINE rest == Tail(proc[p].todo)
           clean == proc[p].clean \cap KindsIn(rest)
<1>1. Advance(p, clean)
  BY DoneAdvances
<1>2. k \in KindsIn(rest) <=> Left(k, rest) # {}
  BY KindsLeft
<1>3. /\ Left(k, proc[p].todo) # {}
      /\ proc'[p].todo = rest /\ proc'[p].clean = clean
  BY <1>1, Advanced
<1>4. disturbed' = IF heals /\ k \in proc[p].clean \ KindsIn(rest)
                   THEN disturbed \ {k} ELSE disturbed
  BY DEF Done
<1>5. k \in proc[p].clean \/ k \in disturbed
  BY <1>3 DEF Alone
<1> HIDE DEF rest
<1> QED
  BY <1>2, <1>3, <1>4, <1>5 DEF CleanIn, Unwritten, rest

\* Process p stops what it was doing.
Drop(p, r) ==
    /\ proc' = [proc EXCEPT ![p] = r]
    /\ r.todo = <<>>
    /\ disturbed \subseteq disturbed'
    /\ \A k \in Record : Left(k, proc[p].todo) # {} => k \in disturbed'

LEMMA DropCallbacks ==
    ASSUME Inv, NEW p \in Process, NEW r, Drop(p, r),
           Callbacks(proc, setting.kinds), setting' = setting
    PROVE  Callbacks(proc', setting'.kinds)
<1>1. proc'[p] = r /\ r.todo = <<>> /\ \A q \in Process \ {p} : proc'[q] = proc[q]
  BY DEF Drop, Inv, ProcOK
<1> QED
  BY <1>1, EmptyTodo DEF Callbacks

LEMMA DropAlone ==
    ASSUME Inv, NEW p \in Process, NEW r, Drop(p, r), Alone(proc, disturbed)
    PROVE  Alone(proc', disturbed')
<1>1. /\ proc'[p] = r /\ r.todo = <<>> /\ \A q \in Process \ {p} : proc'[q] = proc[q]
      /\ disturbed \subseteq disturbed'
  BY DEF Drop, Inv, ProcOK
<1>2. \A k : Left(k, proc'[p].todo) = {}
  BY <1>1, EmptyTodo
<1> QED
  BY <1>1, <1>2 DEF Alone, CleanIn

LEMMA DropKind ==
    ASSUME Inv, NEW p \in Process, NEW r, Drop(p, r), Alone(proc, disturbed),
           NEW k \in Record
    PROVE  Same(k, proc, proc') \/ Broken(k, proc', disturbed')
<1>1. /\ proc'[p] = r /\ r.todo = <<>> /\ \A q \in Process \ {p} : proc'[q] = proc[q]
      /\ Left(k, proc[p].todo) # {} => k \in disturbed'
  BY DEF Drop, Inv, ProcOK
<1>2. Left(k, proc'[p].todo) = {}
  BY <1>1, EmptyTodo
<1>3. CASE Left(k, proc[p].todo) = {}
  BY <1>1, <1>2, <1>3 DEF Same, CleanIn
<1>4. CASE Left(k, proc[p].todo) # {}
  BY <1>1, <1>2, <1>4 DEF Broken, Alone, CleanIn
<1> QED
  BY <1>3, <1>4

-----------------------------------------------------------------------------
(* What a sound record is, and one that is being written *)

AskedInTime(A) ==
    A["created"] # NULL => A["lastMssp"] # NULL /\ A["lastMssp"] <= A["created"]
NewsMarked(A) == A["updated"] # NULL /\ A["updated"] <= A["differed"]

MsspSound(D, A, what) ==
    /\ AskedInTime(A)
    /\ what # NULL => D.newest = {what} /\ D.name = what /\ NewsMarked(A)

(* Before the data are stored, the record was as it must be, and any news     *)
(* have been noticed; after that the rest is still to be told.               *)
MsspOnTheWay(W, D, A, what, dist) ==
    /\ Has(W, "insert") /\ "mssp" \notin dist
       => /\ MsspSound(D, A, what)
          /\ \A s \in W : s.put = "insert" /\ s.val # what => Has(W, "updated")
    /\ ~Has(W, "insert")
       => /\ what # NULL /\ D.newest = {what}
          /\ \A s \in W : s.put = "names" => s.val = what
          /\ Has(W, "lastMssp") \/ AskedInTime(A)
          /\ Has(W, "updated") \/ NewsMarked(A) \/ "mssp" \in dist

RowsOf(opts) == [o \in Option |-> IF o \in opts THEN 1 ELSE 0]
Pending(W) == {s.val : s \in {t \in W : t.put = "telopt"}}

TeloptsSound(D, opts) == D.telopts = RowsOf(opts)
TeloptsOnTheWay(W, D, opts) ==
    /\ Pending(W) \subseteq opts
    /\ Has(W, "clear") => Pending(W) = opts
    /\ ~Has(W, "clear") => D.telopts = RowsOf(opts \ Pending(W))

\* A scan was answered and has not ended.
Answered(C) == \E c \in Conn : IsScan(c) /\ C[c].st = "open"

StatusSound(D, A) ==
    /\ D.status = "NO_ANSWER" /\ A["since"] # NULL /\ A["answered"] # NULL
       => A["since"] <= A["answered"]
    /\ D.status = "APPROVED" => D.greeted
ScanSound(D, A, C) == Answered(C) \/ StatusSound(D, A)

\* A status that is not the start of a new time is the one there was.
ScanOnTheWay(W, D, A, C, dist) ==
    /\ \A s \in W : s.put = "status" /\ s.val # "APPROVED"
         => D.status = s.val /\ (ScanSound(D, A, C) \/ "scan" \in dist)
    /\ Has(W, "status") \/ Has(W, "since") \/ D.status = "APPROVED"

KeptMssp(P, D, A, what, dist) ==
    /\ "mssp" \in dist \/ ~Unwritten(P, "mssp") \/ MsspSound(D, A, what)
    /\ \A p \in Process : CleanIn(P[p], "mssp")
         => MsspOnTheWay(Left("mssp", P[p].todo), D, A, what, dist)
KeptTelopts(P, D, opts, dist) ==
    /\ "telopts" \in dist \/ ~Unwritten(P, "telopts") \/ TeloptsSound(D, opts)
    /\ \A p \in Process : CleanIn(P[p], "telopts")
         => TeloptsOnTheWay(Left("telopts", P[p].todo), D, opts)
KeptScan(P, D, A, C, dist) ==
    /\ "scan" \in dist \/ ~Unwritten(P, "scan") \/ ScanSound(D, A, C)
    /\ \A p \in Process : CleanIn(P[p], "scan")
         => ScanOnTheWay(Left("scan", P[p].todo), D, A, C, dist)

\* Once data were stored, they differed from none at some time.
Reported(D, A, what) ==
    /\ what = NULL <=> D.newest = {}
    /\ what # NULL => A["differed"] # NULL

\* What is not followed does not change, and a scan that was answered knows it.
Unfollowed(D, A, kinds) ==
    /\ "mssp" \in kinds \/ A["created"] = NULL
    /\ "scan" \in kinds \/ D.status = "unknown"
Known(C) == \A c \in Conn : IsScan(c) /\ C[c].st = "open" => C[c].is = "APPROVED"

Keeping ==
    /\ Callbacks(proc, setting.kinds)
    /\ Alone(proc, disturbed)
    /\ KeptMssp(proc, db, age, truth.what, disturbed)
    /\ KeptTelopts(proc, db, truth.opts, disturbed)
    /\ KeptScan(proc, db, age, conn, disturbed)
    /\ Reported(db, age, truth.what)
    /\ Unfollowed(db, age, setting.kinds)
    /\ Known(conn)

-----------------------------------------------------------------------------
(* Steps that have nothing to do with a kind of record *)

LEMMA MsspUntouched ==
    ASSUME NEW P, NEW D, NEW A, NEW what, NEW dist, KeptMssp(P, D, A, what, dist),
           NEW Q, NEW E, NEW B, NEW dist2, Same("mssp", P, Q),
           E.newest = D.newest, E.name = D.name,
           \A s \in {"created", "lastMssp", "updated", "differed"} : B[s] = A[s],
           "mssp" \in dist => "mssp" \in dist2
    PROVE  KeptMssp(Q, E, B, what, dist2)
  BY DEF KeptMssp, Same, Unwritten, MsspSound, MsspOnTheWay, AskedInTime, NewsMarked

LEMMA TeloptsUntouched ==
    ASSUME NEW P, NEW D, NEW opts, NEW dist, KeptTelopts(P, D, opts, dist),
           NEW Q, NEW E, NEW dist2, Same("telopts", P, Q), E.telopts = D.telopts,
           "telopts" \in dist => "telopts" \in dist2
    PROVE  KeptTelopts(Q, E, opts, dist2)
  BY DEF KeptTelopts, Same, Unwritten, TeloptsSound, TeloptsOnTheWay

LEMMA ScanUntouched ==
    ASSUME NEW P, NEW D, NEW A, NEW C, NEW dist, KeptScan(P, D, A, C, dist),
           NEW Q, NEW E, NEW B, NEW C2, NEW dist2, Same("scan", P, Q),
           E.status = D.status, E.greeted = D.greeted,
           B["since"] = A["since"], B["answered"] = A["answered"],
           (Answered(C) => Answered(C2)) \/ StatusSound(E, B) \/ "scan" \in dist2,
           "scan" \in dist => "scan" \in dist2
    PROVE  KeptScan(Q, E, B, C2, dist2)
<1>1. ScanSound(D, A, C) => ScanSound(E, B, C2) \/ "scan" \in dist2
  BY DEF ScanSound, StatusSound
<1> QED
  BY <1>1 DEF KeptScan, Same, Unwritten, ScanOnTheWay

LEMMA NothingKept ==
    /\ \A P, D, A, what, dist : Broken("mssp", P, dist) => KeptMssp(P, D, A, what, dist)
    /\ \A P, D, opts, dist : Broken("telopts", P, dist) => KeptTelopts(P, D, opts, dist)
    /\ \A P, D, A, C, dist : Broken("scan", P, dist) => KeptScan(P, D, A, C, dist)
  BY DEF Broken, KeptMssp, KeptTelopts, KeptScan

-----------------------------------------------------------------------------
(* A callback that begins *)

LEMMA BegunCallbacks ==
    ASSUME NEW P \in [Process -> ProcessRecord], NEW p \in Process, NEW work,
           NEW spoilt, BeginSpoilt(P, p, work, spoilt), P[p].run # "off",
           Callbacks(P, setting.kinds), setting' = setting, Shaped(work),
           \A k \in Record \ setting.kinds : Left(k, work) = {}
    PROVE  Callbacks(proc', setting'.kinds)
<1>1. /\ proc'[p].todo = work /\ proc'[p].run = P[p].run
      /\ \A q \in Process \ {p} : proc'[q].todo = P[q].todo /\ proc'[q].run = P[q].run
  BY Begun
<1> QED
  BY <1>1 DEF Callbacks

LEMMA MsspBegun ==
    ASSUME NEW P \in [Process -> ProcessRecord], NEW p \in Process, NEW work,
           NEW spoilt, BeginSpoilt(P, p, work, spoilt), P[p].todo = <<>>,
           NEW D, NEW A, NEW what, KeptMssp(P, D, A, what, disturbed),
           \/ Left("mssp", work) = {}
           \/ "mssp" \in spoilt
           \/ ("mssp" \in disturbed \/ MsspSound(D, A, what))
              => MsspOnTheWay(Left("mssp", work), D, A, what, disturbed)
    PROVE  KeptMssp(proc', D, A, what, disturbed')
<1> DEFINE k == "mssp"
<1>1. k \in Record
  BY DEF Record
<1>2. CASE Left(k, work) = {}
  <2>1. Same(k, P, proc')
    BY <1>1, <1>2, BegunOther
  <2>2. k \in disturbed => k \in disturbed'
    BY <1>1, Begun
  <2> QED
    BY <2>1, <2>2, MsspUntouched
<1>3. CASE Broken(k, proc', disturbed')
  BY <1>3, NothingKept
<1>4. CASE /\ Left(k, work) # {} /\ Unwritten(P, k) /\ k \notin spoilt
           /\ k \in disturbed' <=> k \in disturbed
           /\ Left(k, proc'[p].todo) = Left(k, work)
           /\ \A q \in Process \ {p} : Left(k, proc'[q].todo) = {}
  <2>1. MsspOnTheWay(Left(k, work), D, A, what, disturbed)
    BY <1>4 DEF KeptMssp
  <2>2. MsspOnTheWay(Left(k, work), D, A, what, disturbed')
    BY <1>4, <2>1 DEF MsspOnTheWay
  <2>3. ~Unwritten(proc', k)
    BY <1>4 DEF Unwritten
  <2>4. \A q \in Process : CleanIn(proc'[q], k) => q = p
    BY <1>4 DEF CleanIn
  <2> QED
    BY <1>4, <2>2, <2>3, <2>4 DEF KeptMssp
<1>5. ASSUME Left(k, work) # {}
      PROVE  \/ Broken(k, proc', disturbed')
             \/ /\ Unwritten(P, k) /\ k \notin spoilt
                /\ k \in disturbed' <=> k \in disturbed
                /\ Left(k, proc'[p].todo) = Left(k, work)
                /\ \A q \in Process \ {p} : Left(k, proc'[q].todo) = {}
  <2>1. PICK j \in Record : j = "mssp"
    BY <1>1, Zenon
  <2>2. Left(j, work) # {}
    BY <1>5, <2>1
  <2>3. \/ Broken(j, proc', disturbed')
        \/ /\ Unwritten(P, j) /\ j \notin spoilt
           /\ j \in disturbed' <=> j \in disturbed
           /\ Left(j, proc'[p].todo) = Left(j, work)
           /\ \A q \in Process \ {p} : Left(j, proc'[q].todo) = {}
    BY <2>2, BegunOwn, Zenon
  <2> QED
    BY <2>1, <2>3
<1> QED
  BY <1>2, <1>3, <1>4, <1>5

LEMMA TeloptsBegun ==
    ASSUME NEW P \in [Process -> ProcessRecord], NEW p \in Process, NEW work,
           NEW spoilt, BeginSpoilt(P, p, work, spoilt), P[p].todo = <<>>,
           NEW D, NEW opts, NEW opts2, KeptTelopts(P, D, opts, disturbed),
           \/ Left("telopts", work) = {} /\ opts2 = opts
           \/ Left("telopts", work) # {} /\ TeloptsOnTheWay(Left("telopts", work), D, opts2)
    PROVE  KeptTelopts(proc', D, opts2, disturbed')
<1> DEFINE k == "telopts"
<1>1. k \in Record
  BY DEF Record
<1>2. CASE Left(k, work) = {}
  <2>1. Same(k, P, proc')
    BY <1>1, <1>2, BegunOther
  <2>2. k \in disturbed => k \in disturbed'
    BY <1>1, Begun
  <2> QED
    BY <1>2, <2>1, <2>2, TeloptsUntouched
<1>3. CASE Broken(k, proc', disturbed')
  BY <1>3, NothingKept
<1>4. CASE /\ Left(k, work) # {}
           /\ Left(k, proc'[p].todo) = Left(k, work)
           /\ \A q \in Process \ {p} : Left(k, proc'[q].todo) = {}
  <2>1. TeloptsOnTheWay(Left(k, work), D, opts2)
    BY <1>4
  <2>2. ~Unwritten(proc', k)
    BY <1>4 DEF Unwritten
  <2>3. \A q \in Process : CleanIn(proc'[q], k) => q = p
    BY <1>4 DEF CleanIn
  <2> QED
    BY <1>4, <2>1, <2>2, <2>3 DEF KeptTelopts
<1>5. ASSUME Left(k, work) # {}
      PROVE  \/ Broken(k, proc', disturbed')
             \/ /\ Unwritten(P, k) /\ k \notin spoilt
                /\ k \in disturbed' <=> k \in disturbed
                /\ Left(k, proc'[p].todo) = Left(k, work)
                /\ \A q \in Process \ {p} : Left(k, proc'[q].todo) = {}
  <2>1. PICK j \in Record : j = "telopts"
    BY <1>1, Zenon
  <2>2. Left(j, work) # {}
    BY <1>5, <2>1
  <2>3. \/ Broken(j, proc', disturbed')
        \/ /\ Unwritten(P, j) /\ j \notin spoilt
           /\ j \in disturbed' <=> j \in disturbed
           /\ Left(j, proc'[p].todo) = Left(j, work)
           /\ \A q \in Process \ {p} : Left(j, proc'[q].todo) = {}
    BY <2>2, BegunOwn, Zenon
  <2> QED
    BY <2>1, <2>3
<1> QED
  BY <1>2, <1>3, <1>4, <1>5

LEMMA ScanBegun ==
    ASSUME NEW P \in [Process -> ProcessRecord], NEW p \in Process, NEW work,
           NEW spoilt, BeginSpoilt(P, p, work, spoilt), P[p].todo = <<>>,
           NEW D, NEW A, NEW C, NEW C2, KeptScan(P, D, A, C, disturbed),
           \/ Left("scan", work) = {} /\ ((Answered(C) => Answered(C2)) \/ StatusSound(D, A))
           \/ /\ Left("scan", work) # {}
              /\ \/ "scan" \in spoilt
                 \/ ("scan" \in disturbed \/ ScanSound(D, A, C))
                    => ScanOnTheWay(Left("scan", work), D, A, C2, disturbed)
    PROVE  KeptScan(proc', D, A, C2, disturbed')
<1> DEFINE k == "scan"
<1>1. k \in Record
  BY DEF Record
<1>2. CASE Left(k, work) = {}
  <2>1. Same(k, P, proc')
    BY <1>1, <1>2, BegunOther
  <2>2. k \in disturbed => k \in disturbed'
    BY <1>1, Begun
  <2> QED
    BY <1>2, <2>1, <2>2, ScanUntouched
<1>3. CASE Broken(k, proc', disturbed')
  BY <1>3, NothingKept
<1>4. CASE /\ Left(k, work) # {} /\ Unwritten(P, k) /\ k \notin spoilt
           /\ k \in disturbed' <=> k \in disturbed
           /\ Left(k, proc'[p].todo) = Left(k, work)
           /\ \A q \in Process \ {p} : Left(k, proc'[q].todo) = {}
  <2>1. ScanOnTheWay(Left(k, work), D, A, C2, disturbed)
    BY <1>4 DEF KeptScan
  <2>2. ScanOnTheWay(Left(k, work), D, A, C2, disturbed')
    BY <1>4, <2>1 DEF ScanOnTheWay
  <2>3. ~Unwritten(proc', k)
    BY <1>4 DEF Unwritten
  <2>4. \A q \in Process : CleanIn(proc'[q], k) => q = p
    BY <1>4 DEF CleanIn
  <2> QED
    BY <1>4, <2>2, <2>3, <2>4 DEF KeptScan
<1>5. ASSUME Left(k, work) # {}
      PROVE  \/ Broken(k, proc', disturbed')
             \/ /\ Unwritten(P, k) /\ k \notin spoilt
                /\ k \in disturbed' <=> k \in disturbed
                /\ Left(k, proc'[p].todo) = Left(k, work)
                /\ \A q \in Process \ {p} : Left(k, proc'[q].todo) = {}
  <2>1. PICK j \in Record : j = "scan"
    BY <1>1, Zenon
  <2>2. Left(j, work) # {}
    BY <1>5, <2>1
  <2>3. \/ Broken(j, proc', disturbed')
        \/ /\ Unwritten(P, j) /\ j \notin spoilt
           /\ j \in disturbed' <=> j \in disturbed
           /\ Left(j, proc'[p].todo) = Left(j, work)
           /\ \A q \in Process \ {p} : Left(j, proc'[q].todo) = {}
    BY <2>2, BegunOwn, Zenon
  <2> QED
    BY <2>1, <2>3
<1> QED
  BY <1>2, <1>3, <1>4, <1>5

-----------------------------------------------------------------------------
(* A statement that is done, of the one kind and of the others *)

LEMMA MsspWritten ==
    ASSUME Inv, Alone(proc, disturbed), NEW p \in Process, NEW heals,
           proc[p].todo # <<>>, Done(p, heals), Head(proc[p].todo).kind = "mssp",
           NEW D, NEW A, NEW what,
           CleanIn(proc[p], "mssp") /\ Left("mssp", Tail(proc[p].todo)) # {}
             => MsspOnTheWay(Left("mssp", Tail(proc[p].todo)), D, A, what, disturbed),
           CleanIn(proc[p], "mssp") /\ Left("mssp", Tail(proc[p].todo)) = {}
           /\ (heals \/ "mssp" \notin disturbed)
             => MsspSound(D, A, what)
    PROVE  KeptMssp(proc', D, A, what, disturbed')
<1> DEFINE k == "mssp"
           rest == Tail(proc[p].todo)
<1>1. k \in Record
  BY DEF Record
<1>2. /\ CleanIn(proc'[p], k) => CleanIn(proc[p], k) /\ disturbed' = disturbed
      /\ k \notin disturbed' /\ Unwritten(proc', k)
           => /\ CleanIn(proc[p], k) /\ Left(k, rest) = {}
              /\ heals \/ k \notin disturbed
  BY <1>1, DoneOwn
<1>3. /\ \A q \in Process \ {p} : ~CleanIn(proc'[q], k)
      /\ proc'[p].todo = rest
  BY <1>1, DoneAdvances, AdvancedOwn, Advanced
<1> HIDE DEF rest
<1>4. ASSUME CleanIn(proc'[p], k)
      PROVE  MsspOnTheWay(Left(k, proc'[p].todo), D, A, what, disturbed')
  <2>1. Left(k, rest) # {}
    BY <1>3, <1>4 DEF CleanIn
  <2> QED
    BY <1>2, <1>3, <1>4, <2>1 DEF rest
<1>5. k \in disturbed' \/ ~Unwritten(proc', k) \/ MsspSound(D, A, what)
  BY <1>2 DEF rest
<1> QED
  BY <1>3, <1>4, <1>5 DEF KeptMssp

LEMMA TeloptsWritten ==
    ASSUME Inv, Alone(proc, disturbed), NEW p \in Process, NEW heals,
           proc[p].todo # <<>>, Done(p, heals), Head(proc[p].todo).kind = "telopts",
           NEW D, NEW opts,
           CleanIn(proc[p], "telopts") /\ Left("telopts", Tail(proc[p].todo)) # {}
             => TeloptsOnTheWay(Left("telopts", Tail(proc[p].todo)), D, opts),
           CleanIn(proc[p], "telopts") /\ Left("telopts", Tail(proc[p].todo)) = {}
             => TeloptsSound(D, opts)
    PROVE  KeptTelopts(proc', D, opts, disturbed')
<1> DEFINE k == "telopts"
           rest == Tail(proc[p].todo)
<1>1. k \in Record
  BY DEF Record
<1>2. /\ CleanIn(proc'[p], k) => CleanIn(proc[p], k)
      /\ k \notin disturbed' /\ Unwritten(proc', k)
           => CleanIn(proc[p], k) /\ Left(k, rest) = {}
  BY <1>1, DoneOwn
<1>3. /\ \A q \in Process \ {p} : ~CleanIn(proc'[q], k)
      /\ proc'[p].todo = rest
  BY <1>1, DoneAdvances, AdvancedOwn, Advanced
<1> HIDE DEF rest
<1>4. ASSUME CleanIn(proc'[p], k)
      PROVE  TeloptsOnTheWay(Left(k, proc'[p].todo), D, opts)
  <2>1. Left(k, rest) # {}
    BY <1>3, <1>4 DEF CleanIn
  <2> QED
    BY <1>2, <1>3, <1>4, <2>1 DEF rest
<1>5. k \in disturbed' \/ ~Unwritten(proc', k) \/ TeloptsSound(D, opts)
  BY <1>2 DEF rest
<1> QED
  BY <1>3, <1>4, <1>5 DEF KeptTelopts

LEMMA ScanWritten ==
    ASSUME Inv, Alone(proc, disturbed), NEW p \in Process, NEW heals,
           proc[p].todo # <<>>, Done(p, heals), Head(proc[p].todo).kind = "scan",
           NEW D, NEW A, NEW C,
           CleanIn(proc[p], "scan") /\ Left("scan", Tail(proc[p].todo)) # {}
             => ScanOnTheWay(Left("scan", Tail(proc[p].todo)), D, A, C, disturbed),
           CleanIn(proc[p], "scan") /\ Left("scan", Tail(proc[p].todo)) = {}
           /\ (heals \/ "scan" \notin disturbed)
             => ScanSound(D, A, C)
    PROVE  KeptScan(proc', D, A, C, disturbed')
<1> DEFINE k == "scan"
           rest == Tail(proc[p].todo)
<1>1. k \in Record
  BY DEF Record
<1>2. /\ CleanIn(proc'[p], k) => CleanIn(proc[p], k) /\ disturbed' = disturbed
      /\ k \notin disturbed' /\ Unwritten(proc', k)
           => /\ CleanIn(proc[p], k) /\ Left(k, rest) = {}
              /\ heals \/ k \notin disturbed
  BY <1>1, DoneOwn
<1>3. /\ \A q \in Process \ {p} : ~CleanIn(proc'[q], k)
      /\ proc'[p].todo = rest
  BY <1>1, DoneAdvances, AdvancedOwn, Advanced
<1> HIDE DEF rest
<1>4. ASSUME CleanIn(proc'[p], k)
      PROVE  ScanOnTheWay(Left(k, proc'[p].todo), D, A, C, disturbed')
  <2>1. Left(k, rest) # {}
    BY <1>3, <1>4 DEF CleanIn
  <2> QED
    BY <1>2, <1>3, <1>4, <2>1 DEF rest
<1>5. k \in disturbed' \/ ~Unwritten(proc', k) \/ ScanSound(D, A, C)
  BY <1>2 DEF rest
<1> QED
  BY <1>3, <1>4, <1>5 DEF KeptScan

\* The kinds that a statement is not of.
LEMMA DoneOther ==
    ASSUME Inv, NEW p \in Process, NEW heals, proc[p].todo # <<>>, Done(p, heals),
           NEW k \in Record, k # Head(proc[p].todo).kind
    PROVE  Same(k, proc, proc') /\ (k \in disturbed => k \in disturbed')
<1>1. Same(k, proc, proc')
  BY DoneAdvances, AdvancedOther
<1>2. k \in disturbed => k \in disturbed'
  BY DEF Done
<1> QED
  BY <1>1, <1>2

\* The first statement of a process, and what has to come after it.
LEMMA FirstStatement ==
    ASSUME Inv, Keeping, NEW p \in Process, proc[p].todo # <<>>
    PROVE  LET s == Head(proc[p].todo)
               rest == Tail(proc[p].todo)
           IN  /\ PutFits(s)
               /\ s \in Left(s.kind, proc[p].todo)
               /\ \A k \in Record : \A t \in Left(k, rest) : PutFits(t) /\ Precedes(s, t)
               /\ s.put = "insert" => Has(Left("mssp", rest), "lastMssp")
               /\ s.put \in {"lastMssp", "updated"} => Has(Left("mssp", rest), "names")
               /\ Rewrites(s) /\ s.val = "APPROVED" => Has(Left("scan", rest), "greeting")
<1> DEFINE s == Head(proc[p].todo)
           rest == Tail(proc[p].todo)
<1>1. proc[p].todo \in Seq(Statement) /\ Shaped(proc[p].todo)
  BY DEF Inv, ProcOK, ProcessRecord, Keeping, Callbacks
<1>2. /\ InTodo(proc[p].todo) = {s} \cup InTodo(rest)
      /\ PutFits(s)
      /\ \A t \in InTodo(rest) : PutFits(t) /\ Precedes(s, t)
      /\ \A put \in Followers(s) : Has(InTodo(rest), put)
  BY <1>1, RestOfTodo
<1> HIDE DEF s, rest
<1>3. /\ s \in Left(s.kind, proc[p].todo)
      /\ \A k : \A t \in Left(k, rest) : PutFits(t) /\ Precedes(s, t)
  BY <1>2 DEF Left, OfKind
<1>4. \A put \in MsspPut : Has(InTodo(rest), put) => Has(Left("mssp", rest), put)
  BY <1>2 DEF Has, Left, OfKind, PutFits
<1>5. Has(InTodo(rest), "greeting") => Has(Left("scan", rest), "greeting")
  BY <1>2 DEF Has, Left, OfKind, PutFits
<1>6. s.put = "insert" => Has(Left("mssp", rest), "lastMssp")
  BY <1>2, <1>4 DEF Followers, MsspPut
<1>7. s.put \in {"lastMssp", "updated"} => Has(Left("mssp", rest), "names")
  BY <1>2, <1>4 DEF Followers, MsspPut
<1>8. Rewrites(s) /\ s.val = "APPROVED" => Has(Left("scan", rest), "greeting")
  BY <1>2, <1>5 DEF Followers, Rewrites
<1> QED
  BY <1>2, <1>3, <1>6, <1>7, <1>8 DEF s, rest

\* A statement that does not store data; its own kind is looked at elsewhere.
LEMMA StatementKeeps ==
    ASSUME Inv, Keeping, NEW p \in Process, NEW heals, proc[p].todo # <<>>, Done(p, heals),
           UNCHANGED <<conn, setting, truth>>,
           db'.newest = db.newest,
           age'["created"] = age["created"], age'["differed"] = age["differed"],
           IF Head(proc[p].todo).kind = "mssp"
           THEN KeptMssp(proc', db', age', truth.what, disturbed')
           ELSE db'.name = db.name /\ age'["lastMssp"] = age["lastMssp"]
                /\ age'["updated"] = age["updated"],
           IF Head(proc[p].todo).kind = "telopts"
           THEN KeptTelopts(proc', db', truth.opts, disturbed')
           ELSE db'.telopts = db.telopts,
           IF Head(proc[p].todo).kind = "scan"
           THEN KeptScan(proc', db', age', conn, disturbed')
           ELSE db'.status = db.status /\ db'.greeted = db.greeted
                /\ age'["since"] = age["since"] /\ age'["answered"] = age["answered"]
    PROVE  Keeping'
<1> DEFINE s == Head(proc[p].todo)
<1>1. Callbacks(proc', setting'.kinds) /\ Alone(proc', disturbed')
  BY DoneAdvances, AdvancedCallbacks, DoneAlone DEF Keeping
<1>2. KeptMssp(proc', db', age', truth'.what, disturbed')
  <2>1. CASE s.kind = "mssp"
    BY <2>1
  <2>2. CASE s.kind # "mssp"
    <3>1. Same("mssp", proc, proc') /\ ("mssp" \in disturbed => "mssp" \in disturbed')
      BY <2>2, DoneOther DEF Record
    <3>2. \A t \in {"created", "lastMssp", "updated", "differed"} : age'[t] = age[t]
      BY <2>2
    <3>3. KeptMssp(proc', db', age', truth.what, disturbed')
      BY <2>2, <3>1, <3>2, MsspUntouched DEF Keeping
    <3> QED
      BY <3>3
  <2> QED
    BY <2>1, <2>2
<1>3. KeptTelopts(proc', db', truth'.opts, disturbed')
  <2>1. CASE s.kind = "telopts"
    BY <2>1
  <2>2. CASE s.kind # "telopts"
    <3>1. Same("telopts", proc, proc') /\ ("telopts" \in disturbed => "telopts" \in disturbed')
      BY <2>2, DoneOther DEF Record
    <3>2. KeptTelopts(proc', db', truth.opts, disturbed')
      BY <2>2, <3>1, TeloptsUntouched DEF Keeping
    <3> QED
      BY <3>2
  <2> QED
    BY <2>1, <2>2
<1>4. KeptScan(proc', db', age', conn', disturbed')
  <2>1. CASE s.kind = "scan"
    BY <2>1
  <2>2. CASE s.kind # "scan"
    <3>1. Same("scan", proc, proc') /\ ("scan" \in disturbed => "scan" \in disturbed')
      BY <2>2, DoneOther DEF Record
    <3>2. KeptScan(proc', db', age', conn, disturbed')
      BY <2>2, <3>1, ScanUntouched DEF Keeping
    <3> QED
      BY <3>2
  <2> QED
    BY <2>1, <2>2
<1>5. Reported(db', age', truth'.what)
  BY DEF Keeping, Reported
<1>6. Unfollowed(db', age', setting'.kinds)
  <2>1. s.kind = "scan" => "scan" \in setting.kinds
    <3>1. s \in Left(s.kind, proc[p].todo)
      BY FirstStatement
    <3> HIDE DEF s
    <3> QED
      BY <3>1 DEF Keeping, Callbacks, Record
  <2> HIDE DEF s
  <2>2. "scan" \in setting.kinds \/ db'.status = db.status
    BY <2>1 DEF s
  <2> QED
    BY <2>2 DEF Keeping, Unfollowed
<1>7. Known(conn')
  BY DEF Keeping, Known
<1> QED
  BY <1>1, <1>2, <1>3, <1>4, <1>5, <1>6, <1>7 DEF Keeping

LEMMA Renewed ==
    ASSUME NEW stamps, NEW s \in Stamp
    PROVE  Renew(stamps)[s] = IF s \in stamps THEN 0 ELSE age[s]
  BY DEF Renew

\* No age changes but of these timestamps.
LEMMA OthersAge ==
    ASSUME NEW stamps, age' = Renew(stamps)
    PROVE  \A s \in {"lastMssp", "updated", "created", "since", "differed", "answered"} :
             age'[s] = IF s \in stamps THEN 0 ELSE age[s]
  BY Renewed DEF Stamp

LEMMA CreationKeeps ==
    ASSUME Inv, Keeping, NEW p \in Process,
           CreateFile(p) \/ DefineTables(p) \/ InsertHome(p) \/ InsertVersion(p)
    PROVE  Keeping'
<1> DEFINE s == Head(proc[p].todo)
<1>1. /\ proc[p].todo # <<>> /\ s.put \in FilePut /\ Done(p, TRUE)
      /\ UNCHANGED <<conn, setting, truth>> /\ age' = Renew({})
  BY DEF CreateFile, DefineTables, InsertHome, InsertVersion, NextIs, Writes, FilePut
<1>2. db \in Database
  BY DEF Inv, TypeOK
<1>3. /\ db'.newest = db.newest /\ db'.name = db.name /\ db'.telopts = db.telopts
      /\ db'.status = db.status /\ db'.greeted = db.greeted
  BY <1>2 DEF CreateFile, DefineTables, InsertHome, InsertVersion, Writes, Database
<1>4. s.kind \notin Record
  <2>1. PutFits(s)
    BY <1>1, FirstStatement
  <2> HIDE DEF s
  <2> QED
    BY <1>1, <2>1 DEF PutFits, Record, MsspPut, Rewrites, FilePut
<1>5. \A t \in {"lastMssp", "updated", "created", "since", "differed", "answered"} :
        age'[t] = age[t]
  BY <1>1, OthersAge
<1> QED
  BY <1>1, <1>3, <1>4, <1>5, StatementKeeps DEF Record

LEMMA Ages ==
    ASSUME Inv
    PROVE  /\ \A s \in {"lastMssp", "updated", "created", "since", "differed", "answered"} :
                age[s] = NULL \/ age[s] \in Nat
           /\ 0 # NULL
<1>1. \A s \in Stamp : Oldest(s) \in Nat /\ age[s] \in 0..Oldest(s) \cup {NULL}
  BY AgesTyped DEF Inv, TypeOK
<1> QED
  BY <1>1, NullAssumption DEF Stamp

\* What is left of a report after this statement.
LEMMA MsspLeft ==
    ASSUME Inv, Keeping, NEW p \in Process, proc[p].todo # <<>>,
           Head(proc[p].todo).put \in MsspPut
    PROVE  LET s == Head(proc[p].todo)
               R == Left("mssp", Tail(proc[p].todo))
           IN  /\ s.kind = "mssp"
               /\ Left("mssp", proc[p].todo) = {s} \cup R
               /\ \A t \in R : t.put \in MsspAfter(s.put)
               /\ s.put = "insert" => \A t \in R : t.put = "names" => t.val = s.val
<1> DEFINE s == Head(proc[p].todo)
           rest == Tail(proc[p].todo)
<1>1. PutFits(s) /\ \A t \in Left("mssp", rest) : PutFits(t) /\ Precedes(s, t)
  BY FirstStatement DEF Record
<1>2. InTodo(proc[p].todo) = {s} \cup InTodo(rest)
  BY RestOfTodo DEF Inv, ProcOK, ProcessRecord
<1> HIDE DEF s, rest
<1>3. s.kind = "mssp"
  BY <1>1 DEF PutFits, s
<1>4. Left("mssp", proc[p].todo) = {s} \cup Left("mssp", rest)
  BY <1>2, <1>3 DEF Left, OfKind
<1>5. \A t \in Left("mssp", rest) :
        /\ t.put \in MsspAfter(s.put)
        /\ s.put = "insert" /\ t.put = "names" => s.val = t.val
  BY <1>1, <1>3 DEF Precedes
<1> QED
  BY <1>3, <1>4, <1>5 DEF s, rest

LEMMA LastMsspKeeps ==
    ASSUME Inv, Keeping, NEW p \in Process, UpdateLastMssp(p)
    PROVE  Keeping'
<1> DEFINE s == Head(proc[p].todo)
           R == Left("mssp", Tail(proc[p].todo))
           W == Left("mssp", proc[p].todo)
<1>1. /\ proc[p].todo # <<>> /\ s.put = "lastMssp" /\ Done(p, FALSE)
      /\ UNCHANGED <<conn, setting, truth>> /\ age' = Renew({"lastMssp"}) /\ db' = db
  BY DEF UpdateLastMssp, NextIs, Writes
<1>2. \A t \in {"lastMssp", "updated", "created", "since", "differed", "answered"} :
        age'[t] = IF t = "lastMssp" THEN 0 ELSE age[t]
  BY <1>1, OthersAge
<1>3. /\ s.kind = "mssp" /\ W = {s} \cup R
      /\ \A t \in R : t.put \in {"updated", "names"}
  BY <1>1, MsspLeft DEF MsspPut, MsspAfter
<1>4. R # {}
  BY <1>1, FirstStatement DEF Has
<1>5. ASSUME CleanIn(proc[p], "mssp")
      PROVE  MsspOnTheWay(R, db', age', truth.what, disturbed)
  <2>1. MsspOnTheWay(W, db, age, truth.what, disturbed)
    BY <1>5 DEF Keeping, KeptMssp
  <2> HIDE DEF W, R, s
  <2>2. ~Has(W, "insert") /\ ~Has(R, "insert") /\ (Has(W, "updated") => Has(R, "updated"))
    BY <1>1, <1>3 DEF Has, s
  <2>3. AskedInTime(age') /\ (NewsMarked(age) => NewsMarked(age'))
    BY <1>2, Ages DEF AskedInTime, NewsMarked
  <2> QED
    BY <1>1, <1>3, <2>1, <2>2, <2>3 DEF MsspOnTheWay
<1>6. KeptMssp(proc', db', age', truth.what, disturbed')
  <2> HIDE DEF R, W
  <2>1. Alone(proc, disturbed)
    BY DEF Keeping
  <2>2. /\ CleanIn(proc[p], "mssp") /\ Left("mssp", Tail(proc[p].todo)) # {}
             => MsspOnTheWay(Left("mssp", Tail(proc[p].todo)), db', age', truth.what, disturbed)
        /\ Left("mssp", Tail(proc[p].todo)) # {}
    BY <1>4, <1>5 DEF R
  <2> QED
    BY <1>1, <1>3, <2>1, <2>2, MsspWritten
<1> QED
  BY <1>1, <1>2, <1>3, <1>6, StatementKeeps

LEMMA GameUpdatedKeeps ==
    ASSUME Inv, Keeping, NEW p \in Process, UpdateGameUpdated(p)
    PROVE  Keeping'
<1> DEFINE s == Head(proc[p].todo)
           R == Left("mssp", Tail(proc[p].todo))
           W == Left("mssp", proc[p].todo)
<1>1. /\ proc[p].todo # <<>> /\ s.put = "updated" /\ Done(p, FALSE)
      /\ UNCHANGED <<conn, setting, truth>> /\ age' = Renew({"updated"}) /\ db' = db
  BY DEF UpdateGameUpdated, NextIs, Writes
<1>2. \A t \in {"lastMssp", "updated", "created", "since", "differed", "answered"} :
        age'[t] = IF t = "updated" THEN 0 ELSE age[t]
  BY <1>1, OthersAge
<1>3. /\ s.kind = "mssp" /\ W = {s} \cup R
      /\ \A t \in R : t.put = "names"
  BY <1>1, MsspLeft DEF MsspPut, MsspAfter
<1>4. R # {}
  BY <1>1, FirstStatement DEF Has
<1>5. ASSUME CleanIn(proc[p], "mssp")
      PROVE  MsspOnTheWay(R, db', age', truth.what, disturbed)
  <2>1. MsspOnTheWay(W, db, age, truth.what, disturbed)
    BY <1>5 DEF Keeping, KeptMssp
  <2> HIDE DEF W, R, s
  <2>2. ~Has(W, "insert") /\ ~Has(R, "insert") /\ ~Has(W, "lastMssp")
    BY <1>1, <1>3 DEF Has, s
  <2>3. truth.what # NULL /\ AskedInTime(age)
    BY <2>1, <2>2 DEF MsspOnTheWay
  <2>4. age["differed"] # NULL
    BY <2>3 DEF Keeping, Reported
  <2>5. AskedInTime(age') /\ NewsMarked(age')
    BY <1>2, <2>3, <2>4, Ages DEF AskedInTime, NewsMarked
  <2> QED
    BY <1>1, <1>3, <2>1, <2>2, <2>5 DEF MsspOnTheWay
<1>6. KeptMssp(proc', db', age', truth.what, disturbed')
  <2> HIDE DEF R, W
  <2>1. Alone(proc, disturbed)
    BY DEF Keeping
  <2>2. /\ CleanIn(proc[p], "mssp") /\ Left("mssp", Tail(proc[p].todo)) # {}
             => MsspOnTheWay(Left("mssp", Tail(proc[p].todo)), db', age', truth.what, disturbed)
        /\ Left("mssp", Tail(proc[p].todo)) # {}
    BY <1>4, <1>5 DEF R
  <2> QED
    BY <1>1, <1>3, <2>1, <2>2, MsspWritten
<1> QED
  BY <1>1, <1>2, <1>3, <1>6, StatementKeeps

\* With the names the report is complete.
LEMMA NamesKeeps ==
    ASSUME Inv, Keeping, NEW p \in Process, UpdateNames(p)
    PROVE  Keeping'
<1> DEFINE s == Head(proc[p].todo)
           R == Left("mssp", Tail(proc[p].todo))
           W == Left("mssp", proc[p].todo)
           heals == Younger("updated", age["differed"] + 1)
<1>1. /\ proc[p].todo # <<>> /\ s.put = "names" /\ Done(p, heals)
      /\ UNCHANGED <<conn, setting, truth>> /\ age' = Renew({})
      /\ db' = [db EXCEPT !.name = s.val]
  BY DEF UpdateNames, NextIs, Writes, Val
<1>2. \A t \in {"lastMssp", "updated", "created", "since", "differed", "answered"} :
        age'[t] = age[t]
  BY <1>1, OthersAge
<1>3. s.kind = "mssp" /\ W = {s} \cup R /\ R = {}
  BY <1>1, MsspLeft DEF MsspPut, MsspAfter
<1>4. /\ db'.newest = db.newest /\ db'.name = s.val /\ db'.telopts = db.telopts
      /\ db'.status = db.status /\ db'.greeted = db.greeted
  BY <1>1 DEF Inv, TypeOK, Database
<1>5. ASSUME CleanIn(proc[p], "mssp"), heals \/ "mssp" \notin disturbed
      PROVE  MsspSound(db', age', truth.what)
  <2>1. MsspOnTheWay(W, db, age, truth.what, disturbed)
    BY <1>5 DEF Keeping, KeptMssp
  <2> HIDE DEF W, R, s
  <2>2. ~Has(W, "insert") /\ ~Has(W, "lastMssp") /\ ~Has(W, "updated") /\ s \in W
    BY <1>1, <1>3 DEF Has, s
  <2>3. /\ truth.what # NULL /\ AskedInTime(age) /\ db.newest = {truth.what}
        /\ s.val = truth.what
        /\ NewsMarked(age) \/ "mssp" \in disturbed
    BY <1>1, <2>1, <2>2 DEF MsspOnTheWay, s
  <2>4. age["differed"] # NULL
    BY <2>3 DEF Keeping, Reported
  <2>5. heals => NewsMarked(age)
    BY <2>4, Ages DEF Younger, Never, NewsMarked
  <2>6. NewsMarked(age)
    BY <1>5, <2>3, <2>5
  <2> QED
    BY <1>2, <1>4, <2>3, <2>6 DEF MsspSound, AskedInTime, NewsMarked
<1>6. KeptMssp(proc', db', age', truth.what, disturbed')
  <2> HIDE DEF R, W, heals
  <2>1. Alone(proc, disturbed)
    BY DEF Keeping
  <2>2. /\ CleanIn(proc[p], "mssp") /\ Left("mssp", Tail(proc[p].todo)) = {}
           /\ (heals \/ "mssp" \notin disturbed)
             => MsspSound(db', age', truth.what)
        /\ Left("mssp", Tail(proc[p].todo)) = {}
    BY <1>3, <1>5 DEF R
  <2> QED
    BY <1>1, <1>3, <2>1, <2>2, MsspWritten
<1> HIDE DEF heals
<1> QED
  BY <1>1, <1>2, <1>3, <1>4, <1>6, StatementKeeps

LEMMA TeloptsLeft ==
    ASSUME Inv, Keeping, NEW p \in Process, proc[p].todo # <<>>,
           Head(proc[p].todo).put \in {"clear", "telopt"}
    PROVE  LET s == Head(proc[p].todo)
               R == Left("telopts", Tail(proc[p].todo))
           IN  /\ s.kind = "telopts"
               /\ Left("telopts", proc[p].todo) = {s} \cup R
               /\ \A t \in R : t.put = "telopt" /\ (s.put = "telopt" => t.val # s.val)
<1> DEFINE s == Head(proc[p].todo)
           rest == Tail(proc[p].todo)
<1>1. PutFits(s) /\ \A t \in Left("telopts", rest) : PutFits(t) /\ Precedes(s, t)
  BY FirstStatement DEF Record
<1>2. InTodo(proc[p].todo) = {s} \cup InTodo(rest)
  BY RestOfTodo DEF Inv, ProcOK, ProcessRecord
<1>3. \A t \in Left("telopts", rest) : t.kind = "telopts"
  BY DEF Left, OfKind
<1> HIDE DEF s, rest
<1>4. s.kind = "telopts"
  BY <1>1 DEF PutFits, s
<1>5. Left("telopts", proc[p].todo) = {s} \cup Left("telopts", rest)
  BY <1>2, <1>4 DEF Left, OfKind
<1>6. \A t \in Left("telopts", rest) :
        t.put = "telopt" /\ (s.put = "telopt" => t.val # s.val)
  BY <1>1, <1>3 DEF Precedes, PutFits
<1> QED
  BY <1>4, <1>5, <1>6 DEF s, rest

LEMMA ClearTeloptsKeeps ==
    ASSUME Inv, Keeping, NEW p \in Process, ClearTelopts(p)
    PROVE  Keeping'
<1> DEFINE s == Head(proc[p].todo)
           R == Left("telopts", Tail(proc[p].todo))
           W == Left("telopts", proc[p].todo)
           none == [o \in Option |-> 0]
<1>1. /\ proc[p].todo # <<>> /\ s.put = "clear" /\ Done(p, TRUE)
      /\ UNCHANGED <<conn, setting, truth>> /\ age' = Renew({})
      /\ db' = [db EXCEPT !.telopts = none]
  BY DEF ClearTelopts, NextIs, Writes
<1>2. \A t \in {"lastMssp", "updated", "created", "since", "differed", "answered"} :
        age'[t] = age[t]
  BY <1>1, OthersAge
<1>3. s.kind = "telopts" /\ W = {s} \cup R /\ \A t \in R : t.put = "telopt"
  BY <1>1, TeloptsLeft
<1>4. /\ db'.newest = db.newest /\ db'.name = db.name /\ db'.telopts = none
      /\ db'.status = db.status /\ db'.greeted = db.greeted
  BY <1>1 DEF Inv, TypeOK, Database
<1>5. ASSUME CleanIn(proc[p], "telopts")
      PROVE  Pending(R) = truth.opts
  <2>1. TeloptsOnTheWay(W, db, truth.opts)
    BY <1>5 DEF Keeping, KeptTelopts
  <2> HIDE DEF W, R, s
  <2>2. Has(W, "clear") /\ Pending(W) = Pending(R)
    BY <1>1, <1>3 DEF Has, Pending, s
  <2> QED
    BY <2>1, <2>2 DEF TeloptsOnTheWay
<1>6. CleanIn(proc[p], "telopts") => TeloptsOnTheWay(R, db', truth.opts)
  <2> HIDE DEF R
  <2>1. ~Has(R, "clear")
    BY <1>3 DEF Has
  <2> QED
    BY <1>4, <1>5, <2>1 DEF TeloptsOnTheWay, RowsOf
<1>7. CleanIn(proc[p], "telopts") /\ R = {} => TeloptsSound(db', truth.opts)
  <2>1. R = {} => Pending(R) = {}
    BY DEF Pending
  <2> HIDE DEF R
  <2> QED
    BY <1>4, <1>5, <2>1 DEF TeloptsSound, RowsOf
<1>8. KeptTelopts(proc', db', truth.opts, disturbed')
  <2>1. Alone(proc, disturbed)
    BY DEF Keeping
  <2> HIDE DEF R
  <2>2. /\ CleanIn(proc[p], "telopts") /\ Left("telopts", Tail(proc[p].todo)) # {}
             => TeloptsOnTheWay(Left("telopts", Tail(proc[p].todo)), db', truth.opts)
        /\ CleanIn(proc[p], "telopts") /\ Left("telopts", Tail(proc[p].todo)) = {}
             => TeloptsSound(db', truth.opts)
    BY <1>6, <1>7 DEF R
  <2> QED
    BY <1>1, <1>3, <2>1, <2>2, TeloptsWritten
<1> QED
  BY <1>1, <1>2, <1>3, <1>4, <1>8, StatementKeeps

LEMMA UpdateTeloptKeeps ==
    ASSUME Inv, Keeping, NEW p \in Process, UpdateTelopt(p)
    PROVE  Keeping'
<1> DEFINE s == Head(proc[p].todo)
           R == Left("telopts", Tail(proc[p].todo))
           W == Left("telopts", proc[p].todo)
           v == s.val
           more == [db.telopts EXCEPT ![v] = IF @ < Many THEN @ + 1 ELSE @]
<1>1. /\ proc[p].todo # <<>> /\ s.put = "telopt" /\ Done(p, TRUE)
      /\ UNCHANGED <<conn, setting, truth>> /\ age' = Renew({})
  BY DEF UpdateTelopt, NextIs, Writes
<1>2. \A t \in {"lastMssp", "updated", "created", "since", "differed", "answered"} :
        age'[t] = age[t]
  BY <1>1, OthersAge
<1>3. /\ s.kind = "telopts" /\ W = {s} \cup R
      /\ \A t \in R : t.put = "telopt" /\ t.val # v
  BY <1>1, TeloptsLeft
<1>4. /\ db'.newest = db.newest /\ db'.name = db.name /\ db'.telopts = more
      /\ db'.status = db.status /\ db'.greeted = db.greeted
  BY DEF UpdateTelopt, NextIs, Writes, Val, Inv, TypeOK, Database
<1>5. v \in Option
  <2>1. s.put \notin FilePut
    BY <1>1 DEF FilePut
  <2>2. Fits(s)
    BY <1>1, <2>1, ValueTyped
  <2> QED
    BY <1>1, <2>2 DEF Fits
<1>6. ASSUME CleanIn(proc[p], "telopts")
      PROVE  Pending(R) \subseteq truth.opts /\ more = RowsOf(truth.opts \ Pending(R))
  <2>1. TeloptsOnTheWay(W, db, truth.opts)
    BY <1>6 DEF Keeping, KeptTelopts
  <2> HIDE DEF W, R, s, v, more
  <2>2. ~Has(W, "clear")
    BY <1>1, <1>3 DEF Has
  <2>3. Pending(W) = {v} \cup Pending(R) /\ v \notin Pending(R)
    BY <1>1, <1>3 DEF Pending, v
  <2>4. db.telopts = RowsOf(truth.opts \ Pending(W)) /\ Pending(W) \subseteq truth.opts
    BY <2>1, <2>2 DEF TeloptsOnTheWay
  <2>5. db.telopts[v] = 0
    BY <1>5, <2>3, <2>4 DEF RowsOf
  <2>6. 0 < Many /\ 0 + 1 = 1
    BY BoundsAssumption
  <2>7. more = [db.telopts EXCEPT ![v] = 1]
    BY <2>5, <2>6 DEF more
  <2>8. more = RowsOf(truth.opts \ Pending(R))
    BY <1>5, <2>3, <2>4, <2>7 DEF RowsOf
  <2> QED
    BY <2>3, <2>4, <2>8
<1>7. CleanIn(proc[p], "telopts") => TeloptsOnTheWay(R, db', truth.opts)
  <2> HIDE DEF R, more
  <2>1. ~Has(R, "clear")
    BY <1>3 DEF Has
  <2> QED
    BY <1>4, <1>6, <2>1 DEF TeloptsOnTheWay
<1>8. CleanIn(proc[p], "telopts") /\ R = {} => TeloptsSound(db', truth.opts)
  <2>1. R = {} => truth.opts \ Pending(R) = truth.opts
    BY DEF Pending
  <2> HIDE DEF R, more
  <2> QED
    BY <1>4, <1>6, <2>1 DEF TeloptsSound
<1>9. KeptTelopts(proc', db', truth.opts, disturbed')
  <2>1. Alone(proc, disturbed)
    BY DEF Keeping
  <2> HIDE DEF R, more
  <2>2. /\ CleanIn(proc[p], "telopts") /\ Left("telopts", Tail(proc[p].todo)) # {}
             => TeloptsOnTheWay(Left("telopts", Tail(proc[p].todo)), db', truth.opts)
        /\ CleanIn(proc[p], "telopts") /\ Left("telopts", Tail(proc[p].todo)) = {}
             => TeloptsSound(db', truth.opts)
    BY <1>7, <1>8 DEF R
  <2> QED
    BY <1>1, <1>3, <2>1, <2>2, TeloptsWritten
<1> HIDE DEF more
<1> QED
  BY <1>1, <1>2, <1>3, <1>4, <1>9, StatementKeeps

LEMMA ScanLeft ==
    ASSUME Inv, Keeping, NEW p \in Process, proc[p].todo # <<>>,
           Rewrites(Head(proc[p].todo)) \/ Head(proc[p].todo).put = "greeting"
    PROVE  LET s == Head(proc[p].todo)
               R == Left("scan", Tail(proc[p].todo))
           IN  /\ s.kind = "scan"
               /\ Left("scan", proc[p].todo) = {s} \cup R
               /\ \A t \in R : t.put = "greeting"
               /\ R # {} <=> Rewrites(s) /\ s.val = "APPROVED"
<1> DEFINE s == Head(proc[p].todo)
           rest == Tail(proc[p].todo)
<1>1. /\ PutFits(s) /\ \A t \in Left("scan", rest) : PutFits(t) /\ Precedes(s, t)
      /\ Rewrites(s) /\ s.val = "APPROVED" => Left("scan", rest) # {}
  BY FirstStatement DEF Record, Has
<1>2. InTodo(proc[p].todo) = {s} \cup InTodo(rest)
  BY RestOfTodo DEF Inv, ProcOK, ProcessRecord
<1> HIDE DEF s, rest
<1>3. s.kind = "scan"
  BY <1>1 DEF PutFits, s
<1>4. Left("scan", proc[p].todo) = {s} \cup Left("scan", rest)
  BY <1>2, <1>3 DEF Left, OfKind
<1>5. \A t \in Left("scan", rest) : t.put = "greeting" /\ Rewrites(s) /\ s.val = "APPROVED"
  BY <1>1, <1>3 DEF Precedes
<1> QED
  BY <1>1, <1>3, <1>4, <1>5 DEF s, rest

\* A scan's end that does not change what is said of the time: it goes on.
LEMMA StatusKeeps ==
    ASSUME Inv, Keeping, NEW p \in Process, UpsertStatus(p) \/ UpsertStatusSince(p)
    PROVE  Keeping'
<1> DEFINE s == Head(proc[p].todo)
           R == Left("scan", Tail(proc[p].todo))
           W == Left("scan", proc[p].todo)
           heals == s.put = "since"
           stamps == IF heals THEN {"lastscan", "since"} ELSE {"lastscan"}
<1>1. /\ proc[p].todo # <<>> /\ s.put \in {"status", "since"} /\ Done(p, heals)
      /\ UNCHANGED <<conn, setting, truth>>
      /\ age' = Renew(stamps) /\ db' = [db EXCEPT !.status = s.val]
  <2>1. CASE UpsertStatus(p)
    <3>1. s.put = "status" /\ heals = FALSE /\ stamps = {"lastscan"}
      BY <2>1 DEF UpsertStatus, NextIs
    <3> HIDE DEF heals, stamps
    <3> QED
      BY <2>1, <3>1 DEF UpsertStatus, NextIs, Writes, Val
  <2>2. CASE UpsertStatusSince(p)
    <3>1. s.put = "since" /\ heals = TRUE /\ stamps = {"lastscan", "since"}
      BY <2>2 DEF UpsertStatusSince, NextIs
    <3> HIDE DEF heals, stamps
    <3> QED
      BY <2>2, <3>1 DEF UpsertStatusSince, NextIs, Writes, Val
  <2> QED
    BY <2>1, <2>2
<1>2. \A t \in {"lastMssp", "updated", "created", "since", "differed", "answered"} :
        age'[t] = IF t = "since" /\ heals THEN 0 ELSE age[t]
  BY <1>1, OthersAge
<1>3. /\ s.kind = "scan" /\ W = {s} \cup R
      /\ \A t \in R : t.put = "greeting"
      /\ R # {} <=> s.val = "APPROVED"
  BY <1>1, ScanLeft DEF Rewrites
<1>4. /\ db'.newest = db.newest /\ db'.name = db.name /\ db'.telopts = db.telopts
      /\ db'.status = s.val /\ db'.greeted = db.greeted
  BY <1>1 DEF Inv, TypeOK, Database
<1>5. R # {} => ScanOnTheWay(R, db', age', conn, disturbed)
  <2> HIDE DEF R, s
  <2> QED
    BY <1>3, <1>4 DEF ScanOnTheWay, Has
<1>6. ASSUME CleanIn(proc[p], "scan"), R = {}, heals \/ "scan" \notin disturbed
      PROVE  ScanSound(db', age', conn)
  <2>1. ScanOnTheWay(W, db, age, conn, disturbed)
    BY <1>6 DEF Keeping, KeptScan
  <2>2. CASE heals
    <3>1. age'["since"] = 0 /\ (age'["answered"] = NULL \/ age'["answered"] \in Nat)
      BY <1>2, <2>2, Ages
    <3>2. db'.status # "APPROVED"
      BY <1>3, <1>4, <1>6
    <3> QED
      BY <3>1, <3>2 DEF ScanSound, StatusSound
  <2>3. CASE ~heals
    <3>1. s \in W /\ s.put = "status" /\ s.val # "APPROVED"
      BY <1>1, <1>3, <1>6, <2>3
    <3> HIDE DEF W, s
    <3>2. db.status = s.val /\ ScanSound(db, age, conn)
      BY <1>6, <2>1, <2>3, <3>1 DEF ScanOnTheWay
    <3>3. age'["since"] = age["since"] /\ age'["answered"] = age["answered"]
      BY <1>2, <2>3
    <3> QED
      BY <1>4, <3>2, <3>3 DEF ScanSound, StatusSound
  <2> QED
    BY <2>2, <2>3
<1>7. KeptScan(proc', db', age', conn, disturbed')
  <2>1. Alone(proc, disturbed)
    BY DEF Keeping
  <2> HIDE DEF R, heals
  <2>2. CleanIn(proc[p], "scan") /\ Left("scan", Tail(proc[p].todo)) # {}
          => ScanOnTheWay(Left("scan", Tail(proc[p].todo)), db', age', conn, disturbed)
    BY <1>5 DEF R
  <2>3. CleanIn(proc[p], "scan") /\ Left("scan", Tail(proc[p].todo)) = {}
        /\ (heals \/ "scan" \notin disturbed) => ScanSound(db', age', conn)
    BY <1>6 DEF R
  <2> QED
    BY <1>1, <1>3, <2>1, <2>2, <2>3, ScanWritten
<1> HIDE DEF heals
<1> QED
  BY <1>1, <1>2, <1>3, <1>4, <1>7, StatementKeeps

LEMMA GreetingKeeps ==
    ASSUME Inv, Keeping, NEW p \in Process, UpsertGreeting(p)
    PROVE  Keeping'
<1> DEFINE s == Head(proc[p].todo)
           R == Left("scan", Tail(proc[p].todo))
           W == Left("scan", proc[p].todo)
<1>1. /\ proc[p].todo # <<>> /\ s.put = "greeting" /\ Done(p, TRUE)
      /\ UNCHANGED <<conn, setting, truth>> /\ age' = Renew({})
      /\ db' = [db EXCEPT !.greeted = TRUE]
  BY DEF UpsertGreeting, NextIs, Writes
<1>2. \A t \in {"lastMssp", "updated", "created", "since", "differed", "answered"} :
        age'[t] = age[t]
  BY <1>1, OthersAge
<1>3. s.kind = "scan" /\ W = {s} \cup R /\ R = {}
  BY <1>1, ScanLeft DEF Rewrites
<1>4. /\ db'.newest = db.newest /\ db'.name = db.name /\ db'.telopts = db.telopts
      /\ db'.status = db.status /\ db'.greeted
  BY <1>1 DEF Inv, TypeOK, Database
<1>5. ASSUME CleanIn(proc[p], "scan")
      PROVE  ScanSound(db', age', conn)
  <2>1. ScanOnTheWay(W, db, age, conn, disturbed)
    BY <1>5 DEF Keeping, KeptScan
  <2> HIDE DEF W, R, s
  <2>2. ~Has(W, "status") /\ ~Has(W, "since")
    BY <1>1, <1>3 DEF Has, s
  <2>3. db.status = "APPROVED"
    BY <2>1, <2>2 DEF ScanOnTheWay
  <2> QED
    BY <1>4, <2>3 DEF ScanSound, StatusSound
<1>6. KeptScan(proc', db', age', conn, disturbed')
  <2>1. Alone(proc, disturbed)
    BY DEF Keeping
  <2> HIDE DEF R
  <2>2. Left("scan", Tail(proc[p].todo)) = {}
    BY <1>3 DEF R
  <2> QED
    BY <1>1, <1>3, <1>5, <2>1, <2>2, ScanWritten
<1> QED
  BY <1>1, <1>2, <1>3, <1>4, <1>6, StatementKeeps

-----------------------------------------------------------------------------
(* The other statements, and processes that start and end *)

LEMMA InsertMsspKeeps ==
    ASSUME Inv, Keeping, NEW p \in Process, InsertMssp(p)
    PROVE  Keeping'
<1> DEFINE s == Head(proc[p].todo)
           rest == Tail(proc[p].todo)
           R == Left("mssp", rest)
           W == Left("mssp", proc[p].todo)
           v == s.val
           tied == age["created"] = 0
           news == IF v # truth.what THEN {"differed"} ELSE {}
           clean == IF tied THEN proc[p].clean \ {"mssp"} ELSE proc[p].clean
<1>1. /\ proc[p].todo # <<>> /\ s.put = "insert"
      /\ UNCHANGED <<conn, setting>> /\ age' = Renew({"created"} \cup news)
      /\ db' = [db EXCEPT !.newest = (IF tied THEN @ ELSE {}) \cup {v}]
      /\ truth' = [truth EXCEPT !.what = v]
      /\ disturbed' = IF tied THEN disturbed \cup {"mssp"} ELSE disturbed
  BY DEF InsertMssp, NextIs, Writes, Val
<1>2. \A t \in {"lastMssp", "updated", "created", "since", "differed", "answered"} :
        age'[t] = IF t \in {"created"} \cup news THEN 0 ELSE age[t]
  <2> HIDE DEF news
  <2> QED
    BY <1>1, OthersAge
<1>3. /\ s.kind = "mssp" /\ W = {s} \cup R
      /\ \A t \in R : t.put # "insert" /\ (t.put = "names" => t.val = v)
      /\ Has(R, "lastMssp")
  BY <1>1, MsspLeft, FirstStatement DEF MsspPut, MsspAfter
<1>4. v \in Data /\ v # NULL
  <2>1. s.put \notin FilePut
    BY <1>1 DEF FilePut
  <2>2. Fits(s)
    BY <1>1, <2>1, ValueTyped
  <2> QED
    BY <1>1, <2>2, NullAssumption DEF Fits
<1>5. /\ db'.newest = (IF tied THEN db.newest ELSE {}) \cup {v} /\ db'.name = db.name
      /\ db'.telopts = db.telopts /\ db'.status = db.status /\ db'.greeted = db.greeted
      /\ truth'.what = v /\ truth'.opts = truth.opts
  BY <1>1 DEF Inv, TypeOK, Database
<1>6. Advance(p, clean)
  <2>1. proc' = [proc EXCEPT ![p].todo = rest, ![p].clean = clean]
    BY DEF InsertMssp, Inv, ProcOK, ProcessRecord
  <2>2. clean \in SUBSET proc[p].clean
    OBVIOUS
  <2> HIDE DEF clean
  <2> QED
    BY <1>1, <2>1, <2>2 DEF Advance
<1>7. Callbacks(proc', setting'.kinds)
  BY <1>1, <1>6, AdvancedCallbacks DEF Keeping
<1>8. Alone(proc', disturbed')
  <2>1. \A k \in Record : k \in proc[p].clean => k \in clean \/ k \in disturbed'
    BY <1>1
  <2>2. \A k \in Record : k \in disturbed => k \in disturbed'
    BY <1>1
  <2>3. Alone(proc, disturbed)
    BY DEF Keeping
  <2> HIDE DEF clean
  <2> QED
    BY <1>6, <2>1, <2>2, <2>3, AdvancedAlone
<1>9. /\ \A q \in Process \ {p} : ~CleanIn(proc'[q], "mssp")
      /\ proc'[p].todo = rest /\ proc'[p].clean = clean
  BY <1>3, <1>6, AdvancedOwn, Advanced DEF Keeping, Record
<1>10. ASSUME ~tied, CleanIn(proc'[p], "mssp")
       PROVE  MsspOnTheWay(R, db', age', truth'.what, disturbed')
  <2>1. MsspOnTheWay(W, db, age, truth.what, disturbed)
    <3>1. CleanIn(proc[p], "mssp")
      <4>1. s \in W
        BY <1>3
      <4> QED
        BY <1>9, <1>10, <4>1 DEF CleanIn
    <3> QED
      BY <3>1 DEF Keeping, KeptMssp
  <2>2. disturbed' = disturbed /\ db'.newest = {v}
    BY <1>1, <1>5, <1>10
  <2> HIDE DEF R, W, s, v, tied, news
  <2>3. ~Has(R, "insert") /\ Has(W, "insert") /\ s \in W
        /\ (Has(W, "updated") => Has(R, "updated"))
    BY <1>1, <1>3 DEF Has, s
  <2>4. ASSUME "mssp" \notin disturbed
        PROVE  Has(R, "updated") \/ NewsMarked(age')
    <3>1. CASE v # truth.what
      BY <1>1, <2>1, <2>3, <2>4, <3>1 DEF MsspOnTheWay, v, s
    <3>2. CASE v = truth.what
      <4>1. NewsMarked(age)
        BY <1>4, <2>1, <2>3, <2>4, <3>2 DEF MsspOnTheWay, MsspSound
      <4>2. age'["updated"] = age["updated"] /\ age'["differed"] = age["differed"]
        BY <1>2, <3>2 DEF news
      <4> QED
        BY <4>1, <4>2 DEF NewsMarked
    <3> QED
      BY <3>1, <3>2
  <2> QED
    BY <1>3, <1>4, <1>5, <2>2, <2>3, <2>4 DEF MsspOnTheWay
<1>11. KeptMssp(proc', db', age', truth'.what, disturbed')
  <2>1. CASE tied
    <3>1. Broken("mssp", proc', disturbed')
      BY <1>1, <1>9, <2>1 DEF Broken, CleanIn
    <3> QED
      BY <3>1, NothingKept
  <2>2. CASE ~tied
    <3>1. R # {}
      BY <1>3 DEF Has
    <3>2. ~Unwritten(proc', "mssp")
      BY <1>9, <3>1 DEF Unwritten
    <3>3. CleanIn(proc'[p], "mssp")
            => MsspOnTheWay(Left("mssp", proc'[p].todo), db', age', truth'.what, disturbed')
      BY <1>9, <1>10, <2>2
    <3> QED
      BY <1>9, <3>2, <3>3 DEF KeptMssp
  <2> QED
    BY <2>1, <2>2
<1>12. KeptTelopts(proc', db', truth'.opts, disturbed')
  <2>1. Same("telopts", proc, proc')
    BY <1>3, <1>6, AdvancedOther
  <2>2. "telopts" \in disturbed => "telopts" \in disturbed'
    BY <1>1
  <2>3. KeptTelopts(proc', db', truth.opts, disturbed')
    BY <1>5, <2>1, <2>2, TeloptsUntouched DEF Keeping
  <2> QED
    BY <1>5, <2>3
<1>13. KeptScan(proc', db', age', conn', disturbed')
  <2>1. Same("scan", proc, proc')
    BY <1>3, <1>6, AdvancedOther
  <2>2. "scan" \in disturbed => "scan" \in disturbed'
    BY <1>1
  <2>3. age'["since"] = age["since"] /\ age'["answered"] = age["answered"]
    BY <1>2
  <2>4. KeptScan(proc', db', age', conn, disturbed')
    BY <1>5, <2>1, <2>2, <2>3, ScanUntouched DEF Keeping
  <2> QED
    BY <1>1, <2>4
<1>14. Reported(db', age', truth'.what)
  <2>1. age'["differed"] # NULL
    <3>1. CASE v # truth.what
      BY <1>2, <3>1, Ages
    <3>2. CASE v = truth.what
      BY <1>2, <1>4, <3>2, Ages DEF Keeping, Reported
    <3> QED
      BY <3>1, <3>2
  <2> QED
    BY <1>4, <1>5, <2>1 DEF Reported
<1>15. Unfollowed(db', age', setting'.kinds)
  <2>1. "mssp" \in setting.kinds
    BY <1>3 DEF Keeping, Callbacks, Record
  <2> QED
    BY <1>1, <1>5, <2>1 DEF Keeping, Unfollowed
<1>16. Known(conn')
  BY <1>1 DEF Keeping, Known
<1> QED
  BY <1>7, <1>8, <1>11, <1>12, <1>13, <1>14, <1>15, <1>16 DEF Keeping

\* A step in which no statement is executed.
LEMMA ProcessesOnly ==
    ASSUME Keeping, UNCHANGED <<db, age, setting, truth>>,
           Callbacks(proc', setting'.kinds), Alone(proc', disturbed'),
           disturbed \subseteq disturbed',
           \A k \in Record : Same(k, proc, proc') \/ Broken(k, proc', disturbed'),
           (Answered(conn) => Answered(conn')) \/ "scan" \in disturbed',
           Known(conn')
    PROVE  Keeping'
<1>1. KeptMssp(proc', db, age, truth.what, disturbed')
  <2>1. CASE Same("mssp", proc, proc')
    BY <2>1, MsspUntouched DEF Keeping
  <2>2. CASE Broken("mssp", proc', disturbed')
    BY <2>2, NothingKept
  <2> QED
    BY <2>1, <2>2 DEF Record
<1>2. KeptTelopts(proc', db, truth.opts, disturbed')
  <2>1. CASE Same("telopts", proc, proc')
    BY <2>1, TeloptsUntouched DEF Keeping
  <2>2. CASE Broken("telopts", proc', disturbed')
    BY <2>2, NothingKept
  <2> QED
    BY <2>1, <2>2 DEF Record
<1>3. KeptScan(proc', db, age, conn', disturbed')
  <2>1. CASE Same("scan", proc, proc')
    <3>1. KeptScan(proc, db, age, conn, disturbed)
      BY DEF Keeping
    <3> QED
      BY <2>1, <3>1, ScanUntouched
  <2>2. CASE Broken("scan", proc', disturbed')
    BY <2>2, NothingKept
  <2> QED
    BY <2>1, <2>2 DEF Record
<1> QED
  BY <1>1, <1>2, <1>3 DEF Keeping, Reported, Unfollowed

LEMMA FailStatementKeeps ==
    ASSUME Inv, Keeping, NEW p \in Process, FailStatement(p)
    PROVE  Keeping'
<1> DEFINE s == Head(proc[p].todo)
           ends == s.kind = "mssp" \/ s.put \in {"create", "tables", "home"}
           clean == proc[p].clean \ {s.kind}
<1>1. /\ proc[p].todo # <<>> /\ UNCHANGED <<db, age, conn, setting, truth>>
      /\ proc' = [proc EXCEPT
               ![p] = IF s.put \in {"create", "tables"} THEN Off
                      ELSE [proc[p] EXCEPT
                              !.todo = IF ends THEN <<>> ELSE Tail(proc[p].todo),
                              !.clean = clean]]
      /\ disturbed' = disturbed \cup ({s.kind} \ {"file"})
  BY DEF FailStatement, Inv, ProcOK, ProcessRecord
<1>2. /\ PutFits(s) /\ s.kind \in Kind
      /\ \A k \in Record : \A t \in Left(k, Tail(proc[p].todo)) : Precedes(s, t)
  BY <1>1, FirstStatement, NextStatement DEF Inv, Statement
<1>3. InTodo(proc[p].todo) = {s} \cup InTodo(Tail(proc[p].todo))
  BY <1>1, RestOfTodo DEF Inv, ProcOK, ProcessRecord
<1>4. Answered(conn) => Answered(conn')
  BY <1>1
<1>5. Known(conn') /\ disturbed \subseteq disturbed'
  BY <1>1 DEF Keeping
<1>6. CASE ends
  <2> DEFINE r == IF s.put \in {"create", "tables"} THEN Off
                  ELSE [proc[p] EXCEPT !.todo = <<>>, !.clean = clean]
  <2>1. proc' = [proc EXCEPT ![p] = r] /\ r.todo = <<>>
    BY <1>1, <1>6 DEF Off, Inv, ProcOK, ProcessRecord
  <2>2. ASSUME NEW k \in Record, Left(k, proc[p].todo) # {}
        PROVE  k \in disturbed'
    <3> HIDE DEF s
    <3>1. k = s.kind
      <4>1. s.kind = "mssp" \/ s.kind = "file"
        BY <1>2, <1>6 DEF PutFits, Kind, MsspPut, Rewrites
      <4>2. \A t \in Left(k, Tail(proc[p].todo)) : t.kind = k /\ t.kind = s.kind
        BY <1>2, <4>1 DEF Precedes, Record, Left, OfKind
      <4> QED
        BY <1>3, <2>2, <4>2 DEF Left, OfKind
    <3> QED
      BY <1>1, <3>1 DEF Record, s
  <2> HIDE DEF r
  <2>3. Drop(p, r)
    BY <1>5, <2>1, <2>2 DEF Drop
  <2>4. Callbacks(proc', setting'.kinds) /\ Alone(proc', disturbed')
    BY <1>1, <2>3, DropCallbacks, DropAlone DEF Keeping
  <2>5. \A k \in Record : Same(k, proc, proc') \/ Broken(k, proc', disturbed')
    BY <2>3, DropKind DEF Keeping
  <2> QED
    BY <1>1, <1>4, <1>5, <2>4, <2>5, ProcessesOnly
<1>7. CASE ~ends
  <2>1. Advance(p, clean)
    <3>1. proc' = [proc EXCEPT ![p].todo = Tail(proc[p].todo), ![p].clean = clean]
      BY <1>1, <1>7 DEF Inv, ProcOK, ProcessRecord
    <3>2. clean \in SUBSET proc[p].clean
      OBVIOUS
    <3> HIDE DEF clean
    <3> QED
      BY <1>1, <3>1, <3>2 DEF Advance
  <2>2. Alone(proc', disturbed')
    <3>1. \A k \in Record : k \in proc[p].clean => k \in clean \/ k \in disturbed'
      BY <1>1 DEF Record
    <3>2. \A k \in Record : k \in disturbed => k \in disturbed'
      BY <1>1
    <3>3. Alone(proc, disturbed)
      BY DEF Keeping
    <3> HIDE DEF clean
    <3> QED
      BY <2>1, <3>1, <3>2, <3>3, AdvancedAlone
  <2>3. ASSUME NEW k \in Record
        PROVE  Same(k, proc, proc') \/ Broken(k, proc', disturbed')
    <3>1. CASE k # s.kind
      BY <2>1, <3>1, AdvancedOther
    <3>2. CASE k = s.kind
      <4>1. \A q \in Process \ {p} : ~CleanIn(proc'[q], k)
        BY <2>1, <3>2, AdvancedOwn DEF Keeping
      <4>2. proc'[p].clean = clean
        BY <2>1, Advanced
      <4>3. k \notin clean /\ k \in disturbed'
        BY <1>1, <3>2 DEF Record
      <4> QED
        BY <4>1, <4>2, <4>3 DEF Broken, CleanIn
    <3> QED
      BY <3>1, <3>2
  <2>4. Callbacks(proc', setting'.kinds)
    BY <1>1, <2>1, AdvancedCallbacks DEF Keeping
  <2> QED
    BY <1>1, <1>4, <1>5, <2>2, <2>3, <2>4, ProcessesOnly
<1> QED
  BY <1>6, <1>7

LEMMA SqlStepKeeps ==
    ASSUME Inv, Keeping, NEW p \in Process, SqlStep(p)
    PROVE  Keeping'
  BY CreationKeeps, InsertMsspKeeps, LastMsspKeeps, GameUpdatedKeeps, NamesKeeps,
     ClearTeloptsKeeps, UpdateTeloptKeeps, StatusKeeps, GreetingKeeps, FailStatementKeeps
     DEF SqlStep

LEMMA CreationLeft == Shaped(Creation) /\ \A k \in Record : Left(k, Creation) = {}
<1> DEFINE c == Creation
<1>1. /\ DOMAIN c = 1..4
      /\ \A i \in 1..4 : c[i].kind = "file" /\ c[i].put \in FilePut
  BY DEF Creation, Sql, FilePut
<1> HIDE DEF c
<1>2. \A i \in DOMAIN c : /\ c[i].kind \notin Record
                          /\ PutFits(c[i]) /\ Followers(c[i]) = {}
                          /\ \A j \in DOMAIN c : Precedes(c[i], c[j])
  BY <1>1 DEF PutFits, Precedes, Followers, Rewrites, MsspPut, FilePut, Record
<1> QED
  BY <1>2 DEF Shaped, Left, OfKind, InTodo, c

LEMMA StartKeeps ==
    ASSUME Inv, Keeping, NEW p \in Process, Start(p)
    PROVE  Keeping'
<1> DEFINE P == [proc EXCEPT ![p].run = "starting"]
           work == IF db.exists THEN <<>> ELSE Creation
<1>1. /\ proc \in [Process -> ProcessRecord] /\ proc[p].run = "off" /\ proc[p].todo = <<>>
      /\ BeginSpoilt(P, p, work, {}) /\ UNCHANGED <<db, age, conn, setting, truth>>
  BY DEF Inv, ProcOK, Start, Keeping, Callbacks
<1>2. /\ P \in [Process -> ProcessRecord] /\ P[p].run = "starting"
      /\ \A q \in Process : P[q].todo = proc[q].todo /\ P[q].clean = proc[q].clean
      /\ \A q \in Process \ {p} : P[q] = proc[q]
  BY <1>1 DEF ProcessRecord
<1>3. Shaped(work) /\ \A k \in Record : Left(k, work) = {}
  BY CreationLeft, EmptyTodo
<1>4. disturbed \subseteq disturbed'
  BY <1>1 DEF BeginSpoilt
<1> HIDE DEF P, work
<1>5. Callbacks(P, setting.kinds)
  BY <1>1, <1>2 DEF Keeping, Callbacks
<1>6. Callbacks(proc', setting'.kinds)
  BY <1>1, <1>2, <1>3, <1>5, BegunCallbacks
<1>7. Alone(P, disturbed) /\ P[p].todo = <<>>
  BY <1>1, <1>2, SameAlone DEF Keeping
<1>8. Alone(proc', disturbed')
  BY <1>1, <1>2, <1>7, BegunAlone
<1>9. ASSUME NEW k \in Record
      PROVE  Same(k, proc, proc')
  <2>1. Same(k, P, proc')
    BY <1>1, <1>2, <1>3, <1>7, BegunOther
  <2> QED
    BY <1>2, <2>1 DEF Same, CleanIn
<1>10. Known(conn') /\ (Answered(conn) => Answered(conn'))
  BY <1>1 DEF Keeping, Known
<1> QED
  BY <1>1, <1>4, <1>6, <1>8, <1>9, <1>10, ProcessesOnly

LEMMA OffKeeps ==
    ASSUME Inv, Keeping, NEW p \in Process, proc' = [proc EXCEPT ![p] = Off],
           UNCHANGED <<db, age, setting, truth>>, disturbed \subseteq disturbed',
           \A k \in Record : Left(k, proc[p].todo) # {} => k \in disturbed',
           (Answered(conn) => Answered(conn')) \/ "scan" \in disturbed',
           Known(conn')
    PROVE  Keeping'
<1>1. Drop(p, Off)
  BY DEF Drop, Off
<1>2. Callbacks(proc', setting'.kinds) /\ Alone(proc', disturbed')
  BY <1>1, DropCallbacks, DropAlone DEF Keeping
<1>3. \A k \in Record : Same(k, proc, proc') \/ Broken(k, proc', disturbed')
  BY <1>1, DropKind DEF Keeping
<1> QED
  BY <1>2, <1>3, ProcessesOnly

\* Nothing that a process has to do changes.
LEMMA QuietKeeps ==
    ASSUME Inv, Keeping, UNCHANGED <<db, age, setting, truth, disturbed>>,
           \A q \in Process : /\ proc'[q].todo = proc[q].todo
                              /\ proc'[q].clean = proc[q].clean
                              /\ proc'[q].run = "off" => proc[q].run = "off",
           Answered(conn) => Answered(conn'), Known(conn')
    PROVE  Keeping'
<1>1. Callbacks(proc', setting'.kinds)
  BY DEF Keeping, Callbacks
<1>2. Alone(proc', disturbed')
  BY SameAlone DEF Keeping
<1>3. \A k \in Record : Same(k, proc, proc')
  BY SameTodo
<1> QED
  BY <1>1, <1>2, <1>3, ProcessesOnly

LEMMA OpenKeeps ==
    ASSUME Inv, Keeping, NEW p \in Process, Open(p)
    PROVE  Keeping'
<1>1. /\ proc[p].todo = <<>> /\ UNCHANGED <<db, age, conn, setting, truth, disturbed>>
      /\ proc \in [Process -> ProcessRecord] /\ proc[p].run = "starting"
  BY DEF Open, Inv, ProcOK
<1>2. Known(conn') /\ (Answered(conn) => Answered(conn'))
  BY <1>1 DEF Keeping, Known
<1>3. CASE VersionFound
  <2>1. proc' = [proc EXCEPT ![p] = [proc[p] EXCEPT !.run = "up"]]
    BY <1>3 DEF Open
  <2>2. \A q \in Process : /\ proc'[q].todo = proc[q].todo
                           /\ proc'[q].clean = proc[q].clean
                           /\ proc'[q].run = "off" => proc[q].run = "off"
    BY <1>1, <2>1 DEF ProcessRecord
  <2> QED
    BY <1>1, <1>2, <2>2, QuietKeeps
<1>4. CASE ~VersionFound
  <2>1. proc' = [proc EXCEPT ![p] = Off]
    BY <1>4 DEF Open
  <2>2. \A k \in Record : Left(k, proc[p].todo) = {}
    BY <1>1, EmptyTodo
  <2> QED
    BY <1>1, <1>2, <2>1, <2>2, OffKeeps
<1> QED
  BY <1>3, <1>4

LEMMA CrashKeeps ==
    ASSUME Inv, Keeping, NEW p \in Process, Crash(p)
    PROVE  Keeping'
<1> DEFINE mine == {c \in Conn : Owner(c) = p}
           lost == (KindsIn(proc[p].todo) \ {"file"})
                     \cup (IF \E c \in mine : conn[c].st = "open" /\ IsScan(c)
                           THEN {"scan"} ELSE {})
<1>1. /\ proc' = [proc EXCEPT ![p] = Off] /\ disturbed' = disturbed \cup lost
      /\ conn' = [c \in Conn |-> IF c \in mine THEN Free ELSE conn[c]]
      /\ UNCHANGED <<db, age, setting, truth>>
  BY DEF Crash
<1>2. \A k \in Record : Left(k, proc[p].todo) # {} => k \in disturbed'
  BY <1>1, KindsLeft DEF Record
<1>3. disturbed \subseteq disturbed'
  BY <1>1
<1>4. (Answered(conn) => Answered(conn')) \/ "scan" \in disturbed'
  BY <1>1 DEF Answered
<1>5. Known(conn')
  BY <1>1 DEF Keeping, Known, Free
<1> QED
  BY <1>1, <1>2, <1>3, <1>4, <1>5, OffKeeps

-----------------------------------------------------------------------------
(* Connections *)

\* A connection that is no answered scan, before or after.
LEMMA NoAnswer ==
    ASSUME Inv, Keeping, NEW c \in Conn, NEW r, conn' = [conn EXCEPT ![c] = r],
           ~IsScan(c) \/ (conn[c].st # "open" /\ r.st # "open")
    PROVE  (Answered(conn) => Answered(conn')) /\ Known(conn')
<1>1. conn \in [Conn -> ConnRecord]
  BY DEF Inv, TypeOK
<1>2. conn'[c] = r /\ \A d \in Conn \ {c} : conn'[d] = conn[d]
  BY <1>1
<1> QED
  BY <1>2 DEF Answered, Known, Keeping

LEMMA HostKeeps ==
    ASSUME Inv, Keeping, NEW c \in Conn, NEW was, ConnectHost(c, was),
           conn[c].st \in {"free", "lost"},
           UNCHANGED <<db, age, setting, truth, disturbed>>,
           \A q \in Process : /\ proc'[q].todo = proc[q].todo
                              /\ proc'[q].clean = proc[q].clean
                              /\ proc'[q].run = proc[q].run
    PROVE  Keeping'
<1>1. \E r : conn' = [conn EXCEPT ![c] = r] /\ r.st \in {"lost", "connecting"}
  BY DEF ConnectHost, Connecting, Free
<1>2. (Answered(conn) => Answered(conn')) /\ Known(conn')
  BY <1>1, NoAnswer
<1> QED
  BY <1>2, QuietKeeps

LEMMA JoinKeeps ==
    ASSUME Inv, Keeping, NEW c \in Conn, Join(c)
    PROVE  Keeping'
  BY HostKeeps DEF Join

LEMMA ScannerKeeps ==
    ASSUME Inv, Keeping, NEW p \in Process, List(p) \/ Dispatch(p)
    PROVE  Keeping'
<1>1. proc \in [Process -> ProcessRecord]
  BY DEF Inv, ProcOK
<1>2. CASE List(p)
  <2>1. UNCHANGED <<db, age, conn, setting, truth, disturbed>>
    BY <1>2 DEF List
  <2>2. \A q \in Process : /\ proc'[q].todo = proc[q].todo
                           /\ proc'[q].clean = proc[q].clean
                           /\ proc'[q].run = proc[q].run
    <3> DEFINE only == p = "forced"
    <3>1. only \in BOOLEAN
      OBVIOUS
    <3>2. \/ proc' = [proc EXCEPT ![p].tbd = LastStatus, ![p].listed = only]
          \/ proc' = [proc EXCEPT ![p].listed = only]
      BY <1>2 DEF List
    <3> HIDE DEF only
    <3>3. CASE proc' = [proc EXCEPT ![p].tbd = LastStatus, ![p].listed = only]
      <4>1. PICK b \in BOOLEAN :
                proc' = [proc EXCEPT ![p].tbd = LastStatus, ![p].listed = b]
        BY <3>1, <3>3, Zenon
      <4> QED
        BY <1>1, <4>1 DEF ProcessRecord
    <3>4. CASE proc' = [proc EXCEPT ![p].listed = only]
      <4>1. PICK b \in BOOLEAN : proc' = [proc EXCEPT ![p].listed = b]
        BY <3>1, <3>4, Zenon
      <4> QED
        BY <1>1, <4>1 DEF ProcessRecord
    <3> QED
      BY <3>2, <3>3, <3>4
  <2>3. Known(conn') /\ (Answered(conn) => Answered(conn'))
    BY <2>1 DEF Keeping, Known
  <2> QED
    BY <2>1, <2>2, <2>3, QuietKeeps
<1>3. CASE Dispatch(p)
  <2>1. /\ UNCHANGED <<db, age, setting, truth, disturbed>>
        /\ conn[ScanOf(p)].st \in {"free", "lost"} /\ ScanOf(p) \in Conn
        /\ ConnectHost(ScanOf(p), proc[p].tbd)
    BY <1>3 DEF Dispatch, ScanOf, Conn
  <2>2. \A q \in Process : /\ proc'[q].todo = proc[q].todo
                           /\ proc'[q].clean = proc[q].clean
                           /\ proc'[q].run = proc[q].run
    BY <1>1, <1>3 DEF Dispatch, ProcessRecord
  <2> QED
    BY <2>1, <2>2, HostKeeps
<1> QED
  BY <1>2, <1>3

LEMMA EndKeeps ==
    ASSUME Inv, Keeping, End
    PROVE  Keeping'
<1>1. /\ proc' = [proc EXCEPT !["forced"] = Off] /\ conn' = [conn EXCEPT !["forced"] = Free]
      /\ UNCHANGED <<db, age, setting, truth, disturbed>>
      /\ proc["forced"].todo = <<>> /\ conn["forced"].st # "open"
      /\ "forced" \in Conn /\ "forced" \in Process
  BY DEF End, Idle, Conn, Process
<1>2. (Answered(conn) => Answered(conn')) /\ Known(conn')
  BY <1>1, NoAnswer DEF Free
<1>3. \A k \in Record : Left(k, proc["forced"].todo) = {}
  BY <1>1, EmptyTodo
<1> QED
  BY <1>1, <1>2, <1>3, OffKeeps

-----------------------------------------------------------------------------
(* Callbacks that write *)

LEMMA CallbackKeeps ==
    ASSUME Inv, Keeping, NEW p \in Process, Idle(p), NEW work, Shaped(work),
           \A k \in Record \ setting.kinds : Left(k, work) = {},
           NEW spoilt, BeginSpoilt(proc, p, work, spoilt),
           UNCHANGED <<db, age, setting>>, truth'.what = truth.what, Known(conn'),
           \/ Left("mssp", work) = {}
           \/ "mssp" \in spoilt
           \/ ("mssp" \in disturbed \/ MsspSound(db, age, truth.what))
              => MsspOnTheWay(Left("mssp", work), db, age, truth.what, disturbed),
           \/ Left("telopts", work) = {} /\ truth'.opts = truth.opts
           \/ /\ Left("telopts", work) # {}
              /\ TeloptsOnTheWay(Left("telopts", work), db, truth'.opts),
           \/ /\ Left("scan", work) = {}
              /\ (Answered(conn) => Answered(conn')) \/ StatusSound(db, age)
           \/ /\ Left("scan", work) # {}
              /\ \/ "scan" \in spoilt
                 \/ ("scan" \in disturbed \/ ScanSound(db, age, conn))
                    => ScanOnTheWay(Left("scan", work), db, age, conn', disturbed)
    PROVE  Keeping'
<1>1. /\ proc \in [Process -> ProcessRecord] /\ proc[p].todo = <<>> /\ proc[p].run # "off"
  BY DEF Inv, ProcOK, Idle
<1>2. Callbacks(proc', setting'.kinds)
  BY <1>1, BegunCallbacks DEF Keeping
<1>3. Alone(proc', disturbed')
  BY <1>1, BegunAlone DEF Keeping
<1>4. KeptMssp(proc', db, age, truth.what, disturbed')
  <2>1. KeptMssp(proc, db, age, truth.what, disturbed)
    BY DEF Keeping
  <2> QED
    BY <1>1, <2>1, MsspBegun
<1>5. KeptTelopts(proc', db, truth'.opts, disturbed')
  <2>1. KeptTelopts(proc, db, truth.opts, disturbed)
    BY DEF Keeping
  <2> QED
    BY <1>1, <2>1, TeloptsBegun
<1>6. KeptScan(proc', db, age, conn', disturbed')
  <2>1. KeptScan(proc, db, age, conn, disturbed)
    BY DEF Keeping
  <2> QED
    BY <1>1, <2>1, ScanBegun
<1> QED
  BY <1>2, <1>3, <1>4, <1>5, <1>6 DEF Keeping, Reported, Unfollowed

LEMMA FinalizeLeft ==
    ASSUME NEW sc \in ConnRecord
    PROVE  /\ Shaped(Finalize(sc))
           /\ Left("scan", Finalize(sc)) =
                {RewritingOf(sc)} \cup (IF sc.is = "APPROVED" THEN {Greeting} ELSE {})
           /\ \A t \in InTodo(Finalize(sc)) : t.kind = "scan"
           /\ Left("mssp", Finalize(sc)) = {} /\ Left("telopts", Finalize(sc)) = {}
<1>1. /\ Shaped(Finalize(sc))
      /\ InTodo(Finalize(sc)) =
           {RewritingOf(sc)} \cup (IF sc.is = "APPROVED" THEN {Greeting} ELSE {})
  BY FinalizeShaped
<1>2. RewritingOf(sc).kind = "scan" /\ Greeting.kind = "scan"
  BY DEF RewritingOf, Greeting, Sql
<1>3. \A t \in InTodo(Finalize(sc)) : t.kind = "scan"
  BY <1>1, <1>2
<1> QED
  BY <1>1, <1>3 DEF Left, OfKind

(* A scan that was answered is recorded whatever there was before; one that   *)
(* was not answered relies on what the list said.                            *)
LEMMA FinalizeOnTheWay ==
    ASSUME NEW sc \in ConnRecord, NEW D, NEW A, NEW C, NEW C2, NEW dist,
           \/ sc.is = "APPROVED"
           \/ /\ sc.is = sc.was => D.status = sc.was
              /\ "scan" \in dist \/ ScanSound(D, A, C)
              /\ Answered(C) => Answered(C2)
    PROVE  ScanOnTheWay(Left("scan", Finalize(sc)), D, A, C2, dist)
<1> DEFINE W == Left("scan", Finalize(sc))
           s == RewritingOf(sc)
<1>1. /\ s \in W /\ s.put \in {"status", "since"} /\ s.val = sc.is
      /\ s.put = "status" => sc.is = sc.was
      /\ \A t \in W : t = s \/ t.put = "greeting"
  BY FinalizeLeft DEF RewritingOf, Greeting, Sql
<1> HIDE DEF W, s
<1>2. Has(W, "status") \/ Has(W, "since")
  BY <1>1 DEF Has
<1>3. ASSUME NEW t \in W, t.put = "status", t.val # "APPROVED"
      PROVE  D.status = t.val /\ (ScanSound(D, A, C2) \/ "scan" \in dist)
  BY <1>1, <1>3 DEF ScanSound
<1>4. ScanOnTheWay(W, D, A, C2, dist)
  BY <1>2, <1>3 DEF ScanOnTheWay
<1> QED
  BY <1>4 DEF W

LEMMA ConnectionErrorKeeps ==
    ASSUME Inv, Keeping, NEW c \in Conn, ConnectionError(c)
    PROVE  Keeping'
<1> DEFINE scanner == [conn[c] EXCEPT !.is = "NO_ANSWER"]
           work == Followed("scan", Finalize(scanner))
<1>1. /\ conn \in [Conn -> ConnRecord] /\ Owner(c) \in Process /\ Idle(Owner(c))
      /\ UNCHANGED <<db, age, setting, truth>>
      /\ conn' = [conn EXCEPT ![c] = Free] /\ conn[c].st # "open"
      /\ IF IsScan(c) THEN BeginSpoilt(proc, Owner(c), work, Outdated(scanner))
         ELSE UNCHANGED <<proc, disturbed>>
  BY OwnerTyped DEF Inv, TypeOK, ConnectionError
<1>2. (Answered(conn) => Answered(conn')) /\ Known(conn')
  BY <1>1, NoAnswer DEF Free
<1>3. scanner \in ConnRecord /\ scanner.is = "NO_ANSWER"
  BY <1>1 DEF ConnRecord, ScanStatus
<1>4. CASE ~IsScan(c)
  BY <1>1, <1>2, <1>4, QuietKeeps
<1>5. CASE IsScan(c) /\ "scan" \notin setting.kinds
  <2>1. work = <<>>
    BY <1>5 DEF Followed
  <2>2. Shaped(work) /\ \A k : Left(k, work) = {}
    BY <2>1, EmptyTodo
  <2> HIDE DEF work, scanner
  <2> QED
    BY <1>1, <1>2, <1>5, <2>2, CallbackKeeps
<1>6. CASE IsScan(c) /\ "scan" \in setting.kinds
  <2>1. work = Finalize(scanner)
    BY <1>6 DEF Followed
  <2>2. "scan" \in Outdated(scanner) \/ (scanner.is = scanner.was => db.status = scanner.was)
    BY DEF Outdated
  <2> HIDE DEF work, scanner
  <2>3. /\ Shaped(work) /\ Left("scan", work) # {}
        /\ Left("mssp", work) = {} /\ Left("telopts", work) = {}
    BY <1>3, <2>1, FinalizeLeft
  <2>4. ASSUME "scan" \notin Outdated(scanner), "scan" \in disturbed \/ ScanSound(db, age, conn)
        PROVE  ScanOnTheWay(Left("scan", work), db, age, conn', disturbed)
    BY <1>2, <1>3, <2>1, <2>2, <2>4, FinalizeOnTheWay
  <2>5. \A k \in Record \ setting.kinds : Left(k, work) = {}
    BY <1>6, <2>3 DEF Record
  <2> QED
    BY <1>1, <1>2, <1>6, <2>3, <2>4, <2>5, CallbackKeeps
<1> QED
  BY <1>4, <1>5, <1>6

\* The connection of a scan becomes an answer, and is known as one.
LEMMA ConnectedKeeps ==
    ASSUME Inv, Keeping, NEW c \in Conn, Connected(c)
    PROVE  Keeping'
<1>1. /\ conn \in [Conn -> ConnRecord] /\ conn[c].st = "connecting"
      /\ UNCHANGED <<db, proc, setting, truth, disturbed>>
      /\ age' = Renew(IF IsScan(c) /\ "scan" \in setting.kinds THEN {"answered"} ELSE {})
  BY DEF Inv, TypeOK, Connected
<1>2. /\ conn'[c].st = "open" /\ (IsScan(c) => conn'[c].is = "APPROVED")
      /\ \A d \in Conn \ {c} : conn'[d] = conn[d]
  BY <1>1 DEF Connected, ConnRecord
<1>3. Known(conn')
  BY <1>2 DEF Keeping, Known
<1>4. (Answered(conn) => Answered(conn')) /\ (IsScan(c) => Answered(conn'))
  BY <1>1, <1>2 DEF Answered
<1>5. /\ \A s \in {"lastMssp", "updated", "created", "since", "differed"} : age'[s] = age[s]
      /\ age'["answered"] = age["answered"] \/ IsScan(c)
  BY <1>1, OthersAge
<1>6. Callbacks(proc', setting'.kinds) /\ Alone(proc', disturbed')
  BY <1>1 DEF Keeping
<1>7. \A k : Same(k, proc, proc')
  BY <1>1 DEF Same
<1>8. KeptMssp(proc', db', age', truth'.what, disturbed')
  BY <1>1, <1>5, <1>7, MsspUntouched DEF Keeping
<1>9. KeptTelopts(proc', db', truth'.opts, disturbed')
  BY <1>1 DEF Keeping
<1>10. KeptScan(proc', db', age', conn', disturbed')
  <2>1. KeptScan(proc, db, age, conn, disturbed)
    BY DEF Keeping
  <2>2. CASE IsScan(c)
    BY <1>1, <1>4, <2>1, <2>2 DEF KeptScan, ScanSound, ScanOnTheWay
  <2>3. CASE ~IsScan(c)
    BY <1>1, <1>4, <1>5, <1>7, <2>1, <2>3, ScanUntouched
  <2> QED
    BY <2>2, <2>3
<1>11. Reported(db', age', truth'.what) /\ Unfollowed(db', age', setting'.kinds)
  BY <1>1, <1>5 DEF Keeping, Reported, Unfollowed
<1> QED
  BY <1>3, <1>6, <1>8, <1>9, <1>10, <1>11 DEF Keeping

\* Sound data tell whether a report is news; a look that fails spoils it.
LEMMA ReportMsspKeeps ==
    ASSUME Inv, Keeping, NEW c \in Conn, NEW what \in Data, ReportMssp(c, what)
    PROVE  Keeping'
<1>1. /\ Owner(c) \in Process /\ Idle(Owner(c)) /\ "mssp" \in setting.kinds
      /\ UNCHANGED <<db, age, conn, setting, truth>>
  BY OwnerTyped DEF ReportMssp
<1>2. (Answered(conn) => Answered(conn')) /\ Known(conn')
  BY <1>1 DEF Keeping
<1>3. ASSUME NEW news \in BOOLEAN
      PROVE  /\ Shaped(Report(what, news))
             /\ Left("mssp", Report(what, news)) = ReportOf(what, news)
             /\ Left("telopts", Report(what, news)) = {}
             /\ Left("scan", Report(what, news)) = {}
             /\ \A k \in Record \ setting.kinds : Left(k, Report(what, news)) = {}
  <2>1. Shaped(Report(what, news)) /\ InTodo(Report(what, news)) = ReportOf(what, news)
    BY ReportShaped
  <2>2. \A s \in ReportOf(what, news) : s.kind = "mssp"
    BY DEF ReportOf, Sql
  <2> QED
    BY <1>1, <2>1, <2>2 DEF Left, OfKind, Record
<1>4. ASSUME NEW news \in Updates(what), MsspSound(db, age, truth.what) \/ "mssp" \in disturbed
      PROVE  MsspOnTheWay(ReportOf(what, news), db, age, truth.what, disturbed)
  <2>1. Has(ReportOf(what, news), "insert")
    <3>1. Sql("mssp", "insert", what) \in ReportOf(what, news)
      BY DEF ReportOf
    <3>2. Sql("mssp", "insert", what).put = "insert"
      BY DEF Sql
    <3> QED
      BY <3>1, <3>2 DEF Has
  <2>2. ASSUME "mssp" \notin disturbed, what # truth.what
        PROVE  news
    <3>1. CASE db.newest = {}
      BY <3>1 DEF Updates
    <3>2. CASE db.newest # {}
      <4>1. truth.what # NULL
        BY <3>2 DEF Keeping, Reported
      <4>2. db.newest = {truth.what}
        BY <1>4, <2>2, <4>1 DEF MsspSound
      <4> QED
        BY <2>2, <4>2 DEF Updates
    <3> QED
      BY <3>1, <3>2
  <2>3. news => Has(ReportOf(what, news), "updated")
    <3>1. news => Sql("mssp", "updated", NULL) \in ReportOf(what, news)
      BY DEF ReportOf
    <3>2. Sql("mssp", "updated", NULL).put = "updated"
      BY DEF Sql
    <3> QED
      BY <3>1, <3>2 DEF Has
  <2>4. \A s \in ReportOf(what, news) : s.put = "insert" => s.val = what
    BY DEF ReportOf, Sql
  <2> QED
    BY <1>4, <2>1, <2>2, <2>3, <2>4 DEF MsspOnTheWay
<1>5. CASE UNCHANGED <<proc, disturbed>>
  BY <1>1, <1>2, <1>5, QuietKeeps
<1>6. ASSUME NEW news \in Updates(what), Begin(Owner(c), Report(what, news))
      PROVE  Keeping'
  <2>1. news \in BOOLEAN
    BY DEF Updates
  <2>2. BeginSpoilt(proc, Owner(c), Report(what, news), {})
    BY <1>6 DEF Begin
  <2>3. MsspSound(db, age, truth.what) \/ "mssp" \in disturbed
        => MsspOnTheWay(Left("mssp", Report(what, news)), db, age, truth.what, disturbed)
    BY <1>3, <1>4, <2>1
  <2> QED
    BY <1>1, <1>2, <1>3, <2>1, <2>2, <2>3, CallbackKeeps
<1>7. CASE BeginSpoilt(proc, Owner(c), Report(what, FALSE), {"mssp"})
  BY <1>1, <1>2, <1>3, <1>7, CallbackKeeps
<1> QED
  BY <1>5, <1>6, <1>7 DEF ReportMssp

\* What is left to write when an answered scan ends, and the status without it.
LEMMA AnswerEnds ==
    ASSUME Inv, Keeping, NEW c \in Conn, IsScan(c), conn[c].st = "open",
           NEW work, work = Followed("scan", Finalize(conn[c])), NEW C2
    PROVE  /\ work \in Seq(Recording) /\ Shaped(work)
           /\ \A t \in InTodo(work) : t.kind = "scan"
           /\ \A k \in Record \ setting.kinds : Left(k, work) = {}
           /\ \/ Left("scan", work) = {} /\ StatusSound(db, age)
              \/ /\ Left("scan", work) # {}
                 /\ ScanOnTheWay(Left("scan", work), db, age, C2, disturbed)
<1>1. conn[c] \in ConnRecord /\ conn[c].is = "APPROVED"
  BY DEF Inv, TypeOK, Keeping, Known
<1>2. work \in Seq(Recording)
  BY <1>1, WorkTyped DEF Kind
<1>3. CASE "scan" \in setting.kinds
  <2>1. work = Finalize(conn[c])
    BY <1>3 DEF Followed
  <2>2. ScanOnTheWay(Left("scan", work), db, age, C2, disturbed)
    BY <1>1, <2>1, FinalizeOnTheWay
  <2> QED
    BY <1>1, <1>2, <1>3, <2>1, <2>2, FinalizeLeft DEF Record
<1>4. CASE "scan" \notin setting.kinds
  <2>1. work = <<>>
    BY <1>4 DEF Followed
  <2>2. StatusSound(db, age)
    BY <1>4 DEF Keeping, Unfollowed, StatusSound
  <2>3. InTodo(work) = {} /\ Shaped(work) /\ \A k : Left(k, work) = {}
    BY <2>1, EmptyTodo
  <2> QED
    BY <1>2, <2>2, <2>3
<1> QED
  BY <1>3, <1>4

LEMMA ScanTimerKeeps ==
    ASSUME Inv, Keeping, NEW c \in Conn, ScanTimer(c)
    PROVE  Keeping'
<1> DEFINE work == Followed("scan", Finalize(conn[c]))
<1>1. /\ conn \in [Conn -> ConnRecord] /\ Owner(c) \in Process /\ Idle(Owner(c))
      /\ IsScan(c) /\ conn[c].st = "open" /\ UNCHANGED <<db, age, setting, truth>>
      /\ BeginSpoilt(proc, Owner(c), work, Outdated(conn[c]))
  BY OwnerTyped DEF Inv, TypeOK, ScanTimer
<1>2. Known(conn')
  <2>1. conn'[c].st = "closing" /\ \A d \in Conn \ {c} : conn'[d] = conn[d]
    BY <1>1 DEF ScanTimer, Free
  <2> QED
    BY <2>1 DEF Keeping, Known
<1> HIDE DEF work
<1>3. /\ Shaped(work) /\ \A t \in InTodo(work) : t.kind = "scan"
      /\ \A k \in Record \ setting.kinds : Left(k, work) = {}
      /\ \/ Left("scan", work) = {} /\ StatusSound(db, age)
         \/ /\ Left("scan", work) # {}
            /\ ScanOnTheWay(Left("scan", work), db, age, conn', disturbed)
  BY <1>1, AnswerEnds DEF work
<1>4. Left("mssp", work) = {} /\ Left("telopts", work) = {}
  BY <1>3 DEF Left, OfKind
<1> QED
  BY <1>1, <1>2, <1>3, <1>4, CallbackKeeps

LEMMA TeloptsOfKinds ==
    ASSUME NEW opts \in SUBSET Option
    PROVE  /\ \A t \in TeloptsOf(opts) : t.kind = "telopts"
           /\ Pending(TeloptsOf(opts)) = opts
           /\ Has(TeloptsOf(opts), "clear")
<1>1. /\ ClearRows.kind = "telopts" /\ ClearRows.put = "clear"
      /\ \A o : RowFor(o).kind = "telopts" /\ RowFor(o).put = "telopt" /\ RowFor(o).val = o
  BY DEF ClearRows, RowFor, Sql
<1>2. \A t : t \in TeloptsOf(opts) <=> t = ClearRows \/ \E o \in opts : t = RowFor(o)
  BY DEF TeloptsOf
<1>3. \A o : o \in Pending(TeloptsOf(opts)) <=> o \in opts
  BY <1>1, <1>2 DEF Pending
<1>4. Pending(TeloptsOf(opts)) = opts
  BY <1>3
<1>5. \A t \in TeloptsOf(opts) : t.kind = "telopts"
  BY <1>1, <1>2
<1>6. Has(TeloptsOf(opts), "clear")
  BY <1>1, <1>2 DEF Has
<1> QED
  BY <1>4, <1>5, <1>6

LEMMA ClosedKeeps ==
    ASSUME Inv, Keeping, NEW c \in Conn, NEW opts \in SUBSET Option, Closed(c, opts)
    PROVE  Keeping'
<1> DEFINE writes == conn[c].request /\ conn[c].known /\ "telopts" \in setting.kinds
           ends == IsScan(c) /\ conn[c].st = "open"
           telopts == IF writes THEN Telopts(SetToSeq(opts)) ELSE <<>>
           scan == IF ends THEN Followed("scan", Finalize(conn[c])) ELSE <<>>
           spoilt == IF ends THEN Outdated(conn[c]) ELSE {}
           work == telopts \o scan
<1>1. /\ conn \in [Conn -> ConnRecord] /\ Owner(c) \in Process /\ Idle(Owner(c))
      /\ UNCHANGED <<db, age, setting>> /\ conn' = [conn EXCEPT ![c] = Free]
      /\ BeginSpoilt(proc, Owner(c), work, spoilt)
  BY OwnerTyped DEF Inv, TypeOK, Closed, Followed
<1>2. truth'.what = truth.what /\ truth'.opts = IF writes THEN opts ELSE truth.opts
  BY DEF Closed, Inv, TypeOK
<1>3. conn'[c] = Free /\ \A d \in Conn \ {c} : conn'[d] = conn[d]
  BY <1>1
<1>4. Known(conn')
  BY <1>3 DEF Keeping, Known, Free
<1>5. /\ scan \in Seq(Recording) /\ Shaped(scan) /\ \A t \in InTodo(scan) : t.kind = "scan"
      /\ \A k \in Record \ setting.kinds : Left(k, scan) = {}
      /\ \/ /\ Left("scan", scan) = {}
            /\ (Answered(conn) => Answered(conn')) \/ StatusSound(db, age)
         \/ /\ Left("scan", scan) # {}
            /\ ScanOnTheWay(Left("scan", scan), db, age, conn', disturbed)
  <2>1. CASE ends
    <3>1. scan = Followed("scan", Finalize(conn[c]))
      BY <2>1
    <3> HIDE DEF scan
    <3> QED
      BY <2>1, <3>1, AnswerEnds
  <2>2. CASE ~ends
    <3>1. scan = <<>>
      BY <2>2
    <3>2. Answered(conn) => Answered(conn')
      BY <1>3, <2>2 DEF Answered
    <3> HIDE DEF scan
    <3> QED
      BY <3>1, <3>2, EmptyTodo, NothingToDo
  <2> QED
    BY <2>1, <2>2
<1> HIDE DEF scan, spoilt
<1>6. CASE writes
  <2> DEFINE rows == Telopts(SetToSeq(opts))
  <2>1. work = rows \o scan
    BY <1>6
  <2> HIDE DEF rows, work
  <2>2. scan \in Seq(Statement)
    BY <1>5, RecordingIsStatement
  <2>3. Shaped(work) /\ InTodo(work) = TeloptsOf(opts) \cup InTodo(scan)
    BY <1>5, <2>1, <2>2, TeloptsShaped DEF rows
  <2>4. \A t \in TeloptsOf(opts) : t.kind = "telopts"
    BY TeloptsOfKinds
  <2>5. /\ Left("telopts", work) = TeloptsOf(opts) /\ Left("mssp", work) = {}
        /\ Left("scan", work) = Left("scan", scan)
    BY <1>5, <2>3, <2>4 DEF Left, OfKind
  <2>6. TeloptsOnTheWay(TeloptsOf(opts), db, truth'.opts) /\ TeloptsOf(opts) # {}
    BY <1>2, <1>6, TeloptsOfKinds DEF TeloptsOnTheWay, Has
  <2>7. \A k \in Record \ setting.kinds : Left(k, work) = {}
    BY <1>5, <1>6, <2>5 DEF Record
  <2> QED
    BY <1>1, <1>2, <1>4, <1>5, <2>3, <2>5, <2>6, <2>7, CallbackKeeps
<1>7. CASE ~writes
  <2>1. telopts = <<>>
    BY <1>7
  <2>2. scan \in Seq(Statement)
    BY <1>5, RecordingIsStatement
  <2> HIDE DEF telopts
  <2>3. work = scan
    BY <2>1, <2>2, ConcatEmptySeq
  <2>4. Left("mssp", scan) = {} /\ Left("telopts", scan) = {}
    BY <1>5 DEF Left, OfKind
  <2>5. truth'.opts = truth.opts
    BY <1>2, <1>7
  <2> HIDE DEF work
  <2>6. Shaped(work) /\ Left("mssp", work) = {} /\ Left("telopts", work) = {}
        /\ Left("scan", work) = Left("scan", scan)
        /\ \A k \in Record \ setting.kinds : Left(k, work) = {}
    BY <1>5, <2>3, <2>4
  <2> QED
    BY <1>1, <1>2, <1>4, <1>5, <2>5, <2>6, CallbackKeeps
<1> QED
  BY <1>6, <1>7

-----------------------------------------------------------------------------
(* Time, the start, and the whole *)

\* Timestamps that are capped alike keep their order while they age.
LEMMA Aging ==
    ASSUME Inv, Tick
    PROVE  /\ \A s \in Stamp : age'[s] = NULL <=> age[s] = NULL
           /\ \A s, t \in Stamp :
                /\ age[s] # NULL /\ age[t] # NULL /\ age[s] <= age[t]
                /\ Oldest(s) = Oldest(t)
                => age'[s] <= age'[t]
<1>1. \A s \in Stamp : Oldest(s) \in Nat /\ age[s] \in 0..Oldest(s) \cup {NULL}
  BY AgesTyped DEF Inv, TypeOK
<1>2. \A s \in Stamp :
        age'[s] = IF age[s] = NULL \/ age[s] = Oldest(s) THEN age[s] ELSE age[s] + 1
  BY DEF Tick, Never
<1>3. ASSUME NEW s \in Stamp
      PROVE  age'[s] = NULL <=> age[s] = NULL
  <2>1. CASE age[s] = NULL
    BY <1>2, <2>1
  <2>2. CASE age[s] # NULL
    <3>1. age[s] \in Nat /\ age'[s] \in Nat
      BY <1>1, <1>2, <2>2
    <3> QED
      BY <2>2, <3>1, NullAssumption
  <2> QED
    BY <2>1, <2>2
<1>4. ASSUME NEW s \in Stamp, NEW t \in Stamp, age[s] # NULL, age[t] # NULL,
             age[s] <= age[t], Oldest(s) = Oldest(t)
      PROVE  age'[s] <= age'[t]
  <2>1. age[s] \in 0..Oldest(s) /\ age[t] \in 0..Oldest(s) /\ Oldest(s) \in Nat
    BY <1>1, <1>4
  <2>2. /\ age'[s] = IF age[s] = Oldest(s) THEN age[s] ELSE age[s] + 1
        /\ age'[t] = IF age[t] = Oldest(s) THEN age[t] ELSE age[t] + 1
    BY <1>2, <1>4
  <2> QED
    BY <1>4, <2>1, <2>2
<1> QED
  BY <1>3, <1>4

LEMMA TickKeeps ==
    ASSUME Inv, Keeping, Tick
    PROVE  Keeping'
<1>1. /\ UNCHANGED <<db, proc, conn, setting, truth, disturbed>>
      /\ \A p \in Process : proc[p].todo = <<>>
  BY DEF Tick
<1>2. \A k : \A p \in Process : Left(k, proc[p].todo) = {}
  BY <1>1, EmptyTodo
<1>3. \A k : Unwritten(proc, k) /\ \A p \in Process : ~CleanIn(proc[p], k)
  BY <1>2 DEF Unwritten, CleanIn
<1>4. \A s \in {"lastMssp", "updated", "created", "since", "differed", "answered"} :
        age'[s] = NULL <=> age[s] = NULL
  BY Aging DEF Stamp
<1>5. \A s, t \in {"lastMssp", "updated", "created", "since", "differed", "answered"} :
        age[s] # NULL /\ age[t] # NULL /\ age[s] <= age[t] /\ Oldest(s) = Oldest(t)
        => age'[s] <= age'[t]
  BY Aging DEF Stamp
<1>6. /\ Oldest("lastMssp") = Oldest("created") /\ Oldest("updated") = Oldest("differed")
      /\ Oldest("since") = Oldest("answered")
  BY DEF Oldest
<1>7. AskedInTime(age) => AskedInTime(age')
  BY <1>4, <1>5, <1>6 DEF AskedInTime
<1>8. age["differed"] # NULL /\ NewsMarked(age) => NewsMarked(age')
  BY <1>4, <1>5, <1>6 DEF NewsMarked
<1>9. MsspSound(db, age, truth.what) => MsspSound(db, age', truth.what)
  BY <1>7, <1>8 DEF Keeping, Reported, MsspSound
<1>10. ScanSound(db, age, conn) => ScanSound(db, age', conn)
  BY <1>4, <1>5, <1>6 DEF ScanSound, StatusSound
<1>11. Reported(db, age', truth.what) /\ Unfollowed(db, age', setting.kinds)
  BY <1>4 DEF Keeping, Reported, Unfollowed
<1>12. KeptMssp(proc, db, age', truth.what, disturbed)
  BY <1>3, <1>9 DEF Keeping, KeptMssp
<1>13. KeptScan(proc, db, age', conn, disturbed)
  BY <1>3, <1>10 DEF Keeping, KeptScan
<1> QED
  BY <1>1, <1>11, <1>12, <1>13 DEF Keeping

LEMMA InitKeeps == Init => Keeping
<1> SUFFICES ASSUME Init PROVE Keeping
  OBVIOUS
<1>1. \A p \in Process : proc[p] = Off
  BY DEF Init
<1>2. /\ \A k : \A p \in Process : Left(k, proc[p].todo) = {} /\ ~CleanIn(proc[p], k)
      /\ \A p \in Process : Shaped(proc[p].todo)
  BY <1>1, EmptyTodo DEF Off, CleanIn
<1>3. Callbacks(proc, setting.kinds) /\ Alone(proc, disturbed)
  <2>1. \A p \in Process : proc[p].todo = <<>>
    BY <1>1 DEF Off
  <2>2. \A p \in Process, k \in Record : Left(k, proc[p].todo) = {}
    BY <1>2
  <2>3. Callbacks(proc, setting.kinds)
    BY <1>2, <2>1, <2>2 DEF Callbacks
  <2>4. Alone(proc, disturbed)
    BY <1>2 DEF Alone
  <2> QED
    BY <2>3, <2>4
<1>4. /\ \A s \in {"lastMssp", "updated", "created", "since", "differed", "answered"} :
           age[s] = NULL
      /\ db.newest = {} /\ db.status = "unknown" /\ truth = [what |-> NULL, opts |-> {}]
      /\ db.telopts = [o \in Option |-> 0]
  BY DEF Init, Stamp
<1>5. KeptMssp(proc, db, age, truth.what, disturbed)
  BY <1>2, <1>4 DEF KeptMssp, MsspSound, AskedInTime
<1>6. KeptTelopts(proc, db, truth.opts, disturbed)
  BY <1>2, <1>4 DEF KeptTelopts, TeloptsSound, RowsOf
<1>7. KeptScan(proc, db, age, conn, disturbed)
  BY <1>2, <1>4 DEF KeptScan, ScanSound, StatusSound
<1>8. Known(conn)
  BY DEF Init, Known, Free
<1> QED
  BY <1>3, <1>4, <1>5, <1>6, <1>7, <1>8 DEF Keeping, Reported, Unfollowed

LEMMA NextKeeps == Inv /\ Keeping /\ [Next]_vars => Keeping'
<1> SUFFICES ASSUME Inv, Keeping, [Next]_vars PROVE Keeping'
  OBVIOUS
<1>1. ASSUME NEW p \in Process, SqlStep(p) \/ Start(p) \/ Open(p) \/ Crash(p)
      PROVE  Keeping'
  BY <1>1, SqlStepKeeps, StartKeeps, OpenKeeps, CrashKeeps
<1>2. ASSUME NEW p \in Process, List(p) \/ Dispatch(p)
      PROVE  Keeping'
  BY <1>2, ScannerKeeps
<1>3. CASE End
  BY <1>3, EndKeeps
<1>4. ASSUME NEW c \in Conn, Join(c) \/ ConnectionError(c) \/ Connected(c) \/ Ends(c)
      PROVE  Keeping'
  BY <1>4, JoinKeeps, ConnectionErrorKeeps, ConnectedKeeps, ScanTimerKeeps, ClosedKeeps DEF Ends
<1>5. ASSUME NEW c \in Conn, NEW what \in Data, ReportMssp(c, what)
      PROVE  Keeping'
  BY <1>5, ReportMsspKeeps
<1>6. CASE Tick
  BY <1>6, TickKeeps
<1>7. CASE UNCHANGED vars
  BY <1>7 DEF vars, Keeping
<1> QED
  BY <1>1, <1>2, <1>3, <1>4, <1>5, <1>6, <1>7 DEF Next

(* A record that was not disturbed and that nobody writes is sound; one that  *)
(* a process is writing undisturbed will be, by what is left to execute.     *)
THEOREM KeepingInvariant == Spec => [](Inv /\ Keeping)
<1>1. Init => Inv /\ Keeping
  BY InitSafe, InitKeeps
<1>2. Inv /\ Keeping /\ [Next]_vars => (Inv /\ Keeping)'
  BY NextSafe, NextKeeps
<1> QED
  BY <1>1, <1>2, PTL DEF Spec

LEMMA UndisturbedMeans ==
    ASSUME NEW k \in Record, Undisturbed(k)
    PROVE  k \notin disturbed /\ Unwritten(proc, k)
  BY KindsLeft DEF Undisturbed, Unwritten

(* What the browser shows of a game is the last report under the name in it,  *)
(* marked as updated while a change of a notable field is recent: whatever    *)
(* reports before it failed, crashed or met another process's (gamedb.c).    *)
THEOREM AboutIsLastHolds == Spec => []AboutIsLast
<1>1. Inv /\ Keeping => AboutIsLast
  <2> SUFFICES ASSUME Inv, Keeping, Undisturbed("mssp"), truth.what # NULL
               PROVE  /\ AboutGame = [name |-> {truth.what}, mssp |-> {truth.what}]
                      /\ age["differed"] <= Recent => MarkedUpdated
    BY DEF AboutIsLast
  <2>1. "mssp" \notin disturbed /\ Unwritten(proc, "mssp")
    BY UndisturbedMeans DEF Record
  <2>2. MsspSound(db, age, truth.what)
    BY <2>1 DEF Keeping, KeptMssp
  <2>3. truth.what \in Data
    BY DEF Inv, TypeOK
  <2>4. AboutGame = [name |-> {truth.what}, mssp |-> {truth.what}]
    BY <2>2, <2>3 DEF MsspSound, AboutGame
  <2>5. age["differed"] \in Nat
    BY Ages DEF Keeping, Reported
  <2>6. age["updated"] \in Nat /\ age["updated"] <= age["differed"]
    BY <2>2, Ages DEF MsspSound, NewsMarked
  <2>7. age["differed"] <= Recent => MarkedUpdated
    BY <2>5, <2>6, TimesAssumption, NullAssumption DEF MarkedUpdated, Never
  <2> QED
    BY <2>4, <2>7
<1> QED
  BY <1>1, KeepingInvariant, PTL

(* The rows of TELOPTS are those of one connection, the last one that asked   *)
(* the game for MSSP, each option once (gamedb.c, game.c).                   *)
THEOREM TeloptsOfOneHolds == Spec => []TeloptsOfOne
<1>1. Inv /\ Keeping => TeloptsOfOne
  <2> SUFFICES ASSUME Inv, Keeping, Undisturbed("telopts")
               PROVE  db.telopts = [o \in Option |-> IF o \in truth.opts THEN 1 ELSE 0]
    BY DEF TeloptsOfOne
  <2>1. "telopts" \notin disturbed /\ Unwritten(proc, "telopts")
    BY UndisturbedMeans DEF Record
  <2> QED
    BY <2>1 DEF Keeping, KeptTelopts, TeloptsSound, RowsOf
<1> QED
  BY <1>1, KeepingInvariant, PTL

(* A game that the scanner has given up, or that --list-scan calls DOWN, has  *)
(* answered no scan for as long as scan_down, however the scans of the server *)
(* and of an administrator overlap; and a game that the last scan reached has *)
(* its greeting (scan.c, gamedb.c).                                          *)
THEOREM GivenUpIsDownHolds == Spec => []GivenUpIsDown
<1>1. Inv /\ Keeping => GivenUpIsDown
  <2> SUFFICES ASSUME Inv, Keeping, Undisturbed("scan"),
                      \A c \in Conn : IsScan(c) => conn[c].st # "open"
               PROVE  /\ GivenUp \/ ListedDown => ~Younger("answered", Down)
                      /\ db.status = "APPROVED" => db.greeted
    BY DEF GivenUpIsDown
  <2>1. "scan" \notin disturbed /\ Unwritten(proc, "scan")
    BY UndisturbedMeans DEF Record
  <2>2. StatusSound(db, age)
    BY <2>1 DEF Keeping, KeptScan, ScanSound, Answered
  <2>3. db.status \in ScanStatus
    BY DEF Inv, TypeOK, Database
  <2>4. GivenUp \/ ListedDown
        => db.status = "NO_ANSWER" /\ age["since"] # NULL /\ age["since"] >= Down
    BY <2>3 DEF GivenUp, ListedDown, ScanStatus, Never
  <2>5. /\ age["since"] = NULL \/ age["since"] \in Nat
        /\ age["answered"] = NULL \/ age["answered"] \in Nat
    BY Ages
  <2> QED
    BY <2>2, <2>4, <2>5, TimesAssumption DEF StatusSound, Younger, Never
<1> QED
  BY <1>1, KeepingInvariant, PTL

LEMMA CrawlStep ==
    ASSUME Inv, Keeping, Next, NEW c \in Conn,
           conn[c].st # "connecting", conn'[c].st = "connecting", conn'[c].known,
           Undisturbed("mssp"), Younger("created", CrawlDelay)
    PROVE  ~conn'[c].request
<1>1. conn \in [Conn -> ConnRecord]
  BY DEF Inv, TypeOK
<1>2. \E was : \E d \in Conn : ConnectHost(d, was)
  <2>1. ASSUME NEW p \in Process, SqlStep(p) \/ Start(p) \/ Open(p) \/ List(p)
        PROVE  conn' = conn
    BY <2>1 DEF SqlStep, Start, Open, List, CreateFile, DefineTables, InsertHome,
       InsertVersion, InsertMssp, UpdateLastMssp, UpdateGameUpdated, UpdateNames,
       ClearTelopts, UpdateTelopt, UpsertStatus, UpsertStatusSince, UpsertGreeting,
       FailStatement
  <2>2. ASSUME NEW p \in Process, Crash(p)
        PROVE  conn'[c] = Free \/ conn'[c] = conn[c]
    BY <2>2 DEF Crash
  <2>3. ASSUME NEW p \in Process, Dispatch(p)
        PROVE  \E was : \E d \in Conn : ConnectHost(d, was)
    BY <2>3 DEF Dispatch, ScanOf, Conn
  <2>4. CASE End
    BY <1>1, <2>4 DEF End, Free
  <2>5. ASSUME NEW d \in Conn, Join(d)
        PROVE  \E was : \E e \in Conn : ConnectHost(e, was)
    BY <2>5 DEF Join
  <2>6. ASSUME NEW d \in Conn, ConnectionError(d) \/ Connected(d) \/ Ends(d)
        PROVE  conn'[c].st = conn[c].st \/ conn'[c].st \in {"open", "free", "closing"}
    <3>1. CASE ConnectionError(d)
      BY <1>1, <3>1 DEF ConnectionError, Free
    <3>2. CASE Connected(d)
      <4>1. conn'[d].st = "open" /\ \A e \in Conn \ {d} : conn'[e] = conn[e]
        BY <1>1, <3>2 DEF Connected, ConnRecord
      <4> QED
        BY <4>1
    <3>3. CASE ScanTimer(d)
      <4>1. conn'[d].st = "closing" /\ \A e \in Conn \ {d} : conn'[e] = conn[e]
        BY <1>1, <3>3 DEF ScanTimer, Free
      <4> QED
        BY <4>1
    <3>4. ASSUME NEW opts \in SUBSET Option, Closed(d, opts)
          PROVE  conn'[c].st = conn[c].st \/ conn'[c].st = "free"
      <4>1. conn' = [conn EXCEPT ![d] = Free]
        BY <3>4 DEF Closed
      <4> QED
        BY <1>1, <4>1 DEF Free
    <3> QED
      BY <2>6, <3>1, <3>2, <3>3, <3>4 DEF Ends
  <2>7. ASSUME NEW d \in Conn, NEW what \in Data, ReportMssp(d, what)
        PROVE  conn' = conn
    BY <2>7 DEF ReportMssp
  <2>8. CASE Tick
    BY <2>8 DEF Tick
  <2> QED
    BY <2>1, <2>2, <2>3, <2>4, <2>5, <2>6, <2>7, <2>8 DEF Next, Free
<1>3. PICK was : \E d \in Conn : ConnectHost(d, was)
  BY <1>2
<1>4. PICK d \in Conn : ConnectHost(d, was)
  BY <1>3
<1>5. \E request \in ShouldRequest : conn' = [conn EXCEPT ![d] = Connecting(TRUE, request, was)]
  BY <1>1, <1>4 DEF ConnectHost, Connecting, Free
<1>6. conn'[c].request \in ShouldRequest
  BY <1>1, <1>5 DEF Connecting
<1>7. "mssp" \notin disturbed /\ Unwritten(proc, "mssp")
  BY UndisturbedMeans DEF Record
<1>8. AskedInTime(age) /\ age["created"] # NULL /\ age["created"] < CrawlDelay
  BY <1>7 DEF Keeping, KeptMssp, MsspSound, Younger, Never
<1>9. "mssp" \in setting.kinds
  BY <1>8 DEF Keeping, Unfollowed
<1>10. Younger("lastMssp", CrawlDelay)
  BY <1>8, Ages, TimesAssumption DEF AskedInTime, Younger, Never
<1> QED
  BY <1>6, <1>9, <1>10 DEF ShouldRequest

(* A game whose data were stored is not asked again before mssp_crawl_delay   *)
(* is over, whoever connects to it next, a user, the scanner or another       *)
(* process's scanner, and whether or not the data were news (gamedb.c,       *)
(* connect.c).                                                              *)
THEOREM CrawlKeptHolds == Spec => CrawlKept
<1> DEFINE Kept ==
      \A c \in Conn :
         /\ conn[c].st # "connecting" /\ conn'[c].st = "connecting"
         /\ conn'[c].known
         /\ Undisturbed("mssp") /\ Younger("created", CrawlDelay)
         => ~conn'[c].request
<1>1. Inv /\ Keeping /\ [Next]_vars => [Kept]_vars
  BY CrawlStep
<1> QED
  BY <1>1, KeepingInvariant, PTL DEF Spec, CrawlKept
=============================================================================
