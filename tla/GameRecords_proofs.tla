------------------------- MODULE GameRecords_proofs -------------------------
(***************************************************************************)
(* Proofs about module GameRecords, for any sets of users, data and options, *)
(* any limits, and any number of failures: type correctness, and that no    *)
(* process runs on a database whose creation was cut short.                 *)
(*                                                                         *)
(* The second needs to know how far each process is with the creation while *)
(* it starts, and that it creates nothing later: each of two processes may   *)
(* be doing it, and each of its statements may be the last.                 *)
(* What the records then say is proved in module RecordKeeping_proofs.      *)
(***************************************************************************)
EXTENDS GameRecords, FiniteSetTheorems, SequenceTheorems, TLAPS

FilePut == {"create", "tables", "home", "version"}

\* A statement has the kind and the value that it is executed with.
Fits(s) ==
    /\ s.kind = "file" <=> s.put \in FilePut
    /\ s.put \in {"insert", "names"} => s.val \in Data
    /\ s.put = "telopt" => s.val \in Option
    /\ s.put \in {"status", "since"} => s.val \in ScanStatus
Proper == {s \in Statement : Fits(s)}
Recording == {s \in Proper : s.kind # "file"}

\* What is left of the creation; the home row is there before the version.
OnTheWay(todo, D) ==
    \/ todo = <<>>
    \/ todo = Creation
    \/ todo = Tail(Creation)
    \/ todo = Tail(Tail(Creation)) /\ D.tables
    \/ todo = Tail(Tail(Tail(Creation))) /\ D.tables /\ D.home

Complete(D) == D.tables /\ D.home /\ D.version

Stands(r, D) ==
    /\ r.run = "starting" => OnTheWay(r.todo, D)
    /\ r.run # "starting" => r.todo \in Seq(Recording)
    /\ r.run = "up" => Complete(D)

ProcOK(P, D) ==
    /\ P \in [Process -> ProcessRecord]
    /\ \A p \in Process : Stands(P[p], D)

Inv ==
    /\ TypeOK
    /\ ProcOK(proc, db)
    /\ db.version => Complete(db)

-----------------------------------------------------------------------------
(* Statements and sequences of them *)

LEMMA RecordingTypes ==
    /\ Recording \subseteq Proper /\ Proper \subseteq Statement
    /\ \A s \in Recording : s.kind \in Kind /\ s.put \in Put \ FilePut /\ Fits(s)
  BY DEF Recording, Proper, Fits, Statement

LEMMA SeqMonotone ==
    ASSUME NEW S, NEW T, S \subseteq T
    PROVE  Seq(S) \subseteq Seq(T)
  OBVIOUS

LEMMA CreationSteps ==
    /\ Creation \in Seq(Statement)
    /\ Len(Creation) = 4
    /\ Tail(Creation) \in Seq(Statement)
    /\ Tail(Tail(Creation)) \in Seq(Statement)
    /\ Tail(Tail(Tail(Creation))) \in Seq(Statement)
    /\ Tail(Tail(Tail(Tail(Creation)))) = <<>>
    /\ Head(Creation).put = "create"
    /\ Head(Tail(Creation)).put = "tables"
    /\ Head(Tail(Tail(Creation))).put = "home"
    /\ Head(Tail(Tail(Tail(Creation)))).put = "version"
<1>1. \A put \in FilePut : Sql("file", put, NULL) \in Statement
  BY DEF Sql, Statement, FilePut, Kind, Put
<1>2. /\ Creation \in Seq(Statement)
      /\ Len(Creation) = 4
      /\ Creation[1].put = "create" /\ Creation[2].put = "tables"
      /\ Creation[3].put = "home" /\ Creation[4].put = "version"
  BY <1>1 DEF Creation, Sql, FilePut
<1> DEFINE C == Creation
<1> HIDE DEF C
<1>3. C \in Seq(Statement) /\ Len(C) = 4
      /\ C[1].put = "create" /\ C[2].put = "tables"
      /\ C[3].put = "home" /\ C[4].put = "version"
  BY <1>2 DEF C
<1>4. ASSUME NEW s \in Seq(Statement), s # <<>>
      PROVE  /\ Tail(s) \in Seq(Statement) /\ Len(Tail(s)) = Len(s) - 1
             /\ \A i \in 1..(Len(s) - 1) : Tail(s)[i] = s[i + 1]
             /\ Head(s) = s[1]
  BY <1>4, HeadTailProperties
<1> DEFINE C1 == Tail(C)
           C2 == Tail(C1)
           C3 == Tail(C2)
           C4 == Tail(C3)
<1> HIDE DEF C1, C2, C3, C4
<1>5. C1 \in Seq(Statement) /\ Len(C1) = 3 /\ \A i \in 1..3 : C1[i] = C[i + 1]
  <2>1. C # <<>>
    BY <1>3
  <2>2. C1 \in Seq(Statement) /\ Len(C1) = Len(C) - 1
        /\ \A i \in 1..(Len(C) - 1) : C1[i] = C[i + 1]
    BY ONLY <1>4, <1>3, <2>1 DEF C1
  <2> QED
    BY ONLY <1>3, <2>2
<1>6. C2 \in Seq(Statement) /\ Len(C2) = 2 /\ \A i \in 1..2 : C2[i] = C1[i + 1]
  <2>1. C1 # <<>>
    <3>1. Len(C1) = 3
      BY ONLY <1>5
    <3> QED
      BY ONLY <3>1
  <2>2. C2 \in Seq(Statement) /\ Len(C2) = Len(C1) - 1
        /\ \A i \in 1..(Len(C1) - 1) : C2[i] = C1[i + 1]
    BY ONLY <1>4, <1>5, <2>1 DEF C2
  <2> QED
    BY ONLY <1>5, <2>2
<1>7. C3 \in Seq(Statement) /\ Len(C3) = 1 /\ C3[1] = C2[2]
  <2>1. C2 # <<>>
    BY <1>6
  <2>2. C3 \in Seq(Statement) /\ Len(C3) = Len(C2) - 1
        /\ \A i \in 1..(Len(C2) - 1) : C3[i] = C2[i + 1]
    BY ONLY <1>4, <1>6, <2>1 DEF C3
  <2> QED
    BY ONLY <1>6, <2>2
<1>8. C4 \in Seq(Statement) /\ Len(C4) = 0
  <2>1. C3 # <<>>
    BY <1>7
  <2>2. C4 \in Seq(Statement) /\ Len(C4) = Len(C3) - 1
    BY ONLY <1>4, <1>7, <2>1 DEF C4
  <2> QED
    BY ONLY <1>7, <2>2
<1>9. /\ Head(C) = C[1] /\ Head(C1) = C[2] /\ Head(C2) = C[3] /\ Head(C3) = C[4]
      /\ C4 = <<>>
  <2>1. Head(C) = C[1] /\ Head(C1) = C1[1] /\ Head(C2) = C2[1] /\ Head(C3) = C3[1]
    BY <1>3, <1>4, <1>5, <1>6, <1>7
  <2>2. C1[1] = C[2] /\ C2[1] = C[3] /\ C3[1] = C[4]
    BY <1>5, <1>6, <1>7
  <2> QED
    BY <2>1, <2>2, <1>8
<1> QED
  BY <1>3, <1>5, <1>6, <1>7, <1>9 DEF C, C1, C2, C3, C4

\* The first statement of a process, and what remains after it.
LEMMA NextStatement ==
    ASSUME ProcOK(proc, db), NEW p \in Process, proc[p].todo # <<>>
    PROVE  LET s == Head(proc[p].todo) IN
           /\ s \in Statement
           /\ Tail(proc[p].todo) \in Seq(Statement)
           /\ proc[p].run = "starting" => s.put \in FilePut
           /\ proc[p].run # "starting" =>
                s \in Recording /\ Tail(proc[p].todo) \in Seq(Recording)
           /\ s.put = "version" => db.tables /\ db.home
<1>1. proc[p].todo \in Seq(Statement)
  BY DEF ProcOK, ProcessRecord
<1>2. Head(proc[p].todo) \in Statement /\ Tail(proc[p].todo) \in Seq(Statement)
  BY <1>1, HeadTailProperties
<1>3. CASE proc[p].run = "starting"
  <2>1. OnTheWay(proc[p].todo, db)
    BY <1>3 DEF ProcOK, Stands
  <2> QED
    BY <1>2, <1>3, <2>1, CreationSteps DEF OnTheWay, FilePut
<1>4. CASE proc[p].run # "starting"
  <2>1. proc[p].todo \in Seq(Recording)
    BY <1>4 DEF ProcOK, Stands
  <2>2. Head(proc[p].todo) \in Recording /\ Tail(proc[p].todo) \in Seq(Recording)
    BY <2>1, HeadTailProperties
  <2> QED
    BY <1>2, <1>4, <2>2, RecordingTypes DEF FilePut
<1> QED
  BY <1>3, <1>4

LEMMA KindsTyped ==
    ASSUME NEW todo \in Seq(Statement)
    PROVE  KindsIn(todo) \subseteq Kind
<1>1. SUFFICES ASSUME NEW i \in DOMAIN todo
               PROVE  todo[i].kind \in Kind
  BY DEF KindsIn
<1>2. todo[i] \in Statement
  OBVIOUS
<1> QED
  BY <1>2 DEF Statement

\* What another process, or the rest of the database, does is no concern.
LEMMA StandsOn ==
    ASSUME NEW D, NEW E, NEW r, Stands(r, D),
           D.tables => E.tables, D.home => E.home, D.version => E.version
    PROVE  Stands(r, E)
  BY DEF Stands, OnTheWay, Complete

LEMMA ProcOn ==
    ASSUME NEW P, NEW D, NEW E, ProcOK(P, D),
           D.tables => E.tables, D.home => E.home, D.version => E.version
    PROVE  ProcOK(P, E)
  BY StandsOn DEF ProcOK

LEMMA SetToSeqTyped ==
    ASSUME NEW S, IsFiniteSet(S)
    PROVE  SetToSeq(S) \in Seq(S)
<1>1. Cardinality(S) \in Nat /\ ExistsBijection(1..Cardinality(S), S)
  BY FS_CardinalityType
<1>2. \E f \in [1..Cardinality(S) -> S] : IsInjective(f)
  BY <1>1 DEF ExistsBijection, Bijection, Injection, IsInjective
<1>3. SetToSeq(S) \in [1..Cardinality(S) -> S]
  BY <1>2, Zenon DEF SetToSeq
<1> QED
  BY <1>1, <1>3

LEMMA WorkTyped ==
    /\ \A sc \in ConnRecord : Finalize(sc) \in Seq(Recording)
    /\ \A what \in Data, news \in BOOLEAN : Report(what, news) \in Seq(Recording)
    /\ \A opts \in SUBSET Option : Telopts(SetToSeq(opts)) \in Seq(Recording)
    /\ \A kind \in Kind, todo \in Seq(Recording) : Followed(kind, todo) \in Seq(Recording)
<1>1. /\ \A put \in {"lastMssp", "updated"} : Sql("mssp", put, NULL) \in Recording
      /\ \A put \in {"insert", "names"}, what \in Data : Sql("mssp", put, what) \in Recording
      /\ Sql("telopts", "clear", NULL) \in Recording
      /\ \A o \in Option : Sql("telopts", "telopt", o) \in Recording
      /\ \A put \in {"status", "since"}, is \in ScanStatus :
            Sql("scan", put, is) \in Recording
      /\ Sql("scan", "greeting", NULL) \in Recording
  BY DEF Sql, Recording, Proper, Fits, FilePut, Statement, Kind, Put
<1>2. ASSUME NEW sc \in ConnRecord PROVE Finalize(sc) \in Seq(Recording)
  <2>1. sc.is \in ScanStatus
    BY DEF ConnRecord
  <2>2. Sql("scan", IF sc.is # sc.was THEN "since" ELSE "status", sc.is) \in Recording
    BY <1>1, <2>1
  <2> DEFINE first == <<Sql("scan", IF sc.is # sc.was THEN "since" ELSE "status", sc.is)>>
             last == IF sc.is = "APPROVED" THEN <<Sql("scan", "greeting", NULL)>> ELSE <<>>
  <2>3. first \in Seq(Recording) /\ last \in Seq(Recording)
    BY <1>1, <2>2
  <2> HIDE DEF first, last
  <2>4. first \o last \in Seq(Recording)
    BY <2>3
  <2> QED
    BY <2>4 DEF first, last, Finalize
<1>3. ASSUME NEW what \in Data, NEW news \in BOOLEAN
      PROVE  Report(what, news) \in Seq(Recording)
  <2> DEFINE first == <<Sql("mssp", "insert", what), Sql("mssp", "lastMssp", NULL)>>
             mid == IF news THEN <<Sql("mssp", "updated", NULL)>> ELSE <<>>
             last == <<Sql("mssp", "names", what)>>
  <2>1. first \in Seq(Recording) /\ mid \in Seq(Recording) /\ last \in Seq(Recording)
    BY <1>1
  <2> HIDE DEF first, mid, last
  <2>2. first \o mid \o last \in Seq(Recording)
    BY <2>1
  <2> QED
    BY <2>2 DEF first, mid, last, Report
<1>4. ASSUME NEW opts \in SUBSET Option
      PROVE  Telopts(SetToSeq(opts)) \in Seq(Recording)
  <2> DEFINE seq == SetToSeq(opts)
             rows == [i \in DOMAIN seq |-> Sql("telopts", "telopt", seq[i])]
  <2>1. seq \in Seq(Option)
    <3>1. IsFiniteSet(opts)
      BY OptionAssumption, FS_Subset
    <3> QED
      BY <3>1, SetToSeqTyped, SeqMonotone
  <2> HIDE DEF seq
  <2>2. rows \in Seq(Recording)
    <3>1. \A i \in 1..Len(seq) : rows[i] \in Recording
      BY <1>1, <2>1
    <3>2. rows \in [1..Len(seq) -> Recording] /\ Len(seq) \in Nat
      <4>1. DOMAIN seq = 1..Len(seq) /\ Len(seq) \in Nat
        BY <2>1
      <4>2. rows = [i \in 1..Len(seq) |-> Sql("telopts", "telopt", seq[i])]
        BY <4>1
      <4> HIDE DEF rows
      <4> QED
        BY <3>1, <4>1, <4>2
    <3> HIDE DEF rows
    <3> QED
      BY <3>2
  <2>3. <<Sql("telopts", "clear", NULL)>> \in Seq(Recording)
    BY <1>1
  <2> HIDE DEF rows
  <2>4. <<Sql("telopts", "clear", NULL)>> \o rows \in Seq(Recording)
    BY <2>2, <2>3
  <2> QED
    BY <2>4 DEF Telopts, rows, seq
<1>5. <<>> \in Seq(Recording)
  OBVIOUS
<1> QED
  BY <1>2, <1>3, <1>4, <1>5 DEF Followed

LEMMA RecordingIsStatement == Seq(Recording) \subseteq Seq(Statement)
  BY RecordingTypes, SeqMonotone

-----------------------------------------------------------------------------
(* What the actions are made of *)

\* A process goes on to its next statement; the creation has got further.
LEMMA RestSafe ==
    ASSUME ProcOK(proc, db), NEW p \in Process, proc[p].todo # <<>>,
           NEW D, NEW clean \in SUBSET Kind,
           db.tables => D.tables, db.home => D.home, db.version => D.version,
           Head(proc[p].todo).put = "tables" => D.tables,
           Head(proc[p].todo).put = "home" => D.home
    PROVE  ProcOK([proc EXCEPT ![p].todo = Tail(proc[p].todo), ![p].clean = clean], D)
<1> DEFINE Q == [proc EXCEPT ![p].todo = Tail(proc[p].todo), ![p].clean = clean]
<1>1. proc \in [Process -> ProcessRecord] /\ \A q \in Process : Stands(proc[q], D)
  BY StandsOn DEF ProcOK
<1>2. Tail(proc[p].todo) \in Seq(Statement)
  BY NextStatement
<1>3. /\ Q \in [Process -> ProcessRecord]
      /\ Q[p].run = proc[p].run /\ Q[p].todo = Tail(proc[p].todo)
      /\ \A q \in Process \ {p} : Q[q] = proc[q]
  BY <1>1, <1>2 DEF ProcessRecord
<1> HIDE DEF Q
<1>4. Stands(Q[p], D)
  <2>1. CASE proc[p].run = "starting"
    <3>1. OnTheWay(proc[p].todo, D)
      BY <1>1, <2>1 DEF Stands
    <3>2. OnTheWay(Tail(proc[p].todo), D)
      BY <3>1, CreationSteps DEF OnTheWay
    <3> QED
      BY <1>3, <2>1, <3>2 DEF Stands
  <2>2. CASE proc[p].run # "starting"
    BY <1>1, <1>3, <2>2, NextStatement DEF Stands
  <2> QED
    BY <2>1, <2>2
<1>5. \A q \in Process : Stands(Q[q], D)
  BY <1>1, <1>3, <1>4
<1> QED
  BY <1>3, <1>5 DEF ProcOK, Q

LEMMA DoneSafe ==
    ASSUME Inv, NEW p \in Process, NEW heals, proc[p].todo # <<>>, Done(p, heals),
           db.tables => db'.tables, db.home => db'.home, db.version => db'.version,
           Head(proc[p].todo).put = "tables" => db'.tables,
           Head(proc[p].todo).put = "home" => db'.home
    PROVE  ProcOK(proc', db') /\ disturbed' \subseteq Kind
<1> DEFINE rest == Tail(proc[p].todo)
           clean == proc[p].clean \cap KindsIn(rest)
<1>1. clean \in SUBSET Kind
  BY DEF Inv, ProcOK, ProcessRecord
<1>2. proc' = [proc EXCEPT ![p].todo = rest, ![p].clean = clean]
  BY DEF Done, Inv, ProcOK, ProcessRecord
<1>3. disturbed' \subseteq Kind
  BY DEF Done, Inv, TypeOK
<1> HIDE DEF clean
<1> QED
  BY <1>1, <1>2, <1>3, RestSafe DEF Inv

\* A callback begins.
LEMMA BeginSafe ==
    ASSUME Inv, NEW P \in [Process -> ProcessRecord], NEW p \in Process,
           \A q \in Process \ {p} : Stands(P[q], db),
           NEW work \in Seq(Statement), NEW spoilt \in SUBSET Kind,
           P[p].run = "starting" => OnTheWay(work, db),
           P[p].run # "starting" => work \in Seq(Recording),
           P[p].run = "up" => Complete(db),
           BeginSpoilt(P, p, work, spoilt)
    PROVE  ProcOK(proc', db) /\ disturbed' \subseteq Kind
<1> DEFINE mixed == (UNION {KindsIn(P[q].todo) : q \in Process \ {p}}) \cap KindsIn(work)
<1>1. KindsIn(work) \subseteq Kind /\ mixed \subseteq Kind
  BY KindsTyped
<1> HIDE DEF mixed
<1>2. /\ proc' = [q \in Process |->
            IF q = p THEN [P[q] EXCEPT !.todo = work,
                                       !.clean = KindsIn(work) \ (mixed \cup spoilt)]
            ELSE [P[q] EXCEPT !.clean = @ \ mixed]]
      /\ disturbed' = disturbed \cup (mixed \ {"file"}) \cup spoilt
  BY DEF BeginSpoilt, mixed
<1>3. proc' \in [Process -> ProcessRecord]
  BY <1>1, <1>2 DEF ProcessRecord
<1>4. /\ \A q \in Process : proc'[q].run = P[q].run
      /\ proc'[p].todo = work
      /\ \A q \in Process \ {p} : proc'[q].todo = P[q].todo
  BY <1>2 DEF ProcessRecord
<1>5. \A q \in Process : Stands(proc'[q], db)
  BY <1>4 DEF Stands
<1>6. disturbed' \subseteq Kind
  BY <1>1, <1>2 DEF Inv, TypeOK
<1> QED
  BY <1>3, <1>5, <1>6 DEF ProcOK

LEMMA AgesTyped ==
    /\ \A s \in Stamp : Oldest(s) \in Nat
    /\ TypeOK => \A stamps \in SUBSET Stamp :
         /\ DOMAIN Renew(stamps) = Stamp
         /\ \A s \in Stamp : Renew(stamps)[s] \in 0..Oldest(s) \cup {NULL}
<1>1. \A s \in Stamp : Oldest(s) \in Nat
  BY TimesAssumption DEF Oldest
<1> QED
  BY <1>1 DEF TypeOK, Renew

\* What a step has to show once it is known what becomes of the processes.
LEMMA StepSafe ==
    ASSUME Inv, ProcOK(proc', db'), disturbed' \subseteq Kind,
           db' \in Database, db'.version => Complete(db'),
           age' = age \/ \E stamps \in SUBSET Stamp : age' = Renew(stamps),
           conn' \in [Conn -> ConnRecord], UNCHANGED <<usable, setting>>,
           truth' \in [what : Data \cup {NULL}, opts : SUBSET Option],
           faults' \in 0..MaxFaults
    PROVE  Inv'
<1>1. DOMAIN age' = Stamp /\ \A s \in Stamp : age'[s] \in 0..Oldest(s) \cup {NULL}
  BY AgesTyped DEF Inv, TypeOK
<1>2. proc' \in [Process -> ProcessRecord]
  BY DEF ProcOK
<1>3. (\A s \in Stamp : age[s] \in 0..Oldest(s) \cup {NULL})'
  BY <1>1 DEF Oldest
<1>4. TypeOK'
  BY <1>1, <1>2, <1>3 DEF Inv, TypeOK
<1>5. ProcOK(proc, db)' /\ (db.version => Complete(db))'
  BY DEF ProcOK, Stands, OnTheWay, Complete
<1> QED
  BY <1>4, <1>5 DEF Inv

\* A statement is executed.
LEMMA StatementSafe ==
    ASSUME Inv, NEW p \in Process, NEW heals, proc[p].todo # <<>>, Done(p, heals),
           NEW stamps \in SUBSET Stamp, age' = Renew(stamps), db' \in Database,
           db.tables => db'.tables, db.home => db'.home, db.version => db'.version,
           Head(proc[p].todo).put = "tables" => db'.tables,
           Head(proc[p].todo).put = "home" => db'.home,
           db'.version => Complete(db'),
           UNCHANGED <<conn, usable, setting, truth, faults>>
    PROVE  Inv'
<1>1. ProcOK(proc', db') /\ disturbed' \subseteq Kind
  BY DoneSafe
<1>2. /\ conn' \in [Conn -> ConnRecord]
      /\ truth' \in [what : Data \cup {NULL}, opts : SUBSET Option]
      /\ faults' \in 0..MaxFaults
  BY DEF Inv, TypeOK
<1> QED
  BY <1>1, <1>2, StepSafe

LEMMA CreationSafe ==
    ASSUME Inv, NEW p \in Process,
           CreateFile(p) \/ DefineTables(p) \/ InsertHome(p) \/ InsertVersion(p)
    PROVE  Inv'
<1> DEFINE h == Head(proc[p].todo)
<1>1. db \in Database /\ (db.version => Complete(db)) /\ {} \in SUBSET Stamp
  BY DEF Inv, TypeOK
<1>2. CASE CreateFile(p)
  <2>1. /\ proc[p].todo # <<>> /\ h.put = "create" /\ Done(p, TRUE) /\ age' = Renew({})
        /\ db' = [db EXCEPT !.exists = TRUE]
        /\ UNCHANGED <<conn, usable, setting, truth, faults>>
    BY <1>2 DEF CreateFile, NextIs, Writes
  <2>2. db' \in Database /\ db'.tables = db.tables /\ db'.home = db.home
        /\ db'.version = db.version
    BY <1>1, <2>1 DEF Database
  <2> QED
    BY <1>1, <2>1, <2>2, StatementSafe DEF Complete
<1>3. CASE DefineTables(p)
  <2>1. /\ proc[p].todo # <<>> /\ h.put = "tables" /\ Done(p, TRUE) /\ age' = Renew({})
        /\ db' = [db EXCEPT !.tables = TRUE]
        /\ UNCHANGED <<conn, usable, setting, truth, faults>>
    BY <1>3 DEF DefineTables, NextIs, Writes
  <2>2. db' \in Database /\ db'.tables /\ db'.home = db.home /\ db'.version = db.version
    BY <1>1, <2>1 DEF Database
  <2> QED
    BY <1>1, <2>1, <2>2, StatementSafe DEF Complete
<1>4. CASE InsertHome(p)
  <2>1. /\ proc[p].todo # <<>> /\ h.put = "home" /\ Done(p, TRUE) /\ age' = Renew({})
        /\ db' = [db EXCEPT !.home = TRUE]
        /\ UNCHANGED <<conn, usable, setting, truth, faults>>
    BY <1>4 DEF InsertHome, NextIs, Writes
  <2>2. db' \in Database /\ db'.tables = db.tables /\ db'.home /\ db'.version = db.version
    BY <1>1, <2>1 DEF Database
  <2> QED
    BY <1>1, <2>1, <2>2, StatementSafe DEF Complete
<1>5. CASE InsertVersion(p)
  <2>1. /\ proc[p].todo # <<>> /\ h.put = "version" /\ Done(p, TRUE) /\ age' = Renew({})
        /\ db' = [db EXCEPT !.version = TRUE]
        /\ UNCHANGED <<conn, usable, setting, truth, faults>>
    BY <1>5 DEF InsertVersion, NextIs, Writes
  <2>2. db' \in Database /\ db'.tables = db.tables /\ db'.home = db.home /\ db'.version
    BY <1>1, <2>1 DEF Database
  <2>3. db.tables /\ db.home
    BY <2>1, NextStatement DEF Inv
  <2> QED
    BY <1>1, <2>1, <2>2, <2>3, StatementSafe DEF Complete
<1> QED
  BY <1>2, <1>3, <1>4, <1>5

\* The value of a statement that records something fits its column.
LEMMA ValueTyped ==
    ASSUME Inv, NEW p \in Process, proc[p].todo # <<>>,
           Head(proc[p].todo).put \notin FilePut
    PROVE  Head(proc[p].todo) \in Recording /\ Fits(Head(proc[p].todo))
<1>1. proc[p].run # "starting"
  BY NextStatement DEF Inv
<1> QED
  BY <1>1, NextStatement, RecordingTypes DEF Inv

LEMMA RecordSafe ==
    ASSUME Inv, NEW p \in Process,
           \/ UpdateLastMssp(p) \/ UpdateGameUpdated(p) \/ UpdateNames(p)
           \/ ClearTelopts(p) \/ UpdateTelopt(p)
           \/ UpsertStatus(p) \/ UpsertStatusSince(p) \/ UpsertGreeting(p)
    PROVE  Inv'
<1> DEFINE h == Head(proc[p].todo)
<1>1. db \in Database /\ (db.version => Complete(db))
  BY DEF Inv, TypeOK
<1>2. /\ proc[p].todo # <<>> /\ \E heals : Done(p, heals)
      /\ \E stamps \in SUBSET Stamp : age' = Renew(stamps)
      /\ h.put \notin FilePut
      /\ UNCHANGED <<conn, usable, setting, truth, faults>>
  BY DEF UpdateLastMssp, UpdateGameUpdated, UpdateNames, ClearTelopts, UpdateTelopt,
         UpsertStatus, UpsertStatusSince, UpsertGreeting, NextIs, Writes, FilePut, Stamp
<1>3. Fits(h)
  BY <1>2, ValueTyped
<1>4. /\ db' \in Database
      /\ db'.tables = db.tables /\ db'.home = db.home /\ db'.version = db.version
  <2>1. CASE UpdateNames(p)
    BY <1>1, <1>3, <2>1 DEF UpdateNames, NextIs, Writes, Val, Fits, Database
  <2>2. CASE ClearTelopts(p)
    BY <1>1, <2>2, BoundsAssumption DEF ClearTelopts, Writes, Database
  <2>3. CASE UpdateTelopt(p)
    <3>1. h.val \in Option
      BY <1>3, <2>3 DEF UpdateTelopt, NextIs, Fits
    <3>2. db' = [db EXCEPT !.telopts =
                   [db.telopts EXCEPT ![h.val] = IF @ < Many THEN @ + 1 ELSE @]]
      BY <1>1, <2>3 DEF UpdateTelopt, Writes, Val, Database
    <3>3. [db.telopts EXCEPT ![h.val] = IF @ < Many THEN @ + 1 ELSE @]
            \in [Option -> 0..Many]
      BY <1>1, <3>1, BoundsAssumption DEF Database
    <3> QED
      BY <1>1, <3>2, <3>3 DEF Database
  <2>4. CASE UpsertStatus(p) \/ UpsertStatusSince(p)
    BY <1>1, <1>3, <2>4 DEF UpsertStatus, UpsertStatusSince, NextIs, Writes, Val, Fits,
       Database
  <2>5. CASE UpsertGreeting(p)
    BY <1>1, <2>5 DEF UpsertGreeting, Writes, Database
  <2>6. CASE UpdateLastMssp(p) \/ UpdateGameUpdated(p)
    BY <1>1, <2>6 DEF UpdateLastMssp, UpdateGameUpdated, Writes
  <2> QED
    BY <2>1, <2>2, <2>3, <2>4, <2>5, <2>6
<1>5. h.put # "tables" /\ h.put # "home" /\ (db'.version => Complete(db'))
  BY <1>1, <1>2, <1>4 DEF FilePut, Complete
<1> HIDE DEF h
<1> QED
  BY <1>2, <1>4, <1>5, StatementSafe DEF h

LEMMA InsertMsspSafe ==
    ASSUME Inv, NEW p \in Process, InsertMssp(p)
    PROVE  Inv'
<1> DEFINE h == Head(proc[p].todo)
           tied == age["created"] = 0
           clean == IF tied THEN proc[p].clean \ {"mssp"} ELSE proc[p].clean
<1>1. /\ db \in Database /\ (db.version => Complete(db))
      /\ proc[p].todo # <<>> /\ h.put = "insert" /\ h.put \notin FilePut
  BY DEF Inv, TypeOK, InsertMssp, NextIs, FilePut
<1>2. h.val \in Data
  BY <1>1, ValueTyped DEF Fits
<1>3. /\ db' \in Database
      /\ db'.tables = db.tables /\ db'.home = db.home /\ db'.version = db.version
  BY <1>1, <1>2 DEF InsertMssp, Writes, Val, Database
<1>4. ProcOK(proc', db')
  <2>1. clean \in SUBSET Kind
    BY DEF Inv, ProcOK, ProcessRecord
  <2>2. proc' = [proc EXCEPT ![p].todo = Tail(proc[p].todo), ![p].clean = clean]
    BY DEF InsertMssp, Inv, ProcOK, ProcessRecord
  <2> HIDE DEF clean
  <2> QED
    BY <1>1, <1>3, <2>1, <2>2, RestSafe DEF Inv
<1>5. disturbed' \subseteq Kind
  BY DEF InsertMssp, Inv, TypeOK, Kind
<1>6. \E stamps \in SUBSET Stamp : age' = Renew(stamps)
  BY DEF InsertMssp, Writes, Stamp
<1>7. /\ truth' \in [what : Data \cup {NULL}, opts : SUBSET Option]
      /\ conn' \in [Conn -> ConnRecord] /\ faults' \in 0..MaxFaults
      /\ UNCHANGED <<usable, setting>>
  BY <1>2 DEF InsertMssp, Val, Inv, TypeOK
<1>8. db'.version => Complete(db')
  BY <1>1, <1>3 DEF Complete
<1> QED
  BY <1>3, <1>4, <1>5, <1>6, <1>7, <1>8, StepSafe

LEMMA FailStatementSafe ==
    ASSUME Inv, NEW p \in Process, FailStatement(p)
    PROVE  Inv'
<1> DEFINE h == Head(proc[p].todo)
           ends == h.kind = "mssp" \/ h.put \in {"create", "tables", "home"}
           clean == proc[p].clean \ {h.kind}
<1>1. /\ db \in Database /\ (db.version => Complete(db)) /\ proc[p].todo # <<>>
      /\ ProcOK(proc, db) /\ UNCHANGED <<db, age, conn, usable, setting, truth>>
      /\ proc' = [proc EXCEPT
               ![p] = IF h.put \in {"create", "tables"} THEN Off
                      ELSE [proc[p] EXCEPT
                              !.todo = IF ends THEN <<>> ELSE Tail(proc[p].todo),
                              !.clean = clean]]
  BY DEF Inv, TypeOK, FailStatement, ProcOK, ProcessRecord
<1>2. h \in Statement
  BY <1>1, NextStatement
<1>3. clean \in SUBSET Kind
  BY DEF Inv, ProcOK, ProcessRecord
<1>4. ProcOK(proc', db')
  <2>1. CASE h.put \in {"create", "tables"} \/ ends
    <3> DEFINE r == IF h.put \in {"create", "tables"} THEN Off
                    ELSE [proc[p] EXCEPT !.todo = <<>>, !.clean = clean]
    <3>1. proc' = [proc EXCEPT ![p] = r]
      BY <1>1, <2>1 DEF ProcOK, ProcessRecord
    <3>2. r \in ProcessRecord /\ Stands(r, db)
      <4>1. <<>> \in Seq(Recording) /\ <<>> \in Seq(Statement)
        OBVIOUS
      <4> HIDE DEF clean
      <4> QED
        BY <1>1, <1>3, <4>1 DEF ProcOK, ProcessRecord, Off, Stands, OnTheWay
    <3> HIDE DEF r
    <3> QED
      BY <1>1, <3>1, <3>2 DEF ProcOK
  <2>2. CASE ~(h.put \in {"create", "tables"} \/ ends)
    <3>1. proc' = [proc EXCEPT ![p].todo = Tail(proc[p].todo), ![p].clean = clean]
      BY <1>1, <2>2 DEF ProcOK, ProcessRecord
    <3> HIDE DEF clean
    <3> QED
      BY <1>1, <1>3, <2>2, <3>1, RestSafe
  <2> QED
    BY <2>1, <2>2
<1>5. disturbed' \subseteq Kind
  BY <1>2 DEF FailStatement, Inv, TypeOK, Statement
<1>6. faults' \in 0..MaxFaults
  BY BoundsAssumption DEF FailStatement, Inv, TypeOK
<1> QED
  BY <1>1, <1>4, <1>5, <1>6, StepSafe DEF Inv, TypeOK

LEMMA SqlStepSafe ==
    ASSUME Inv, NEW p \in Process, SqlStep(p)
    PROVE  Inv'
  BY CreationSafe, RecordSafe, InsertMsspSafe, FailStatementSafe DEF SqlStep

-----------------------------------------------------------------------------
(* Processes *)

LEMMA StartSafe ==
    ASSUME Inv, NEW p \in Process, Start(p)
    PROVE  Inv'
<1> DEFINE P == [proc EXCEPT ![p].run = "starting"]
           work == IF db.exists THEN <<>> ELSE Creation
<1>1. /\ proc \in [Process -> ProcessRecord] /\ \A q \in Process : Stands(proc[q], db)
      /\ BeginSpoilt(P, p, work, {}) /\ UNCHANGED <<db, age, conn, usable, setting, truth, faults>>
  BY DEF Inv, ProcOK, Start
<1>2. /\ P \in [Process -> ProcessRecord] /\ P[p].run = "starting"
      /\ \A q \in Process \ {p} : P[q] = proc[q]
  BY <1>1 DEF ProcessRecord
<1>3. work \in Seq(Statement) /\ OnTheWay(work, db)
  BY CreationSteps DEF OnTheWay
<1> HIDE DEF P, work
<1>4. \A q \in Process \ {p} : Stands(P[q], db)
  BY <1>1, <1>2
<1>5. {} \in SUBSET Kind
  OBVIOUS
<1>6. ProcOK(proc', db) /\ disturbed' \subseteq Kind
  BY <1>1, <1>2, <1>3, <1>4, <1>5, BeginSafe
<1> QED
  BY <1>1, <1>6, StepSafe DEF Inv, TypeOK

LEMMA OpenSafe ==
    ASSUME Inv, NEW p \in Process, Open(p)
    PROVE  Inv'
<1>1. /\ proc[p].todo = <<>> /\ UNCHANGED <<db, age, conn, usable, setting, truth, disturbed, faults>>
      /\ ProcOK(proc, db)
  BY DEF Open, Inv
<1>2. VersionFound => Complete(db)
  BY DEF VersionFound, Inv
<1> DEFINE r == IF VersionFound THEN [proc[p] EXCEPT !.run = "up"] ELSE Off
<1>3. proc' = [proc EXCEPT ![p] = r]
  BY DEF Open, Inv, ProcOK, ProcessRecord
<1>4. r \in ProcessRecord /\ Stands(r, db)
  <2>1. <<>> \in Seq(Recording) /\ <<>> \in Seq(Statement)
    OBVIOUS
  <2> QED
    BY <1>1, <1>2, <2>1 DEF ProcOK, ProcessRecord, Off, Stands
<1> HIDE DEF r
<1>5. ProcOK(proc', db')
  BY <1>1, <1>3, <1>4 DEF ProcOK
<1> QED
  BY <1>1, <1>5, StepSafe DEF Inv, TypeOK

\* A process that is off has nothing left to do.
LEMMA OffSafe ==
    ASSUME Inv, NEW p \in Process
    PROVE  ProcOK([proc EXCEPT ![p] = Off], db)
<1>1. <<>> \in Seq(Recording) /\ <<>> \in Seq(Statement)
  OBVIOUS
<1>2. Off \in ProcessRecord /\ Stands(Off, db)
  BY <1>1 DEF Off, ProcessRecord, Stands
<1> QED
  BY <1>2 DEF Inv, ProcOK

LEMMA FreeTyped == Free \in ConnRecord
  BY DEF Free, ConnRecord, ScanStatus

LEMMA CrashSafe ==
    ASSUME Inv, NEW p \in Process, Crash(p)
    PROVE  Inv'
<1>1. /\ proc' = [proc EXCEPT ![p] = Off]
      /\ UNCHANGED <<db, age, usable, setting, truth>>
  BY DEF Crash
<1>2. ProcOK(proc', db')
  BY <1>1, OffSafe
<1>3. conn' \in [Conn -> ConnRecord]
  BY FreeTyped DEF Crash, Inv, TypeOK
<1>4. disturbed' \subseteq Kind
  <2>1. KindsIn(proc[p].todo) \subseteq Kind
    BY KindsTyped DEF Inv, ProcOK, ProcessRecord
  <2> QED
    BY <2>1 DEF Crash, Inv, TypeOK, Kind
<1>5. faults' \in 0..MaxFaults
  BY BoundsAssumption DEF Crash, Inv, TypeOK
<1> QED
  BY <1>1, <1>2, <1>3, <1>4, <1>5, StepSafe DEF Inv, TypeOK

-----------------------------------------------------------------------------
(* Connections *)

LEMMA ConnectHostTyped ==
    ASSUME Inv, NEW c \in Conn, NEW was \in ScanStatus, ConnectHost(c, was)
    PROVE  conn' \in [Conn -> ConnRecord] /\ faults' \in 0..MaxFaults
<1>1. conn \in [Conn -> ConnRecord] /\ faults \in 0..MaxFaults
  BY DEF Inv, TypeOK
<1>2. /\ [Free EXCEPT !.st = "lost"] \in ConnRecord
      /\ \A known \in BOOLEAN, request \in BOOLEAN :
            Connecting(known, request, was) \in ConnRecord
  BY DEF Free, Connecting, ConnRecord, ScanStatus
<1>3. ShouldRequest \subseteq BOOLEAN
  BY DEF ShouldRequest, Younger
<1>4. \E r \in ConnRecord : conn' = [conn EXCEPT ![c] = r]
  BY <1>2, <1>3 DEF ConnectHost
<1>5. faults' = faults \/ (faults < MaxFaults /\ faults' = faults + 1)
  BY DEF ConnectHost
<1> QED
  BY <1>1, <1>4, <1>5, BoundsAssumption

\* The list of the scanner is no matter of the statements.
LEMMA ListSafe ==
    ASSUME Inv, NEW p \in Process, NEW Q, Q \in [Process -> ProcessRecord],
           \A q \in Process : Q[q].run = proc[q].run /\ Q[q].todo = proc[q].todo
    PROVE  ProcOK(Q, db)
  BY DEF Inv, ProcOK, Stands

LEMMA JoinSafe ==
    ASSUME Inv, NEW c \in Conn, Join(c)
    PROVE  Inv'
<1>1. conn' \in [Conn -> ConnRecord] /\ faults' \in 0..MaxFaults
  BY ConnectHostTyped DEF Join, ScanStatus
<1>2. UNCHANGED <<db, age, proc, usable, setting, truth, disturbed>>
  BY DEF Join
<1> QED
  BY <1>1, <1>2, StepSafe DEF Inv, TypeOK

LEMMA ScannerSafe ==
    ASSUME Inv, NEW p \in Process, List(p) \/ Dispatch(p)
    PROVE  Inv'
<1>1. proc \in [Process -> ProcessRecord] /\ db.status \in ScanStatus
  BY DEF Inv, TypeOK, ProcOK, Database
<1>2. CASE List(p)
  <2>1. UNCHANGED <<db, age, conn, usable, setting, truth, disturbed>>
    BY <1>2 DEF List
  <2>2. faults' \in 0..MaxFaults
    BY <1>2, BoundsAssumption DEF List, Inv, TypeOK
  <2>3. /\ proc' \in [Process -> ProcessRecord]
        /\ \A q \in Process : proc'[q].run = proc[q].run /\ proc'[q].todo = proc[q].todo
    <3> DEFINE only == p = "forced"
    <3>1. only \in BOOLEAN
      OBVIOUS
    <3>2. \E tbd \in ScanStatus \cup {NULL} :
            proc' = [proc EXCEPT ![p].tbd = tbd, ![p].listed = only]
      <4>1. CASE proc' = [proc EXCEPT ![p].tbd = LastStatus, ![p].listed = only]
        BY <1>1, <4>1 DEF LastStatus
      <4>2. CASE proc' = [proc EXCEPT ![p].listed = only]
        <5>1. proc[p].tbd \in ScanStatus \cup {NULL}
          BY <1>1 DEF ProcessRecord
        <5> HIDE DEF only
        <5>2. proc' = [proc EXCEPT ![p].tbd = proc[p].tbd, ![p].listed = only]
          BY <1>1, <4>2 DEF ProcessRecord
        <5> QED
          BY <5>1, <5>2
      <4> QED
        BY <1>2, <4>1, <4>2 DEF List
    <3>3. PICK tbd \in ScanStatus \cup {NULL}, b \in BOOLEAN :
            proc' = [proc EXCEPT ![p].tbd = tbd, ![p].listed = b]
      BY ONLY <3>1, <3>2, Zenon
    <3> QED
      BY <1>1, <3>3 DEF ProcessRecord
  <2>4. ProcOK(proc', db')
    BY <2>1, <2>3, ListSafe
  <2> QED
    BY <2>1, <2>2, <2>4, StepSafe DEF Inv, TypeOK
<1>3. CASE Dispatch(p)
  <2>1. UNCHANGED <<db, age, usable, setting, truth, disturbed>>
    BY <1>3 DEF Dispatch
  <2>2. ScanOf(p) \in Conn /\ proc[p].tbd \in ScanStatus
    BY <1>1, <1>3 DEF Dispatch, ScanOf, Conn, ProcessRecord
  <2>3. conn' \in [Conn -> ConnRecord] /\ faults' \in 0..MaxFaults
    BY <1>3, <2>2, ConnectHostTyped DEF Dispatch
  <2>4. /\ proc' \in [Process -> ProcessRecord]
        /\ \A q \in Process : proc'[q].run = proc[q].run /\ proc'[q].todo = proc[q].todo
    BY <1>1, <1>3 DEF Dispatch, ProcessRecord
  <2>5. ProcOK(proc', db')
    BY <2>1, <2>4, ListSafe
  <2> QED
    BY <2>1, <2>3, <2>5, StepSafe DEF Inv, TypeOK
<1> QED
  BY <1>2, <1>3

LEMMA EndSafe ==
    ASSUME Inv, End
    PROVE  Inv'
<1>1. /\ proc' = [proc EXCEPT !["forced"] = Off] /\ conn' = [conn EXCEPT !["forced"] = Free]
      /\ UNCHANGED <<db, age, usable, setting, truth, disturbed, faults>>
  BY DEF End
<1>2. ProcOK(proc', db')
  BY <1>1, OffSafe DEF Process
<1>3. conn' \in [Conn -> ConnRecord]
  BY <1>1, FreeTyped DEF Inv, TypeOK
<1> QED
  BY <1>1, <1>2, <1>3, StepSafe DEF Inv, TypeOK

\* A callback of a process that is up, and has nothing else to do.
LEMMA CallbackSafe ==
    ASSUME Inv, NEW p \in Process, Idle(p), NEW work \in Seq(Recording),
           NEW spoilt \in SUBSET Kind, BeginSpoilt(proc, p, work, spoilt)
    PROVE  ProcOK(proc', db) /\ disturbed' \subseteq Kind
<1>1. proc \in [Process -> ProcessRecord] /\ \A q \in Process : Stands(proc[q], db)
  BY DEF Inv, ProcOK
<1>2. proc[p].run = "up" /\ Complete(db)
  BY <1>1 DEF Idle, Stands
<1>3. work \in Seq(Statement)
  BY RecordingIsStatement
<1> QED
  BY <1>1, <1>2, <1>3, BeginSafe

LEMMA OwnerTyped == \A c \in Conn : Owner(c) \in Process
  BY DEF Conn, Owner, Process

LEMMA OutdatedTyped == \A sc : Outdated(sc) \in SUBSET Kind
  BY DEF Outdated, Kind

LEMMA NothingToDo == <<>> \in Seq(Recording) /\ {} \in SUBSET Kind
  OBVIOUS

LEMMA ConnectionErrorSafe ==
    ASSUME Inv, NEW c \in Conn, ConnectionError(c)
    PROVE  Inv'
<1> DEFINE scanner == [conn[c] EXCEPT !.is = "NO_ANSWER"]
           work == Followed("scan", Finalize(scanner))
<1>1. conn \in [Conn -> ConnRecord] /\ Owner(c) \in Process /\ Idle(Owner(c))
      /\ UNCHANGED <<db, age, usable, setting, truth, faults>>
      /\ conn' = [conn EXCEPT ![c] = Free]
  BY OwnerTyped DEF Inv, TypeOK, ConnectionError
<1>2. work \in Seq(Recording) /\ Outdated(scanner) \in SUBSET Kind
  <2>1. scanner \in ConnRecord
    BY <1>1 DEF ConnRecord, ScanStatus
  <2> HIDE DEF scanner
  <2> QED
    BY <2>1, WorkTyped, OutdatedTyped DEF Kind
<1>3. \/ BeginSpoilt(proc, Owner(c), work, Outdated(scanner))
      \/ UNCHANGED <<proc, disturbed>>
  BY DEF ConnectionError
<1> HIDE DEF work, scanner
<1>4. ProcOK(proc', db') /\ disturbed' \subseteq Kind
  BY <1>1, <1>2, <1>3, CallbackSafe DEF Inv, TypeOK
<1>5. conn' \in [Conn -> ConnRecord]
  BY <1>1, FreeTyped
<1> QED
  BY <1>1, <1>4, <1>5, StepSafe DEF Inv, TypeOK

LEMMA ConnectedSafe ==
    ASSUME Inv, NEW c \in Conn, Connected(c)
    PROVE  Inv'
<1>1. /\ UNCHANGED <<db, proc, usable, setting, truth, disturbed, faults>>
      /\ \E stamps \in SUBSET Stamp : age' = Renew(stamps)
  BY DEF Connected, Stamp
<1>2. conn' \in [Conn -> ConnRecord]
  <2> DEFINE request == conn[c].request /\ "telopts" \in setting.kinds
             is == IF IsScan(c) THEN "APPROVED" ELSE conn[c].is
  <2>1. conn \in [Conn -> ConnRecord]
    BY DEF Inv, TypeOK
  <2>2. request \in BOOLEAN /\ is \in ScanStatus
    BY <2>1 DEF ConnRecord, ScanStatus
  <2>3. conn' = [conn EXCEPT ![c].st = "open", ![c].request = request, ![c].is = is]
    BY <2>1 DEF Connected, ConnRecord
  <2>4. PICK asks \in BOOLEAN, status \in ScanStatus :
          conn' = [conn EXCEPT ![c].st = "open", ![c].request = asks, ![c].is = status]
    BY ONLY <2>2, <2>3, Zenon
  <2> DEFINE r == [conn[c] EXCEPT !.st = "open", !.request = asks, !.is = status]
  <2>5. r \in ConnRecord
    BY <2>1 DEF ConnRecord
  <2>6. conn' = [conn EXCEPT ![c] = r]
    BY <2>1, <2>4 DEF ConnRecord
  <2> HIDE DEF r
  <2> QED
    BY <2>1, <2>5, <2>6
<1> QED
  BY <1>1, <1>2, StepSafe DEF Inv, TypeOK

LEMMA ReportMsspSafe ==
    ASSUME Inv, NEW c \in Conn, NEW what \in Data, ReportMssp(c, what)
    PROVE  Inv'
<1>1. Owner(c) \in Process /\ Idle(Owner(c))
      /\ UNCHANGED <<db, age, conn, usable, setting, truth>>
  BY OwnerTyped DEF ReportMssp
<1>2. Updates(what) \subseteq BOOLEAN
  BY DEF Updates
<1>3. \/ UNCHANGED <<proc, disturbed>>
      \/ \E news \in BOOLEAN, spoilt \in SUBSET Kind :
            BeginSpoilt(proc, Owner(c), Report(what, news), spoilt)
  BY <1>2 DEF ReportMssp, Begin, Kind
<1>4. ProcOK(proc', db') /\ disturbed' \subseteq Kind
  BY <1>1, <1>3, WorkTyped, CallbackSafe DEF Inv, TypeOK
<1>5. faults' \in 0..MaxFaults
  <2>1. faults' = faults \/ (faults < MaxFaults /\ faults' = faults + 1)
    BY DEF ReportMssp
  <2>2. faults \in 0..MaxFaults
    BY DEF Inv, TypeOK
  <2> QED
    BY <2>1, <2>2, BoundsAssumption
<1> QED
  BY <1>1, <1>4, <1>5, StepSafe DEF Inv, TypeOK

LEMMA ScanTimerSafe ==
    ASSUME Inv, NEW c \in Conn, ScanTimer(c)
    PROVE  Inv'
<1> DEFINE work == Followed("scan", Finalize(conn[c]))
<1>1. conn \in [Conn -> ConnRecord] /\ Owner(c) \in Process /\ Idle(Owner(c))
      /\ UNCHANGED <<db, age, usable, setting, truth, faults>>
      /\ BeginSpoilt(proc, Owner(c), work, Outdated(conn[c]))
  BY OwnerTyped DEF Inv, TypeOK, ScanTimer
<1>2. work \in Seq(Recording) /\ Outdated(conn[c]) \in SUBSET Kind
  BY <1>1, WorkTyped, OutdatedTyped DEF Kind
<1> HIDE DEF work
<1>3. ProcOK(proc', db') /\ disturbed' \subseteq Kind
  BY <1>1, <1>2, CallbackSafe
<1>4. conn' \in [Conn -> ConnRecord]
  BY <1>1 DEF ScanTimer, Free, ConnRecord, ScanStatus
<1> QED
  BY <1>1, <1>3, <1>4, StepSafe DEF Inv, TypeOK

LEMMA ClosedSafe ==
    ASSUME Inv, NEW c \in Conn, NEW opts \in SUBSET Option, Closed(c, opts)
    PROVE  Inv'
<1> DEFINE records == conn[c].request /\ conn[c].known
           ends == IsScan(c) /\ conn[c].st = "open"
           telopts == IF records THEN Followed("telopts", Telopts(SetToSeq(opts))) ELSE <<>>
           scan == IF ends THEN Followed("scan", Finalize(conn[c])) ELSE <<>>
           spoilt == IF ends THEN Outdated(conn[c]) ELSE {}
<1>1. conn \in [Conn -> ConnRecord] /\ Owner(c) \in Process /\ Idle(Owner(c))
      /\ UNCHANGED <<db, age, usable, setting, faults>>
      /\ BeginSpoilt(proc, Owner(c), telopts \o scan, spoilt)
      /\ conn' = [conn EXCEPT ![c] = Free]
  BY OwnerTyped DEF Inv, TypeOK, Closed
<1>2. telopts \in Seq(Recording)
  BY WorkTyped, NothingToDo DEF Kind
<1>3. scan \in Seq(Recording) /\ spoilt \in SUBSET Kind
  BY <1>1, WorkTyped, OutdatedTyped, NothingToDo DEF Kind
<1>4. truth' \in [what : Data \cup {NULL}, opts : SUBSET Option]
  BY DEF Closed, Inv, TypeOK
<1> HIDE DEF telopts, scan, spoilt
<1>5. telopts \o scan \in Seq(Recording)
  BY <1>2, <1>3
<1>6. ProcOK(proc', db') /\ disturbed' \subseteq Kind
  BY <1>1, <1>3, <1>5, CallbackSafe
<1>7. conn' \in [Conn -> ConnRecord]
  BY <1>1, FreeTyped
<1> QED
  BY <1>1, <1>4, <1>6, <1>7, StepSafe DEF Inv, TypeOK

LEMMA TickSafe ==
    ASSUME Inv, Tick
    PROVE  Inv'
<1>1. /\ age' = [s \in Stamp |-> IF Never(s) \/ age[s] = Oldest(s) THEN age[s] ELSE age[s] + 1]
      /\ UNCHANGED <<db, proc, conn, usable, setting, truth, disturbed, faults>>
  BY DEF Tick
<1>2. \A s \in Stamp : Oldest(s) \in Nat /\ age[s] \in 0..Oldest(s) \cup {NULL}
  BY AgesTyped DEF Inv, TypeOK
<1>3. DOMAIN age' = Stamp /\ \A s \in Stamp : age'[s] \in 0..Oldest(s) \cup {NULL}
  BY <1>1, <1>2 DEF Never
<1>4. (\A s \in Stamp : age[s] \in 0..Oldest(s) \cup {NULL})'
  BY <1>3 DEF Oldest
<1>5. TypeOK'
  BY <1>1, <1>3, <1>4 DEF Inv, TypeOK
<1>6. ProcOK(proc, db)' /\ (db.version => Complete(db))'
  BY <1>1 DEF Inv, ProcOK, Stands, OnTheWay, Complete
<1> QED
  BY <1>5, <1>6 DEF Inv

-----------------------------------------------------------------------------
LEMMA InitSafe == Init => Inv
<1> SUFFICES ASSUME Init PROVE Inv
  OBVIOUS
<1>1. db \in Database /\ ~db.version
  BY BoundsAssumption DEF Init, Database, ScanStatus
<1>2. (\A s \in Stamp : age[s] \in 0..Oldest(s) \cup {NULL}) /\ DOMAIN age = Stamp
  BY DEF Init
<1>3. <<>> \in Seq(Recording) /\ <<>> \in Seq(Statement)
  OBVIOUS
<1>4. Off \in ProcessRecord /\ Stands(Off, db)
  BY <1>3 DEF Off, ProcessRecord, Stands
<1>5. ProcOK(proc, db)
  BY <1>4 DEF Init, ProcOK
<1>6. conn \in [Conn -> ConnRecord]
  BY FreeTyped DEF Init
<1>7. TypeOK
  BY <1>1, <1>2, <1>5, <1>6, BoundsAssumption DEF Init, TypeOK, ProcOK
<1> QED
  BY <1>1, <1>5, <1>7 DEF Inv

LEMMA StutterSafe == Inv /\ UNCHANGED vars => Inv'
<1> SUFFICES ASSUME Inv, UNCHANGED vars PROVE Inv'
  OBVIOUS
<1>1. (\A s \in Stamp : age[s] \in 0..Oldest(s) \cup {NULL})'
  BY DEF Inv, TypeOK, Oldest, vars
<1>2. TypeOK'
  BY <1>1 DEF Inv, TypeOK, vars
<1>3. ProcOK(proc, db)' /\ (db.version => Complete(db))'
  BY DEF Inv, ProcOK, Stands, OnTheWay, Complete, vars
<1> QED
  BY <1>2, <1>3 DEF Inv

LEMMA NextSafe == Inv /\ [Next]_vars => Inv'
<1> SUFFICES ASSUME Inv, [Next]_vars PROVE Inv'
  OBVIOUS
<1>1. ASSUME NEW p \in Process, SqlStep(p) \/ Start(p) \/ Open(p) \/ Crash(p)
      PROVE  Inv'
  BY <1>1, SqlStepSafe, StartSafe, OpenSafe, CrashSafe
<1>2. ASSUME NEW p \in Process, List(p) \/ Dispatch(p)
      PROVE  Inv'
  BY <1>2, ScannerSafe
<1>3. CASE End
  BY <1>3, EndSafe
<1>4. ASSUME NEW c \in Conn, Join(c) \/ ConnectionError(c) \/ Connected(c) \/ Ends(c)
      PROVE  Inv'
  BY <1>4, JoinSafe, ConnectionErrorSafe, ConnectedSafe, ScanTimerSafe, ClosedSafe DEF Ends
<1>5. ASSUME NEW c \in Conn, NEW what \in Data, ReportMssp(c, what)
      PROVE  Inv'
  BY <1>5, ReportMsspSafe
<1>6. CASE Tick
  BY <1>6, TickSafe
<1>7. CASE UNCHANGED vars
  BY <1>7, StutterSafe
<1> QED
  BY <1>1, <1>2, <1>3, <1>4, <1>5, <1>6, <1>7 DEF Next

(* In every reachable state a starting process is at a point of the creation  *)
(* that the database's contents allow, one that runs has only records to     *)
(* write, and the version is in the database only if everything else is.     *)
THEOREM Invariant == Spec => []Inv
  BY InitSafe, NextSafe, PTL DEF Spec

\* The state is of the types given for it (module GameRecords).
THEOREM TypeCorrect == Spec => []TypeOK
<1>1. Inv => TypeOK
  BY DEF Inv
<1> QED
  BY <1>1, Invariant, PTL

(* No process runs on a database that lacks its tables, its version or the    *)
(* server's own game, whatever failed or crashed while two processes created *)
(* it (gamedb.c, locid.c).                                                   *)
THEOREM RunsOnCompleteHolds == Spec => []RunsOnComplete
<1>1. Inv => RunsOnComplete
  BY DEF Inv, ProcOK, Stands, Complete, RunsOnComplete
<1> QED
  BY <1>1, Invariant, PTL
=============================================================================
