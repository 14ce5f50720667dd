------------------------ MODULE GameDirectory_proofs ------------------------
(* Proofs about module GameDirectory, for any sessions, addresses, configu- *)
(* rations and bounds.                                                     *)
EXTENDS GameDirectory, TLAPS

(* The inductive invariant, on sessions S, a table D and the last ID n. It  *)
(* is a conjunction over the sessions, since what one session does touches  *)
(* another only through the table or by swapping games with it.            *)
Typed(S, D, n) ==
    /\ S \in [Session -> SessionRecord]
    /\ D \in [Ids -> Row \cup {NULL}]
    /\ n \in Ids

\* No row beyond the last ID given away, and the server's own game listed.
TableOK(D, n) ==
    /\ \A i \in Ids : i > n => D[i] = NULL
    /\ Rows(D, Default) # {}

(* A session's copy has an ID given away, and is of the session's game.  A  *)
(* browser's connection has a copy, for else a reconnect would leave        *)
(* another's behind.  What is checked was open when looked up, and what is  *)
(* open and connecting unchecked is the server's own game.                 *)
Copied(x, D, n) ==
    /\ x.entry # NULL => x.entry.id <= n
    /\ x.game.sock # "none" /\ x.entry # NULL /\ D[x.entry.id] # NULL
         => D[x.entry.id].addr = x.game.addr
    /\ x.game.sock # "none" /\ x.scan = "none" => x.entry # NULL

Gated(x) ==
    /\ x.game.sock # "none" => x.live
    /\ x.game.sock # "none" /\ x.game.check
         => x.entry # NULL /\ x.entry.status \in Open
    /\ x.game.st = "BLOCKING" => x.game.sock = "open" /\ x.game.check
    /\ /\ x.game.sock = "connecting" /\ ~x.game.check
       /\ x.scan = "none" /\ config.minProtocol
       => x.entry.status \notin Open \/ x.game.addr = Default
    /\ x.here => x.scan = "none"

Watched(x) ==
    x.scan = "running" /\ x.game.sock = "none"
    => Unusable # {} /\ x.game.addr = NULL

Inv(S, D, n) ==
    /\ Typed(S, D, n)
    /\ TableOK(D, n)
    /\ \A s \in Session : Copied(S[s], D, n) /\ Gated(S[s]) /\ Watched(S[s])

\* The rest of the state, which the sessions' steps leave to the others.
Rest == config \in Configs /\ tbd \subseteq Address /\ rulings \in 0..MaxRulings

IInv == Inv(sess, db, last) /\ Rest

-----------------------------------------------------------------------------
(* The table *)

\* What a step may do to the rows that others hold copies of.
Evolves(D, n, E, m) ==
    /\ n <= m
    /\ \A i \in Ids : i <= n /\ E[i] # NULL => D[i] # NULL /\ E[i].addr = D[i].addr

(* game_db_update_status changes the status of a row that is there, and     *)
(* nothing else.                                                           *)
LEMMA UpdateStatusKeeps ==
    ASSUME NEW D \in [Ids -> Row \cup {NULL}], NEW e \in Entry \cup {NULL},
           NEW status \in Status
    PROVE  LET E == UpdateStatus(D, e, status) IN
           /\ E \in [Ids -> Row \cup {NULL}]
           /\ \A i \in Ids :
                /\ E[i] = NULL <=> D[i] = NULL
                /\ E[i] # NULL => E[i].addr = D[i].addr
                /\ E[i] = D[i] \/ (/\ D[i] # NULL /\ e # NULL
                                   /\ i = e.id /\ E[i].status = status)
<1>1. CASE e = NULL
  BY <1>1 DEF UpdateStatus
<1>2. CASE e # NULL
  <2> DEFINE E == UpdateStatus(D, e, status)
  <2>1. e.id \in Ids
    BY <1>2 DEF Entry
  <2>2. E = [D EXCEPT ![e.id] =
               IF D[e.id] = NULL THEN NULL ELSE [D[e.id] EXCEPT !.status = status]]
    BY <1>2 DEF UpdateStatus
  <2>3. ASSUME D[e.id] # NULL
        PROVE  /\ [D[e.id] EXCEPT !.status = status] \in Row
               /\ [D[e.id] EXCEPT !.status = status].addr = D[e.id].addr
               /\ [D[e.id] EXCEPT !.status = status].status = status
    BY <2>1, <2>3 DEF Row
  <2>4. CASE D[e.id] = NULL
    <3>1. E = D
      BY <2>1, <2>2, <2>4
    <3> QED
      BY <3>1
  <2>5. CASE D[e.id] # NULL
    BY <2>1, <2>2, <2>3, <2>5, <1>2, NullAssumption
  <2> QED
    BY <2>4, <2>5
<1> QED
  BY <1>1, <1>2

\* Such a change leaves a good table, and every copy as good as it was.
LEMMA SameRowsKeep ==
    ASSUME NEW D, NEW E, NEW n \in Ids, TableOK(D, n),
           \A i \in Ids : /\ E[i] = NULL <=> D[i] = NULL
                          /\ E[i] # NULL => E[i].addr = D[i].addr
    PROVE  TableOK(E, n) /\ Evolves(D, n, E, n)
BY DEF TableOK, Evolves, Rows, Ids

LEMMA EvolvesKeepsCopies ==
    ASSUME NEW D, NEW n \in Ids, NEW E, NEW m \in Ids, Evolves(D, n, E, m),
           NEW x \in SessionRecord, Copied(x, D, n)
    PROVE  Copied(x, E, m)
<1>1. CASE x.entry = NULL
  BY <1>1 DEF Copied
<1>2. CASE x.entry # NULL
  <2>1. x.entry.id \in Ids /\ x.entry.id <= n
    BY <1>2 DEF Copied, SessionRecord, Entry
  <2> QED
    BY <1>2, <2>1 DEF Copied, Evolves, Ids
<1> QED
  BY <1>1, <1>2

\* game_db_gamelookup returns the id and the status of a row of that address.
LEMMA LookupFinds ==
    ASSUME NEW D \in [Ids -> Row \cup {NULL}], NEW a
    PROVE  /\ Lookup(D, a) \in Entry \cup {NULL}
           /\ Lookup(D, a) = NULL <=> Rows(D, a) = {}
           /\ Lookup(D, a) # NULL =>
                LET i == Lookup(D, a).id IN
                /\ i \in Ids /\ D[i] # NULL
                /\ D[i].addr = a /\ D[i].status = Lookup(D, a).status
<1>1. CASE Rows(D, a) = {}
  BY <1>1 DEF Lookup
<1>2. CASE Rows(D, a) # {}
  <2>1. PICK i \in Rows(D, a) : Lookup(D, a) = [id |-> i, status |-> D[i].status]
    BY <1>2 DEF Lookup
  <2>2. i \in Ids /\ D[i] # NULL /\ D[i].addr = a /\ D[i] \in Row
    BY <2>1 DEF Rows
  <2>3. Lookup(D, a) \in Entry
    BY <2>1, <2>2 DEF Row, Entry
  <2> QED
    BY <1>2, <2>1, <2>2, <2>3, NullAssumption
<1> QED
  BY <1>1, <1>2

-----------------------------------------------------------------------------
(* The operators on sessions *)

LEMMA FreeIsGood ==
    ASSUME NEW D, NEW n \in Ids
    PROVE  /\ FreeSession \in SessionRecord /\ NewGame \in Game
           /\ Copied(FreeSession, D, n) /\ Gated(FreeSession) /\ Watched(FreeSession)
BY DEF FreeSession, NewGame, SessionRecord, Game, Copied, Gated, Watched

(* All is well with the sessions, except that s may be a running scan that  *)
(* has just lost its socket, or has not got one yet.                       *)
AllBut(S, D, n, s) ==
    \A t \in Session :
        Copied(S[t], D, n) /\ Gated(S[t]) /\ (t # s => Watched(S[t]))

\* loci_proxy_shutdown ends a scan in every case, so that nothing waits for it.
LEMMA ShutdownKeeps ==
    ASSUME NEW S \in [Session -> SessionRecord], NEW D, NEW n \in Ids,
           NEW s \in Session, AllBut(S, D, n, s)
    PROVE  /\ Shutdown(S, s) \in [Session -> SessionRecord]
           /\ \A t \in Session : /\ Copied(Shutdown(S, s)[t], D, n)
                                 /\ Gated(Shutdown(S, s)[t])
                                 /\ Watched(Shutdown(S, s)[t])
<1> DEFINE U == Shutdown(S, s)
           sc == IF S[s].scan = "running" THEN "done" ELSE S[s].scan
           x1 == [S[s] EXCEPT !.scan = sc, !.game = [S[s].game EXCEPT !.st = "CLOSING"]]
           x2 == [S[s] EXCEPT !.scan = sc]
<1>1. S[s] \in SessionRecord /\ S[s].game \in Game
  BY DEF SessionRecord
<1>2. x1 \in SessionRecord /\ x2 \in SessionRecord
  BY <1>1 DEF SessionRecord, Game
<1>3. /\ Copied(S[s], D, n) /\ Gated(S[s])
      /\ Copied(FreeSession, D, n) /\ Gated(FreeSession) /\ Watched(FreeSession)
      /\ FreeSession \in SessionRecord
  BY FreeIsGood DEF AllBut
<1>4. Copied(x1, D, n) /\ Gated(x1) /\ Watched(x1)
  BY <1>1, <1>3 DEF Copied, Gated, Watched, SessionRecord, Game
<1>5. Copied(x2, D, n) /\ Gated(x2) /\ Watched(x2)
  BY <1>1, <1>3 DEF Copied, Gated, Watched, SessionRecord, Game
<1>6. /\ U \in {[S EXCEPT ![s] = x1], [S EXCEPT ![s] = x2], [S EXCEPT ![s] = FreeSession]}
  BY <1>1 DEF Shutdown, SessionRecord, Game
<1>7. ASSUME NEW x \in {x1, x2, FreeSession}
      PROVE  /\ [S EXCEPT ![s] = x] \in [Session -> SessionRecord]
             /\ \A t \in Session : [S EXCEPT ![s] = x][t] = IF t = s THEN x ELSE S[t]
  BY <1>2, <1>3
<1>8. ASSUME NEW x \in {x1, x2, FreeSession}, U = [S EXCEPT ![s] = x]
      PROVE  /\ U \in [Session -> SessionRecord]
             /\ \A t \in Session : Copied(U[t], D, n) /\ Gated(U[t]) /\ Watched(U[t])
  <2>1. Copied(x, D, n) /\ Gated(x) /\ Watched(x)
    BY <1>3, <1>4, <1>5
  <2>2. ASSUME NEW t \in Session
        PROVE  Copied(U[t], D, n) /\ Gated(U[t]) /\ Watched(U[t])
    BY <1>7, <1>8, <2>1 DEF AllBut
  <2> QED
    BY <1>7, <1>8, <2>2
<1> HIDE DEF x1, x2
<1> QED
  BY <1>6, <1>8

(* A failed attempt: whatever copy the session has, its socket is gone and  *)
(* it is shut down.                                                        *)
LEMMA ConnectFailedKeeps ==
    ASSUME NEW S, NEW D, NEW n, NEW s \in Session,
           Typed(S, D, n), TableOK(D, n),
           \A t \in Session \ {s} : Copied(S[t], D, n) /\ Gated(S[t]) /\ Watched(S[t]),
           S[s].entry # NULL => S[s].entry.id <= n,
           S[s].here => S[s].scan = "none",
           ConnectFailed(S, D, n, s)
    PROVE  Inv(sess', db', last') /\ db' = Unanswered(D, S[s].entry)
<1> DEFINE E == Unanswered(D, S[s].entry)
           N == NoSocket(S, s)
           x == [S[s] EXCEPT !.game = [S[s].game EXCEPT !.sock = "none", !.st = "IDLE"]]
<1>1. /\ sess' = Shutdown(N, s) /\ db' = E /\ last' = n
  BY DEF ConnectFailed, Becomes
<1>2. /\ S \in [Session -> SessionRecord] /\ D \in [Ids -> Row \cup {NULL}]
      /\ n \in Ids
      /\ S[s] \in SessionRecord /\ S[s].game \in Game /\ S[s].entry \in Entry \cup {NULL}
  BY DEF Typed, SessionRecord
<1>3. /\ E \in [Ids -> Row \cup {NULL}]
      /\ \A i \in Ids : /\ E[i] = NULL <=> D[i] = NULL
                        /\ E[i] # NULL => E[i].addr = D[i].addr
  BY <1>2, UpdateStatusKeeps DEF Unanswered, Status
<1>4. TableOK(E, n) /\ Evolves(D, n, E, n)
  BY <1>2, <1>3, SameRowsKeep
<1>5. N = [S EXCEPT ![s] = x]
  BY <1>2 DEF NoSocket, SessionRecord, Game
<1>6. x \in SessionRecord
  BY <1>2 DEF SessionRecord, Game
<1>7. Copied(x, E, n) /\ Gated(x)
  BY <1>2 DEF Copied, Gated, SessionRecord, Game
<1> HIDE DEF x, N, E
<1>8. ASSUME NEW t \in Session
      PROVE  Copied(N[t], E, n) /\ Gated(N[t]) /\ (t # s => Watched(N[t]))
  <2>1. CASE t = s
    BY <1>2, <1>5, <1>7, <2>1
  <2>2. CASE t # s
    <3>1. N[t] = S[t] /\ S[t] \in SessionRecord
      BY <1>2, <1>5, <2>2
    <3> QED
      BY <1>2, <1>4, <2>2, <3>1, EvolvesKeepsCopies
  <2> QED
    BY <2>1, <2>2
<1>9. N \in [Session -> SessionRecord] /\ AllBut(N, E, n, s)
  BY <1>2, <1>5, <1>6, <1>8 DEF AllBut
<1> QED
  BY <1>1, <1>2, <1>3, <1>4, <1>9, ShutdownKeeps DEF Inv, Typed, E

(* What the program may do to rows without having asked the game anything:  *)
(* record that a game that was not checked yet did not answer.             *)
Quiet(D, E) ==
    \A i \in Ids : D[i] # NULL =>
        E[i] = D[i] \/ (D[i].status = "NOT_CHECKED" /\ E[i].status = "NO_ANSWER")

(* A connection is begun with a fresh copy.  The hypotheses are what the    *)
(* callers see to: a browser's game is listed, and checked if it is open.  *)
LEMMA ConnectHostKeeps ==
    ASSUME NEW S, NEW D, NEW n, NEW s \in Session, NEW a \in Address,
           Typed(S, D, n), TableOK(D, n), AllBut(S, D, n, s),
           S[s].live, S[s].game.sock = "none",
           a \in Unusable => Watched(S[s]),
           S[s].scan = "none" => Rows(D, a) # {},
           S[s].game.check => Lookup(D, a) # NULL /\ Lookup(D, a).status \in Open,
           ~S[s].game.check /\ S[s].scan = "none" /\ config.minProtocol
             => Lookup(D, a).status \notin Open \/ a = Default,
           ConnectHost(S, D, n, s, a)
    PROVE  Inv(sess', db', last') /\ Quiet(D, db')
<1> DEFINE e == Lookup(D, a)
           y == [S[s] EXCEPT !.entry = e, !.game = [S[s].game EXCEPT !.addr = a]]
           z == [S[s] EXCEPT !.entry = e,
                             !.game = [S[s].game EXCEPT !.addr = a, !.sock = "connecting",
                                                        !.st = "CONNECTING"]]
           T == [S EXCEPT ![s].entry = Lookup(D, a), ![s].game.addr = a]
           Z == [T EXCEPT ![s].game.sock = "connecting", ![s].game.st = "CONNECTING"]
<1>1. /\ S \in [Session -> SessionRecord] /\ D \in [Ids -> Row \cup {NULL}]
      /\ n \in Ids
      /\ S[s] \in SessionRecord /\ S[s].game \in Game
  BY DEF Typed, SessionRecord
<1>2. /\ e \in Entry \cup {NULL}
      /\ e # NULL => /\ e.id \in Ids /\ e.id <= n /\ D[e.id] # NULL
                     /\ D[e.id].addr = a /\ D[e.id].status = e.status
      /\ e = NULL <=> Rows(D, a) = {}
  <2>1. ASSUME e # NULL
        PROVE  e.id \in Ids /\ D[e.id] # NULL
    BY <1>1, <2>1, LookupFinds
  <2>2. ASSUME e # NULL
        PROVE  e.id <= n
    BY <1>1, <2>1, <2>2 DEF TableOK, Ids
  <2> HIDE DEF e
  <2> QED
    BY <1>1, <2>1, <2>2, LookupFinds DEF e
<1>3. T = [S EXCEPT ![s] = y] /\ Z = [S EXCEPT ![s] = z]
  <2>1. T = [S EXCEPT ![s] = y]
    BY <1>1 DEF SessionRecord, Game
  <2>2. Z = [S EXCEPT ![s] = [y EXCEPT !.game = [y.game EXCEPT !.sock = "connecting",
                                                            !.st = "CONNECTING"]]]
    <3> HIDE DEF y, T
    <3>1. T[s] = y
      BY <1>1, <2>1
    <3>2. Z = [T EXCEPT ![s] = [T[s] EXCEPT !.game =
                 [T[s].game EXCEPT !.sock = "connecting", !.st = "CONNECTING"]]]
      OBVIOUS
    <3> DEFINE q == [y EXCEPT !.game = [y.game EXCEPT !.sock = "connecting",
                                                      !.st = "CONNECTING"]]
    <3>3. Z = [T EXCEPT ![s] = q]
      BY <3>1, <3>2
    <3> HIDE DEF q, Z
    <3>4. Z = [S EXCEPT ![s] = q]
      BY <1>1, <2>1, <3>3
    <3> QED
      BY <3>4 DEF q
  <2>3. z = [y EXCEPT !.game = [y.game EXCEPT !.sock = "connecting",
                                            !.st = "CONNECTING"]]
    BY <1>1 DEF SessionRecord, Game
  <2> QED
    BY <2>1, <2>2, <2>3
<1>4. y \in SessionRecord /\ z \in SessionRecord
  BY <1>1, <1>2 DEF SessionRecord, Game
<1>5. CASE a \in Unusable /\ Becomes(S, D, n)
  BY <1>1, <1>5 DEF Becomes, Inv, AllBut, Quiet
<1>6. CASE a \notin Unusable /\ ConnectFailed(T, D, n, s)
  <2>1. T[s] = y /\ T \in [Session -> SessionRecord]
    BY <1>1, <1>3, <1>4
  <2>2. \A t \in Session \ {s} : T[t] = S[t]
    BY <1>1, <1>3
  <2>3. y.entry = e /\ y.here = S[s].here /\ y.scan = S[s].scan
    BY <1>1 DEF SessionRecord
  <2>4. S[s].here => S[s].scan = "none"
    BY DEF AllBut, Gated
  <2> HIDE DEF e, y, T
  <2>5. Inv(sess', db', last') /\ db' = Unanswered(D, e)
    BY <1>1, <1>2, <1>6, <2>1, <2>2, <2>3, <2>4, ConnectFailedKeeps DEF Typed, AllBut
  <2>6. Quiet(D, db')
    <3>1. CASE StatusOf(e) # "NOT_CHECKED"
      BY <2>5, <3>1 DEF Unanswered, Quiet
    <3>2. CASE StatusOf(e) = "NOT_CHECKED"
      <4>1. e # NULL /\ e.status = "NOT_CHECKED"
        BY <3>2 DEF StatusOf
      <4>2. db' = UpdateStatus(D, e, "NO_ANSWER")
        BY <2>5, <3>2 DEF Unanswered
      <4> QED
        BY <1>1, <1>2, <4>1, <4>2, UpdateStatusKeeps DEF Quiet, Status
    <3> QED
      BY <3>1, <3>2
  <2> QED
    BY <2>5, <2>6
<1>7. CASE a \notin Unusable /\ Becomes(Z, D, n)
  <2>1. Gated(S[s])
    BY DEF AllBut
  <2>2. Copied(z, D, n) /\ Watched(z)
    BY <1>1, <1>2 DEF Copied, Watched, SessionRecord, Game
  <2>3. Gated(z)
    BY <1>1, <1>2, <2>1 DEF Gated, SessionRecord, Game
  <2> HIDE DEF z
  <2>4. ASSUME NEW t \in Session
        PROVE  Copied(Z[t], D, n) /\ Gated(Z[t]) /\ Watched(Z[t])
    BY <1>1, <1>3, <2>2, <2>3 DEF AllBut
  <2> QED
    BY <1>1, <1>3, <1>4, <1>7, <2>4 DEF Becomes, Inv, Typed, Quiet
<1> QED
  BY <1>5, <1>6, <1>7 DEF ConnectHost

\* security_require, for a session that is about to connect.
LEMMA SecurityRequireKeeps ==
    ASSUME NEW S \in [Session -> SessionRecord], NEW D, NEW n \in Ids,
           NEW s \in Session, NEW c \in BOOLEAN,
           AllBut(S, D, n, s), S[s].game.sock = "none"
    PROVE  LET R == SecurityRequire(S, s, c) IN
           /\ R \in [Session -> SessionRecord] /\ AllBut(R, D, n, s)
           /\ R[s].live = S[s].live /\ R[s].here = S[s].here
           /\ R[s].scan = S[s].scan /\ (R[s].game.check <=> c)
           /\ R[s].game.sock = "none"
<1> DEFINE R == SecurityRequire(S, s, c)
           x == [S[s] EXCEPT !.game = [S[s].game EXCEPT !.check = c]]
<1>1. S[s] \in SessionRecord /\ S[s].game \in Game
  BY DEF SessionRecord
<1>2. R = [S EXCEPT ![s] = x]
  BY <1>1 DEF SecurityRequire, SessionRecord, Game
<1>3. /\ x \in SessionRecord /\ x.live = S[s].live /\ x.here = S[s].here
      /\ x.scan = S[s].scan /\ x.game.check = c /\ x.game.sock = "none"
  BY <1>1 DEF SessionRecord, Game
<1>4. Copied(x, D, n) /\ Gated(x)
  BY <1>1 DEF AllBut, Copied, Gated, SessionRecord, Game
<1> HIDE DEF x, R
<1>5. ASSUME NEW t \in Session
      PROVE  Copied(R[t], D, n) /\ Gated(R[t]) /\ (t # s => Watched(R[t]))
  BY <1>2, <1>4 DEF AllBut
<1> QED
  BY <1>2, <1>3, <1>5 DEF AllBut, R

\* The request is served for a browser's session that has no socket.
Serves(S, D, n, s) ==
    /\ Typed(S, D, n) /\ TableOK(D, n) /\ AllBut(S, D, n, s)
    /\ S[s].live /\ S[s].here /\ S[s].game.sock = "none"
    /\ config \in Configs

LEMMA DefaultKeeps ==
    ASSUME NEW S, NEW D, NEW n, NEW s \in Session, Serves(S, D, n, s),
           ConnectHost(SecurityRequire(S, s, FALSE), D, n, s, Default)
    PROVE  Inv(sess', db', last') /\ Quiet(D, db')
<1> DEFINE R == SecurityRequire(S, s, FALSE)
<1>1. /\ Typed(R, D, n) /\ AllBut(R, D, n, s) /\ R[s].live
      /\ ~R[s].game.check /\ R[s].game.sock = "none"
  BY SecurityRequireKeeps DEF Serves, Typed
<1>2. Rows(D, Default) # {} /\ TableOK(D, n)
  BY DEF Serves, TableOK
<1> HIDE DEF R
<1>3. ConnectHost(R, D, n, s, Default)
  BY DEF R
<1> QED
  BY <1>1, <1>2, <1>3, ConnectHostKeeps, AddressAssumption

LEMMA AdmitKeeps ==
    ASSUME NEW S, NEW D, NEW n, NEW s \in Session, NEW a \in Address, NEW status,
           Serves(S, D, n, s),
           \/ status = "BANNED"
           \/ Rows(D, a) # {} /\ status = Lookup(D, a).status,
           Admit(S, D, n, s, a, status)
    PROVE  Inv(sess', db', last') /\ Quiet(D, db')
<1>1. /\ S \in [Session -> SessionRecord] /\ n \in Ids
      /\ D \in [Ids -> Row \cup {NULL}] /\ TableOK(D, n)
      /\ AllBut(S, D, n, s) /\ S[s].live /\ S[s].here
      /\ S[s].game.sock = "none"
  BY DEF Serves, Typed
<1>2. config.minProtocol \in BOOLEAN
  BY ConfigsAssumption DEF Serves
<1>3. S[s].scan = "none"
  BY <1>1 DEF AllBut, Gated
<1>4. ASSUME NEW c \in BOOLEAN, Rows(D, a) # {}, status = Lookup(D, a).status,
             c => status \in Open, ~c /\ config.minProtocol => status \notin Open,
             ConnectHost(SecurityRequire(S, s, c), D, n, s, a)
      PROVE  Inv(sess', db', last') /\ Quiet(D, db')
  <2> DEFINE R == SecurityRequire(S, s, c)
  <2>1. /\ R \in [Session -> SessionRecord] /\ AllBut(R, D, n, s) /\ R[s].live
        /\ (R[s].game.check <=> c) /\ R[s].game.sock = "none" /\ R[s].scan = "none"
    BY <1>1, <1>3, SecurityRequireKeeps
  <2>2. Lookup(D, a) # NULL
    BY <1>1, <1>4, LookupFinds
  <2> HIDE DEF R
  <2>3. ConnectHost(R, D, n, s, a)
    BY <1>4 DEF R
  <2>4. Watched(R[s]) /\ Typed(R, D, n)
    BY <1>1, <2>1 DEF Watched, Typed
  <2> QED
    BY <1>1, <1>4, <2>1, <2>2, <2>3, <2>4, ConnectHostKeeps
<1>5. CASE status \in Trusted
  <2>1. /\ status # "BANNED" /\ status \notin Open
        /\ ConnectHost(SecurityRequire(S, s, FALSE), D, n, s, a)
    BY <1>5 DEF Trusted, Open, Admit
  <2> QED
    BY <1>4, <2>1
<1>6. CASE status \in Open
  <2>1. /\ status # "BANNED" /\ status \notin Trusted
        /\ ConnectHost(SecurityRequire(S, s, config.minProtocol), D, n, s, a)
    BY <1>6 DEF Trusted, Open, Admit
  <2> QED
    BY <1>2, <1>4, <1>6, <2>1
<1>7. CASE status \notin Trusted /\ status \notin Open
  BY <1>7, DefaultKeeps DEF Admit
<1> QED
  BY <1>5, <1>6, <1>7

(* game_db_suggest.  A new row has an ID that nobody holds a copy of.       *)
LEMMA SuggestKeeps ==
    ASSUME NEW S, NEW s \in Session, NEW a \in Address, Serves(S, db, last, s),
           Suggest(S, s, a)
    PROVE  Inv(sess', db', last') /\ Quiet(db, db')
<1>1. /\ S \in [Session -> SessionRecord] /\ last \in Ids
      /\ db \in [Ids -> Row \cup {NULL}] /\ TableOK(db, last)
      /\ AllBut(S, db, last, s) /\ config \in Configs
  BY DEF Serves, Typed
<1>2. CASE Rows(db, a) # {}
  BY <1>2, AdmitKeeps DEF Suggest
<1>3. CASE Rows(db, a) = {} /\ config.suggestions = "BANNED"
  BY <1>3, AdmitKeeps DEF Suggest
<1>4. CASE Rows(db, a) = {} /\ config.suggestions # "BANNED"
  <2> DEFINE i == last + 1
             row == [addr |-> a, status |-> NewStatus(a)]
             E == [db EXCEPT ![i] = row]
  <2>1. i \in Ids /\ i > last /\ Admit(S, E, i, s, a, NewStatus(a))
    BY <1>1, <1>4 DEF Suggest, NewId, Ids
  <2>2. row \in Row /\ row # NULL
    <3>1. NewStatus(a) \in Status
      BY <1>1, ConfigsAssumption DEF NewStatus, Status
    <3> QED
      BY <3>1, NullAssumption DEF Row
  <2>3. db[i] = NULL
    BY <1>1, <2>1 DEF TableOK
  <2>4. /\ E \in [Ids -> Row \cup {NULL}] /\ E[i] = row
        /\ \A k \in Ids \ {i} : E[k] = db[k]
    BY <1>1, <2>1, <2>2
  <2>5. row.addr = a /\ row.status = NewStatus(a)
    OBVIOUS
  <2> HIDE DEF E, row
  <2>6. Lookup(E, a).status = NewStatus(a) /\ Rows(E, a) # {}
    <3>1. Rows(E, a) = {i}
      BY <1>4, <2>1, <2>2, <2>4, <2>5 DEF Rows
    <3>2. Lookup(E, a) = [id |-> i, status |-> E[i].status]
      BY <3>1 DEF Lookup
    <3> QED
      BY <2>4, <2>5, <3>1, <3>2
  <2>7. TableOK(E, i)
    <3>1. \A k \in Ids : k > i => E[k] = NULL
      BY <1>1, <2>1, <2>4 DEF TableOK, Ids
    <3>2. Rows(E, Default) # {}
      BY <1>1, <2>3, <2>4 DEF TableOK, Rows
    <3> QED
      BY <3>1, <3>2 DEF TableOK
  <2>8. Evolves(db, last, E, i)
    BY <1>1, <2>1, <2>4 DEF Evolves, Ids
  <2>9. AllBut(S, E, i, s)
    BY <1>1, <2>1, <2>8, EvolvesKeepsCopies DEF AllBut
  <2>10. Serves(S, E, i, s)
    BY <1>1, <2>1, <2>4, <2>7, <2>9 DEF Serves, Typed
  <2>11. Inv(sess', db', last') /\ Quiet(E, db')
    BY <2>1, <2>6, <2>10, AdmitKeeps
  <2> QED
    BY <2>1, <2>3, <2>4, <2>11 DEF Quiet
<1> QED
  BY <1>2, <1>3, <1>4

(* loci_connect_to_game_uuid.  The game that moves is a browser's and has a *)
(* socket, so there is a copy, which moves with it.                        *)
LEMMA TakeGameKeeps ==
    ASSUME NEW S, NEW s \in Session, NEW old \in Session \ {s},
           Serves(S, db, last, s), TakeGame(S, s, old)
    PROVE  Inv(sess', db', last') /\ Quiet(db, db')
<1> DEFINE xs == [S[s] EXCEPT !.game = S[old].game, !.entry = S[old].entry]
           xo == [S[old] EXCEPT !.game = S[s].game, !.entry = S[s].entry]
           T == [S EXCEPT ![s].game = S[old].game, ![old].game = S[s].game]
           U == SwapEntries(T, s, old)
<1>1. /\ S \in [Session -> SessionRecord] /\ last \in Ids
      /\ db \in [Ids -> Row \cup {NULL}] /\ TableOK(db, last)
      /\ AllBut(S, db, last, s) /\ S[s].live /\ S[s].here
      /\ S[s].game.sock = "none" /\ old # s
      /\ S[s] \in SessionRecord /\ S[old] \in SessionRecord
  BY DEF Serves, Typed
<1>2. /\ S[old].live /\ S[old].scan = "none" /\ S[old].game.sock # "none"
      /\ sess' = Shutdown(U, old) /\ db' = db /\ last' = last
  BY DEF TakeGame, Becomes
<1>3. S[old].entry # NULL /\ S[s].scan = "none"
  BY <1>1, <1>2 DEF AllBut, Copied, Gated
<1>4. U = [S EXCEPT ![s] = xs, ![old] = xo]
  <2>1. /\ T[old].entry = S[old].entry /\ T[s].entry = S[s].entry
        /\ T = [S EXCEPT ![s] = [S[s] EXCEPT !.game = S[old].game],
                         ![old] = [S[old] EXCEPT !.game = S[s].game]]
    BY <1>1 DEF SessionRecord
  <2>2. U = [T EXCEPT ![s] = [T[s] EXCEPT !.entry = T[old].entry],
                      ![old] = [T[old] EXCEPT !.entry = T[s].entry]]
    <3> HIDE DEF T
    <3>1. T[old].entry # NULL
      BY <1>3, <2>1
    <3> QED
      BY <3>1, <1>1 DEF SwapEntries
  <2>3. /\ T[s] = [S[s] EXCEPT !.game = S[old].game]
        /\ T[old] = [S[old] EXCEPT !.game = S[s].game]
    BY <1>1, <2>1
  <2> HIDE DEF T
  <2> QED
    BY <1>1, <2>1, <2>2, <2>3 DEF SessionRecord
<1>5. xs \in SessionRecord /\ xo \in SessionRecord
  BY <1>1 DEF SessionRecord
<1>6. Copied(xs, db, last) /\ Gated(xs) /\ Watched(xs)
  BY <1>1, <1>2, <1>3 DEF AllBut, Copied, Gated, Watched, SessionRecord
<1>7. Copied(xo, db, last) /\ Gated(xo)
  BY <1>1, <1>2, <1>3 DEF AllBut, Copied, Gated, SessionRecord
<1> HIDE DEF xs, xo, T, U
<1>8. U \in [Session -> SessionRecord] /\ AllBut(U, db, last, old)
  <2>1. ASSUME NEW t \in Session
        PROVE  Copied(U[t], db, last) /\ Gated(U[t]) /\ (t # old => Watched(U[t]))
    BY <1>1, <1>4, <1>6, <1>7 DEF AllBut
  <2> QED
    BY <1>1, <1>4, <1>5, <2>1 DEF AllBut
<1> QED
  BY <1>1, <1>2, <1>8, ShutdownKeeps DEF Inv, Typed, Quiet

LEMMA ConnectRequestedKeeps ==
    ASSUME NEW S, NEW s \in Session, Serves(S, db, last, s), ConnectRequested(S, s)
    PROVE  Inv(sess', db', last') /\ Quiet(db, db')
<1>1. CASE \E old \in Session \ {s} : TakeGame(S, s, old)
  BY <1>1, TakeGameKeeps
<1>2. CASE \E a \in Address : Suggest(S, s, a)
  BY <1>2, SuggestKeeps
<1>3. CASE ConnectHost(SecurityRequire(S, s, FALSE), db, last, s, Default)
  BY <1>3, DefaultKeeps
<1>4. CASE Becomes(S, db, last)
  BY <1>4 DEF Becomes, Serves, AllBut, Gated, Watched, Inv, Quiet
<1> QED
  BY <1>1, <1>2, <1>3, <1>4 DEF ConnectRequested

-----------------------------------------------------------------------------
(* The steps.  Each keeps the invariant, and has one of the effects that    *)
(* ApprovalEarned and BanSettles allow on every row.                       *)

Own(s, i) ==
    /\ sess[s].game.sock # "none" /\ sess[s].entry # NULL
    /\ sess[s].entry.id = i /\ sess[s].entry.status \in Open

Earned(s, i) ==
    /\ sess'[s].game.sock = "open" /\ sess'[s].game.st = "UP"
    /\ sess'[s].game.addr = db[i].addr
    /\ \/ ~config.minProtocol
       \/ sess[s].game.st = "BLOCKING"
       \/ sess[s].scan # "none"
       \/ db[i].addr = Default

Effect(s) ==
    \A i \in Ids : db[i] # NULL =>
        \/ db'[i] = db[i]
        \/ db[i].status = "NOT_CHECKED" /\ db'[i].status = "NO_ANSWER"
        \/ Own(s, i) /\ (db'[i].status # "APPROVED" \/ Earned(s, i))

LEMMA QuietEffect ==
    ASSUME NEW s, Quiet(db, db')
    PROVE  Effect(s)
BY DEF Quiet, Effect

LEMMA IInvFacts ==
    ASSUME IInv, NEW s \in Session
    PROVE  /\ sess \in [Session -> SessionRecord] /\ last \in Ids
           /\ db \in [Ids -> Row \cup {NULL}] /\ TableOK(db, last)
           /\ sess[s] \in SessionRecord /\ sess[s].game \in Game
           /\ sess[s].entry \in Entry \cup {NULL}
           /\ Copied(sess[s], db, last) /\ Gated(sess[s]) /\ Watched(sess[s])
           /\ AllBut(sess, db, last, s) /\ config \in Configs
BY DEF IInv, Inv, Typed, Rest, SessionRecord, AllBut

(* A step that changes one session to x, and the status of rows at most.    *)
LEMMA OneSession ==
    ASSUME IInv, NEW s \in Session, NEW x \in SessionRecord,
           NEW E \in [Ids -> Row \cup {NULL}],
           \A i \in Ids : /\ E[i] = NULL <=> db[i] = NULL
                          /\ E[i] # NULL => E[i].addr = db[i].addr,
           Copied(x, db, last), Gated(x), Watched(x),
           Becomes([sess EXCEPT ![s] = x], E, last)
    PROVE  Inv(sess', db', last')
<1>1. /\ sess' = [sess EXCEPT ![s] = x] /\ db' = E /\ last' = last
      /\ sess \in [Session -> SessionRecord] /\ last \in Ids
      /\ TableOK(db, last)
  BY IInvFacts DEF Becomes
<1>2. TableOK(E, last) /\ Evolves(db, last, E, last)
  BY <1>1, SameRowsKeep
<1>3. ASSUME NEW t \in Session
      PROVE  Copied(sess'[t], E, last) /\ Gated(sess'[t]) /\ Watched(sess'[t])
  <2>1. CASE t = s
    <3>1. sess'[t] = x
      BY <1>1, <2>1
    <3> QED
      BY <1>1, <1>2, <3>1, EvolvesKeepsCopies
  <2>2. CASE t # s
    <3>1. /\ sess'[t] = sess[t] /\ sess[t] \in SessionRecord
          /\ Copied(sess[t], db, last) /\ Gated(sess[t]) /\ Watched(sess[t])
      BY <1>1, <2>2, IInvFacts
    <3> QED
      BY <1>1, <1>2, <3>1, EvolvesKeepsCopies
  <2> QED
    BY <2>1, <2>2
<1> QED
  BY <1>1, <1>2, <1>3 DEF Inv, Typed

\* A step that leaves the table alone, and shuts s down after changing it to x.
LEMMA OneShutdown ==
    ASSUME IInv, NEW s \in Session, NEW x \in SessionRecord,
           Copied(x, db, last), Gated(x),
           Becomes(Shutdown([sess EXCEPT ![s] = x], s), db, last)
    PROVE  Inv(sess', db', last') /\ Effect(s)
<1> DEFINE N == [sess EXCEPT ![s] = x]
<1>1. N \in [Session -> SessionRecord] /\ N[s] = x
  BY IInvFacts
<1>2. AllBut(N, db, last, s)
  BY <1>1, IInvFacts DEF AllBut
<1> HIDE DEF N
<1>3. /\ sess' = Shutdown(N, s) /\ db' = db /\ last' = last
  BY DEF Becomes, N
<1>4. TableOK(db, last) /\ last \in Ids /\ db \in [Ids -> Row \cup {NULL}]
  BY IInvFacts
<1> QED
  BY <1>1, <1>2, <1>3, <1>4, ShutdownKeeps DEF Inv, Typed, Effect

\* What security_enforcement, a passed check and the like write to a row.
LEMMA OwnRowOnly ==
    ASSUME IInv, NEW s \in Session, NEW status \in Status,
           sess[s].game.sock # "none", sess[s].entry # NULL,
           sess[s].entry.status \in Open,
           db' = UpdateStatus(db, sess[s].entry, status),
           \/ status # "APPROVED"
           \/ /\ sess'[s].game.sock = "open" /\ sess'[s].game.st = "UP"
              /\ sess'[s].game.addr = sess[s].game.addr
              /\ \/ ~config.minProtocol \/ sess[s].game.st = "BLOCKING"
                 \/ sess[s].scan # "none" \/ sess[s].game.addr = Default
    PROVE  Effect(s)
<1> SUFFICES ASSUME NEW i \in Ids, db[i] # NULL, db'[i] # db[i]
             PROVE  Own(s, i) /\ (db'[i].status # "APPROVED" \/ Earned(s, i))
  BY DEF Effect
<1>1. i = sess[s].entry.id /\ db'[i].status = status
  BY IInvFacts, UpdateStatusKeeps
<1>2. db[i].addr = sess[s].game.addr
  BY <1>1, IInvFacts DEF Copied
<1>3. Own(s, i)
  BY <1>1 DEF Own
<1> QED
  BY <1>1, <1>2, <1>3 DEF Earned

LEMMA SameTable ==
    ASSUME IInv, db' = db, NEW s
    PROVE  Effect(s)
BY DEF Effect

LEMMA ArriveKeeps ==
    ASSUME IInv, NEW s \in Session, Arrive(s)
    PROVE  Inv(sess', db', last') /\ Effect(s)
<1> DEFINE x == NewSession(TRUE, "none")
<1>1. x \in SessionRecord /\ Copied(x, db, last) /\ Gated(x) /\ Watched(x)
  BY DEF NewSession, FreeSession, NewGame, SessionRecord, Game, Copied, Gated, Watched
<1>2. Becomes([sess EXCEPT ![s] = x], db, last) /\ db' = db
  BY DEF Arrive, Becomes
<1> HIDE DEF x
<1> QED
  BY <1>1, <1>2, OneSession, SameTable, IInvFacts

\* Only the state of the game changes, and not to BLOCKING.
LEMMA StateChange ==
    ASSUME IInv, NEW s \in Session,
           NEW st \in {"UP", "CLOSING", "RECONNECTING"},
           NEW E \in [Ids -> Row \cup {NULL}],
           \A i \in Ids : /\ E[i] = NULL <=> db[i] = NULL
                          /\ E[i] # NULL => E[i].addr = db[i].addr,
           Becomes([sess EXCEPT ![s].game.st = st], E, last)
    PROVE  Inv(sess', db', last')
<1> DEFINE x == [sess[s] EXCEPT !.game = [sess[s].game EXCEPT !.st = st]]
<1>1. x \in SessionRecord /\ Copied(x, db, last) /\ Gated(x) /\ Watched(x)
  BY IInvFacts DEF SessionRecord, Game, Copied, Gated, Watched
<1>2. [sess EXCEPT ![s].game.st = st] = [sess EXCEPT ![s] = x]
  BY IInvFacts DEF SessionRecord, Game
<1> HIDE DEF x
<1> QED
  BY <1>1, <1>2, OneSession

LEMMA ConnectKeeps ==
    ASSUME IInv, NEW s \in Session, Connect(s)
    PROVE  Inv(sess', db', last') /\ Effect(s)
<1>1. CASE sess[s].game.sock = "none"
  <2>1. ConnectRequested(sess, s) /\ sess[s].live /\ sess[s].here
    BY <1>1 DEF Connect
  <2>2. Serves(sess, db, last, s)
    BY <1>1, <2>1, IInvFacts DEF Serves, Typed
  <2> QED
    BY <2>1, <2>2, ConnectRequestedKeeps, QuietEffect
<1>2. CASE sess[s].game.sock # "none"
  <2>1. Becomes([sess EXCEPT ![s].game.st = "RECONNECTING"], db, last)
    BY <1>2 DEF Connect
  <2>2. db' = db
    BY <2>1 DEF Becomes
  <2> QED
    BY <2>1, <2>2, StateChange, SameTable, IInvFacts
<1> QED
  BY <1>1, <1>2

LEMMA DisconnectKeeps ==
    ASSUME IInv, NEW s \in Session, Disconnect(s)
    PROVE  Inv(sess', db', last') /\ Effect(s)
<1>1. Becomes([sess EXCEPT ![s].game.st = "CLOSING"], db, last)
  BY DEF Disconnect
<1>2. db' = db
  BY <1>1 DEF Becomes
<1> QED
  BY <1>1, <1>2, StateChange, SameTable, IInvFacts

LEMMA LeaveKeeps ==
    ASSUME IInv, NEW s \in Session, Leave(s)
    PROVE  Inv(sess', db', last') /\ Effect(s)
<1> DEFINE x == [sess[s] EXCEPT !.here = FALSE]
<1>1. x \in SessionRecord /\ Copied(x, db, last) /\ Gated(x)
  BY IInvFacts DEF SessionRecord, Copied, Gated
<1>2. Watched(x)
  BY IInvFacts DEF Leave, SessionRecord, Watched
<1>3. [sess EXCEPT ![s].here = FALSE] = [sess EXCEPT ![s] = x]
  BY IInvFacts DEF SessionRecord
<1> HIDE DEF x
<1>4. CASE sess[s].game.st = "IDLE"
  BY <1>1, <1>3, <1>4, OneShutdown DEF Leave
<1>5. CASE sess[s].game.st # "IDLE"
  <2>1. Becomes([sess EXCEPT ![s] = x], db, last) /\ db' = db
    BY <1>3, <1>5 DEF Leave, Becomes
  <2> QED
    BY <1>1, <1>2, <2>1, OneSession, SameTable, IInvFacts
<1> QED
  BY <1>4, <1>5

LEMMA ConnectionErrorKeeps ==
    ASSUME IInv, NEW s \in Session, ConnectionError(s)
    PROVE  Inv(sess', db', last') /\ Effect(s)
<1>1. ConnectFailed(sess, db, last, s) /\ sess[s].game.sock = "connecting"
  BY DEF ConnectionError
<1>2. Inv(sess', db', last') /\ db' = Unanswered(db, sess[s].entry)
  BY <1>1, IInvFacts, ConnectFailedKeeps DEF Typed, Copied, Gated, AllBut
<1>3. CASE StatusOf(sess[s].entry) # "NOT_CHECKED"
  BY <1>2, <1>3, SameTable DEF Unanswered
<1>4. CASE StatusOf(sess[s].entry) = "NOT_CHECKED"
  <2>1. /\ sess[s].entry # NULL /\ sess[s].entry.status \in Open
        /\ db' = UpdateStatus(db, sess[s].entry, "NO_ANSWER")
    BY <1>2, <1>4 DEF StatusOf, Unanswered, Open
  <2> QED
    BY <1>1, <1>2, <2>1, OwnRowOnly DEF Status
<1> QED
  BY <1>2, <1>3, <1>4

LEMMA ConnectedKeeps ==
    ASSUME IInv, NEW s \in Session, Connected(s)
    PROVE  Inv(sess', db', last') /\ Effect(s)
<1> DEFINE st == IF sess[s].game.check THEN "BLOCKING" ELSE "UP"
           x == [sess[s] EXCEPT !.game = [sess[s].game EXCEPT !.sock = "open", !.st = st]]
           E == IF ~sess[s].game.check /\ StatusOf(sess[s].entry) \in Open
                THEN UpdateStatus(db, sess[s].entry, "APPROVED") ELSE db
<1>1. /\ sess[s].game.sock = "connecting"
      /\ Becomes([sess EXCEPT ![s].game.sock = "open", ![s].game.st = st], E, last)
  BY DEF Connected
<1>2. st \in {"BLOCKING", "UP"} /\ (st = "BLOCKING" => sess[s].game.check)
  OBVIOUS
<1>3. x \in SessionRecord /\ x.game.sock = "open" /\ x.game.st = st
      /\ x.game.addr = sess[s].game.addr
  BY IInvFacts DEF SessionRecord, Game
<1> HIDE DEF st
<1>4. Copied(x, db, last) /\ Gated(x) /\ Watched(x)
  BY <1>1, <1>2, IInvFacts DEF SessionRecord, Game, Copied, Gated, Watched
<1>5. [sess EXCEPT ![s].game.sock = "open", ![s].game.st = st] = [sess EXCEPT ![s] = x]
  BY IInvFacts DEF SessionRecord, Game
<1> HIDE DEF x
<1>6. /\ E \in [Ids -> Row \cup {NULL}]
      /\ \A i \in Ids : /\ E[i] = NULL <=> db[i] = NULL
                        /\ E[i] # NULL => E[i].addr = db[i].addr
  BY IInvFacts, UpdateStatusKeeps DEF Status
<1>7. Inv(sess', db', last')
  <2> HIDE DEF E
  <2> QED
    BY <1>1, <1>3, <1>4, <1>5, <1>6, OneSession
<1>8. CASE ~sess[s].game.check /\ StatusOf(sess[s].entry) \in Open
  <2>1. sess[s].entry # NULL /\ sess[s].entry.status \in Open
    BY <1>8 DEF StatusOf, Open
  <2>2. db' = UpdateStatus(db, sess[s].entry, "APPROVED") /\ sess'[s] = x
    BY <1>1, <1>5, <1>8, IInvFacts DEF Becomes
  <2>3. st = "UP"
    BY <1>8 DEF st
  <2>4. \/ ~config.minProtocol \/ sess[s].scan # "none" \/ sess[s].game.addr = Default
    BY <1>1, <1>8, <2>1, IInvFacts DEF Gated
  <2> QED
    BY <1>1, <1>3, <1>7, <2>1, <2>2, <2>3, <2>4, OwnRowOnly DEF Status
<1>9. CASE ~(~sess[s].game.check /\ StatusOf(sess[s].entry) \in Open)
  <2>1. db' = db
    BY <1>1, <1>9 DEF Becomes
  <2> QED
    BY <1>7, <2>1, SameTable
<1> QED
  BY <1>7, <1>8, <1>9

LEMMA PassedKeeps ==
    ASSUME IInv, NEW s \in Session, Passed(s)
    PROVE  Inv(sess', db', last') /\ Effect(s)
<1> DEFINE x == [sess[s] EXCEPT !.game = [sess[s].game EXCEPT !.check = FALSE, !.st = "UP"]]
           E == UpdateStatus(db, sess[s].entry, "APPROVED")
<1>1. /\ sess[s].game.st = "BLOCKING"
      /\ Becomes([sess EXCEPT ![s].game.check = FALSE, ![s].game.st = "UP"], E, last)
  BY DEF Passed
<1>2. /\ sess[s].game.sock = "open"
      /\ sess[s].entry # NULL /\ sess[s].entry.status \in Open
  BY <1>1, IInvFacts DEF Gated
<1>3. x \in SessionRecord /\ x.game.sock = "open" /\ x.game.st = "UP"
      /\ x.game.addr = sess[s].game.addr
  BY <1>2, IInvFacts DEF SessionRecord, Game
<1>4. Copied(x, db, last) /\ Gated(x) /\ Watched(x)
  BY <1>2, IInvFacts DEF SessionRecord, Game, Copied, Gated, Watched
<1>5. [sess EXCEPT ![s].game.check = FALSE, ![s].game.st = "UP"] = [sess EXCEPT ![s] = x]
  BY IInvFacts DEF SessionRecord, Game
<1> HIDE DEF x
<1>6. /\ E \in [Ids -> Row \cup {NULL}]
      /\ \A i \in Ids : /\ E[i] = NULL <=> db[i] = NULL
                        /\ E[i] # NULL => E[i].addr = db[i].addr
  BY IInvFacts, UpdateStatusKeeps DEF Status
<1>7. db' = E /\ sess'[s] = x
  BY <1>1, <1>5, IInvFacts DEF Becomes
<1>8. Inv(sess', db', last')
  <2> HIDE DEF E
  <2> QED
    BY <1>1, <1>3, <1>4, <1>5, <1>6, OneSession
<1> QED
  BY <1>1, <1>2, <1>3, <1>7, <1>8, OwnRowOnly DEF Status

LEMMA DeadlineKeeps ==
    ASSUME IInv, NEW s \in Session, Deadline(s)
    PROVE  Inv(sess', db', last') /\ Effect(s)
<1> DEFINE E == UpdateStatus(db, sess[s].entry, "BAD_PROTOCOL")
<1>1. /\ sess[s].game.st = "BLOCKING"
      /\ Becomes([sess EXCEPT ![s].game.st = "CLOSING"], E, last)
  BY DEF Deadline
<1>2. /\ sess[s].game.sock = "open"
      /\ sess[s].entry # NULL /\ sess[s].entry.status \in Open
  BY <1>1, IInvFacts DEF Gated
<1>3. /\ E \in [Ids -> Row \cup {NULL}]
      /\ \A i \in Ids : /\ E[i] = NULL <=> db[i] = NULL
                        /\ E[i] # NULL => E[i].addr = db[i].addr
  BY IInvFacts, UpdateStatusKeeps DEF Status
<1>4. db' = E
  BY <1>1 DEF Becomes
<1>5. Inv(sess', db', last')
  <2> HIDE DEF E
  <2> QED
    BY <1>1, <1>3, StateChange
<1> QED
  BY <1>2, <1>4, <1>5, OwnRowOnly DEF Status

\* A socket that is gone frees its session from every obligation but a scan's.
LEMMA ClosedKeeps ==
    ASSUME IInv, NEW s \in Session, Closed(s)
    PROVE  Inv(sess', db', last') /\ Effect(s)
<1> DEFINE x == [sess[s] EXCEPT !.game = [sess[s].game EXCEPT !.sock = "none", !.st = "IDLE"]]
           y == [sess[s] EXCEPT !.game = NewGame]
           S == NoSocket(sess, s)
           open == sess[s].game.st = "BLOCKING" /\ StatusOf(sess[s].entry) \in Open
           E == IF open THEN UpdateStatus(db, sess[s].entry, "BAD_PROTOCOL") ELSE db
<1>1. S = [sess EXCEPT ![s] = x] /\ [S EXCEPT ![s].game = NewGame] = [sess EXCEPT ![s] = y]
  <2>1. S = [sess EXCEPT ![s] = x]
    BY IInvFacts DEF NoSocket, SessionRecord, Game
  <2>2. [x EXCEPT !.game = NewGame] = y
    BY IInvFacts DEF SessionRecord
  <2> HIDE DEF S, x, y
  <2> QED
    BY <2>1, <2>2, IInvFacts
<1>2. x \in SessionRecord /\ Copied(x, db, last) /\ Gated(x)
  BY IInvFacts DEF SessionRecord, Game, Copied, Gated
<1>3. y \in SessionRecord /\ Copied(y, db, last) /\ Gated(y) /\ y.game.sock = "none"
      /\ y.live = sess[s].live /\ y.here = sess[s].here
  BY IInvFacts, FreeIsGood DEF SessionRecord, NewGame, Copied, Gated
<1>4. CASE ~sess[s].here
  <2>1. Becomes(Shutdown(S, s), db, last)
    BY <1>4 DEF Closed
  <2> HIDE DEF x, S
  <2> QED
    BY <1>1, <1>2, <2>1, OneShutdown
<1>5. CASE sess[s].here /\ sess[s].game.st = "RECONNECTING"
  <2>1. ConnectRequested([sess EXCEPT ![s] = y], s) /\ sess[s].game.sock = "open"
    BY <1>1, <1>5 DEF Closed
  <2>2. sess[s].live
    BY <2>1, IInvFacts DEF Gated
  <2> HIDE DEF y
  <2>3. Serves([sess EXCEPT ![s] = y], db, last, s)
    <3>1. AllBut([sess EXCEPT ![s] = y], db, last, s)
      BY <1>3, IInvFacts DEF AllBut
    <3> QED
      BY <1>3, <1>5, <2>2, <3>1, IInvFacts DEF Serves, Typed
  <2> QED
    BY <2>1, <2>3, ConnectRequestedKeeps, QuietEffect
<1>6. CASE sess[s].here /\ sess[s].game.st # "RECONNECTING"
  <2>1. Becomes(S, E, last)
    BY <1>6 DEF Closed
  <2>2. Watched(x)
    BY <1>6, IInvFacts DEF Gated, Watched, SessionRecord
  <2>3. /\ E \in [Ids -> Row \cup {NULL}]
        /\ \A i \in Ids : /\ E[i] = NULL <=> db[i] = NULL
                          /\ E[i] # NULL => E[i].addr = db[i].addr
    BY IInvFacts, UpdateStatusKeeps DEF Status
  <2>4. db' = E
    BY <2>1 DEF Becomes
  <2>5. Inv(sess', db', last')
    <3> HIDE DEF E, x, S
    <3> QED
      BY <1>1, <1>2, <2>1, <2>2, <2>3, OneSession
  <2>6. CASE open
    <3>1. sess[s].game.sock = "open" /\ sess[s].entry # NULL /\ sess[s].entry.status \in Open
      BY <2>6 DEF Closed, StatusOf, Open
    <3> QED
      BY <2>4, <2>5, <2>6, <3>1, OwnRowOnly DEF Status
  <2>7. CASE ~open
    BY <2>4, <2>5, <2>7, SameTable
  <2> QED
    BY <2>6, <2>7
<1> QED
  BY <1>4, <1>5, <1>6

LEMMA ScanTimerKeeps ==
    ASSUME IInv, NEW s \in Session, ScanTimer(s)
    PROVE  Inv(sess', db', last') /\ Effect(s)
<1>1. Becomes(Shutdown([sess EXCEPT ![s] = sess[s]], s), db, last)
  BY IInvFacts DEF ScanTimer
<1> QED
  BY <1>1, IInvFacts, OneShutdown

LEMMA WatchdogKeeps ==
    ASSUME IInv, NEW s \in Session, Watchdog(s)
    PROVE  Inv(sess', db', last') /\ Effect(s)
<1>1. Becomes(Shutdown([sess EXCEPT ![s] = sess[s]], s), db, last)
  BY IInvFacts DEF Watchdog
<1> QED
  BY <1>1, IInvFacts, OneShutdown

\* A scan is dispatched with no check required, in a session of its own.
LEMMA ScannerMainKeeps ==
    ASSUME IInv, NEW s \in Session, ScannerMain(s)
    PROVE  Inv(sess', db', last') /\ Effect(s) /\ tbd' \subseteq Address
<1> DEFINE x == NewSession(FALSE, "running")
           S == [sess EXCEPT ![s] = x]
<1>0. PICK L \in (IF tbd = {} THEN ScanList ELSE {tbd}) :
        \E a \in L : tbd' = L \ {a} /\ ConnectHost(S, db, last, s, a)
  BY DEF ScannerMain
<1>1. PICK a \in L : tbd' = L \ {a} /\ ConnectHost(S, db, last, s, a)
  BY <1>0
<1>2. L \subseteq Address
  <2>1. \A i \in Ids : db[i] # NULL => db[i].addr \in Address
    BY IInvFacts DEF Row
  <2>2. ASSUME L \in ScanList
        PROVE  \A b \in L : \E i \in Ids : db[i] # NULL /\ b = db[i].addr
    <3>1. L \in SUBSET {db[i].addr : i \in Wanted} \/ L \in {{db[i].addr} : i \in {j \in Ids : db[j] # NULL}}
      BY <2>2 DEF ScanList
    <3>2. CASE L \in SUBSET {db[i].addr : i \in Wanted}
      BY <3>2 DEF Wanted
    <3>3. CASE L \in {{db[i].addr} : i \in {j \in Ids : db[j] # NULL}}
      BY <3>3
    <3> QED
      BY <3>1, <3>2, <3>3
  <2> QED
    BY <1>0, <2>1, <2>2 DEF IInv, Rest
<1>3. /\ x \in SessionRecord /\ x.live /\ x.game.sock = "none" /\ ~x.game.check
      /\ x.scan # "none" /\ x.game.addr = NULL
      /\ Copied(x, db, last) /\ Gated(x)
  BY DEF NewSession, FreeSession, NewGame, SessionRecord, Game, Copied, Gated
<1> HIDE DEF x
<1>4. S[s] = x /\ Typed(S, db, last) /\ AllBut(S, db, last, s)
  <2>1. S \in [Session -> SessionRecord] /\ S[s] = x
    BY <1>3, IInvFacts
  <2>2. ASSUME NEW t \in Session
        PROVE  Copied(S[t], db, last) /\ Gated(S[t]) /\ (t # s => Watched(S[t]))
    BY <1>3, IInvFacts
  <2> QED
    BY <2>1, <2>2, IInvFacts DEF Typed, AllBut
<1>5. a \in Unusable => Watched(x)
  BY <1>3 DEF Watched
<1> HIDE DEF S
<1>6. Inv(sess', db', last') /\ Quiet(db, db')
  BY <1>1, <1>2, <1>3, <1>4, <1>5, IInvFacts, ConnectHostKeeps
<1> QED
  BY <1>1, <1>2, <1>6, QuietEffect


\* The steps leave the configuration and the commands' count as they are.
LEMMA FrameKeeps ==
    ASSUME IInv, Inv(sess', db', last'), config' = config, rulings' = rulings,
           tbd' \subseteq Address
    PROVE  IInv'
<1>1. ASSUME NEW s \in Session
      PROVE  (Copied(sess[s], db, last) /\ Gated(sess[s]) /\ Watched(sess[s]))'
  BY DEF Inv, Copied, Gated, Watched
<1>2. Typed(sess, db, last)' /\ TableOK(db, last)'
  BY DEF Inv, Typed, TableOK, Rows
<1>3. Rest'
  BY DEF IInv, Rest
<1> QED
  BY <1>1, <1>2, <1>3 DEF IInv, Inv

LEMMA SessionStepKeeps ==
    ASSUME IInv, NEW s \in Session, SessionStep(s)
    PROVE  IInv' /\ Effect(s)
<1>1. CASE Arrive(s)
  BY <1>1, ArriveKeeps, FrameKeeps DEF IInv, Rest, Arrive
<1>2. CASE Connect(s)
  BY <1>2, ConnectKeeps, FrameKeeps DEF IInv, Rest, Connect
<1>3. CASE Disconnect(s)
  BY <1>3, DisconnectKeeps, FrameKeeps DEF IInv, Rest, Disconnect
<1>4. CASE Leave(s)
  BY <1>4, LeaveKeeps, FrameKeeps DEF IInv, Rest, Leave
<1>5. CASE ConnectionError(s)
  BY <1>5, ConnectionErrorKeeps, FrameKeeps DEF IInv, Rest, ConnectionError
<1>6. CASE Connected(s)
  BY <1>6, ConnectedKeeps, FrameKeeps DEF IInv, Rest, Connected
<1>7. CASE Passed(s)
  BY <1>7, PassedKeeps, FrameKeeps DEF IInv, Rest, Passed
<1>8. CASE Deadline(s)
  BY <1>8, DeadlineKeeps, FrameKeeps DEF IInv, Rest, Deadline
<1>9. CASE Closed(s)
  BY <1>9, ClosedKeeps, FrameKeeps DEF IInv, Rest, Closed
<1>10. CASE ScanTimer(s)
  BY <1>10, ScanTimerKeeps, FrameKeeps DEF IInv, Rest, ScanTimer
<1>11. CASE Watchdog(s)
  BY <1>11, WatchdogKeeps, FrameKeeps DEF IInv, Rest, Watchdog
<1>12. CASE ScannerMain(s)
  BY <1>12, ScannerMainKeeps, FrameKeeps DEF IInv, Rest, ScannerMain
<1> QED
  BY <1>1, <1>2, <1>3, <1>4, <1>5, <1>6, <1>7, <1>8, <1>9, <1>10, <1>11, <1>12
     DEF SessionStep

(* The administrator changes a status or deletes a row, whoever holds a     *)
(* copy of it: no copy says more of a row than its address.                *)
LEMMA AdminStepKeeps ==
    ASSUME IInv, NEW i \in Ids, AdminStep(i)
    PROVE  IInv' /\ rulings' # rulings
<1>1. /\ db \in [Ids -> Row \cup {NULL}] /\ last \in Ids /\ TableOK(db, last)
      /\ config \in Configs /\ tbd \subseteq Address /\ rulings \in Nat
      /\ sess \in [Session -> SessionRecord] /\ Inv(sess, db, last)
  BY BoundAssumption DEF IInv, Inv, Typed, Rest
<1>2. ASSUME NEW E \in [Ids -> Row \cup {NULL}], TableOK(E, last),
             Evolves(db, last, E, last), Becomes(sess, E, last),
             rulings < MaxRulings, rulings' = rulings + 1,
             UNCHANGED <<config, tbd>>
      PROVE  IInv' /\ rulings' # rulings
  <2>1. ASSUME NEW t \in Session
        PROVE  Copied(sess[t], E, last) /\ Gated(sess[t])' /\ Watched(sess[t])
    <3>1. Gated(sess[t]) /\ Watched(sess[t]) /\ Copied(sess[t], db, last)
      BY <1>1 DEF Inv
    <3>2. Copied(sess[t], E, last)
      BY <1>1, <1>2, <3>1, EvolvesKeepsCopies
    <3> QED
      BY <1>2, <3>1, <3>2 DEF Gated, Becomes
  <2>2. Rest' /\ rulings' # rulings
    BY <1>1, <1>2, BoundAssumption DEF Rest
  <2>3. /\ sess' = sess /\ db' = E /\ last' = last /\ Unusable' = Unusable
    BY <1>2 DEF Becomes
  <2> QED
    BY <1>1, <1>2, <2>1, <2>2, <2>3 DEF IInv, Inv, Typed, Watched
<1>3. ASSUME NEW status \in {"APPROVED", "BANNED", "REDACTED"}, Rule(i, status)
      PROVE  IInv' /\ rulings' # rulings
  <2> DEFINE E == [db EXCEPT ![i].status = status]
  <2>1. db[i] # NULL /\ db[i] \in Row
    BY <1>1, <1>3 DEF Rule
  <2>2. /\ [db[i] EXCEPT !.status = status] \in Row
        /\ [db[i] EXCEPT !.status = status].addr = db[i].addr
    BY <2>1 DEF Row, Status
  <2>3. E = [db EXCEPT ![i] = [db[i] EXCEPT !.status = status]]
    OBVIOUS
  <2>4. /\ E \in [Ids -> Row \cup {NULL}]
        /\ \A k \in Ids : /\ E[k] = NULL <=> db[k] = NULL
                          /\ E[k] # NULL => E[k].addr = db[k].addr
    BY <1>1, <2>1, <2>2, <2>3, NullAssumption
  <2>5. /\ Becomes(sess, E, last) /\ rulings < MaxRulings
        /\ rulings' = rulings + 1 /\ UNCHANGED <<config, tbd>>
    BY <1>3 DEF Rule
  <2> HIDE DEF E
  <2> QED
    BY <1>1, <1>2, <2>4, <2>5, SameRowsKeep
<1>4. ASSUME Delete(i)
      PROVE  IInv' /\ rulings' # rulings
  <2> DEFINE E == [db EXCEPT ![i] = NULL]
  <2>1. db[i] # NULL /\ db[i].addr # Default
    BY <1>4 DEF Delete
  <2>2. /\ E \in [Ids -> Row \cup {NULL}]
        /\ \A k \in Ids : E[k] = IF k = i THEN NULL ELSE db[k]
    BY <1>1
  <2>3. /\ Becomes(sess, E, last) /\ rulings < MaxRulings
        /\ rulings' = rulings + 1 /\ UNCHANGED <<config, tbd>>
    BY <1>4 DEF Delete
  <2> HIDE DEF E
  <2>4. TableOK(E, last) /\ Evolves(db, last, E, last)
    BY <1>1, <2>1, <2>2 DEF TableOK, Evolves, Rows, Ids
  <2> QED
    BY <1>2, <2>2, <2>3, <2>4
<1> QED
  BY <1>3, <1>4 DEF AdminStep

-----------------------------------------------------------------------------
(* The theorems *)

LEMMA InitKeeps ==
    ASSUME Init
    PROVE  IInv
<1>1. [addr |-> Default, status |-> "APPROVED"] \in Row
  BY AddressAssumption DEF Row, Status
<1>2. 1 \in Ids
  BY BoundAssumption DEF Ids
<1>3. /\ db \in [Ids -> Row \cup {NULL}] /\ last = 1
      /\ db[1] = [addr |-> Default, status |-> "APPROVED"]
      /\ \A i \in Ids : i # 1 => db[i] = NULL
  BY <1>1, <1>2 DEF Init
<1>4. TableOK(db, last)
  <2>1. 1 \in Rows(db, Default)
    BY <1>1, <1>2, <1>3, NullAssumption DEF Rows
  <2> QED
    BY <1>3, <2>1 DEF TableOK, Ids
<1>5. sess \in [Session -> SessionRecord] /\ \A s \in Session : sess[s] = FreeSession
  BY <1>2, FreeIsGood DEF Init
<1>6. Rest
  BY BoundAssumption DEF Init, Rest
<1>7. \A s \in Session : Copied(sess[s], db, last) /\ Gated(sess[s]) /\ Watched(sess[s])
  BY <1>2, <1>3, <1>5, FreeIsGood
<1> QED
  BY <1>2, <1>3, <1>4, <1>5, <1>6, <1>7 DEF IInv, Inv, Typed

LEMMA NextKeeps ==
    ASSUME IInv, [Next]_vars
    PROVE  IInv' /\ (rulings' # rulings \/ UNCHANGED vars \/ \E s \in Session : Effect(s))
<1>1. CASE UNCHANGED vars
  BY <1>1 DEF vars, IInv, Inv, Rest, Typed, TableOK, Rows, Copied, Gated, Watched
<1>2. ASSUME NEW s \in Session, SessionStep(s)
      PROVE  IInv' /\ Effect(s)
  BY <1>2, SessionStepKeeps
<1>3. ASSUME NEW i \in Ids, AdminStep(i)
      PROVE  IInv' /\ rulings' # rulings
  BY <1>3, AdminStepKeeps
<1> QED
  BY <1>1, <1>2, <1>3 DEF Next

LEMMA Always == Spec => []IInv
<1>1. Init => IInv
  BY InitKeeps
<1>2. IInv /\ [Next]_vars => IInv'
  BY NextKeeps
<1> QED
  BY <1>1, <1>2, PTL DEF Spec

(* Every variable keeps its type: the table, the copies and the list of     *)
(* addresses to scan.                                                      *)
THEOREM TypeCorrect == Spec => []TypeOK
<1>1. IInv => TypeOK
  BY DEF IInv, Inv, Typed, Rest, TypeOK
<1> QED
  BY <1>1, Always, PTL

(* A session's copy of a row is of the game the session is connected to     *)
(* (connect.c and game.c, through every swap and reconnect).                *)
THEOREM EntryMatchesHolds == Spec => []EntryMatches
<1>1. IInv => EntryMatches
  BY DEF IInv, Inv, Copied, EntryMatches
<1> QED
  BY <1>1, Always, PTL

(* No scan is counted as running without a socket that will end it, other   *)
(* than one that was refused for its port (scan.c, proxy.c).                *)
THEOREM ScanAttendedHolds == Spec => []ScanAttended
<1>1. IInv => ScanAttended
  BY DEF IInv, Inv, Watched, ScanAttended
<1> QED
  BY <1>1, Always, PTL

(* Only a connection to a game, one that passed its check, or needed none,  *)
(* makes the program approve the game (connect.c, game.c).                  *)
THEOREM ApprovalEarnedHolds == Spec => ApprovalEarned
<1> DEFINE A ==
      \A i \in Ids :
         /\ db[i] # NULL /\ db[i].status # "APPROVED"
         /\ db'[i] # NULL /\ db'[i].status = "APPROVED"
         /\ NoRuling
         => \E s \in Session : Earned(s, i)
<1>1. IInv /\ [Next]_vars => [A]_vars
  <2> SUFFICES ASSUME IInv, [Next]_vars, ~UNCHANGED vars, NEW i \in Ids,
                      db[i] # NULL, db[i].status # "APPROVED",
                      db'[i] # NULL, db'[i].status = "APPROVED", NoRuling
               PROVE  \E s \in Session : Earned(s, i)
    OBVIOUS
  <2>1. PICK s \in Session : Effect(s)
    BY NextKeeps DEF NoRuling
  <2> QED
    BY <2>1 DEF Effect
<1>2. [A]_vars => [\A i \in Ids :
         /\ db[i] # NULL /\ db[i].status # "APPROVED"
         /\ db'[i] # NULL /\ db'[i].status = "APPROVED"
         /\ NoRuling
         => \E s \in Session :
              /\ sess'[s].game.sock = "open" /\ sess'[s].game.st = "UP"
              /\ sess'[s].game.addr = db[i].addr
              /\ \/ ~config.minProtocol
                 \/ sess[s].game.st = "BLOCKING"
                 \/ sess[s].scan # "none"
                 \/ db[i].addr = Default]_vars
  BY DEF Earned
<1> HIDE DEF A
<1> QED
  BY <1>1, <1>2, Always, PTL DEF Spec, ApprovalEarned

(* A ban is only ever lifted by the administrator, or on behalf of a        *)
(* session whose copy is older than the ban (game.c, gamedb.c).             *)
THEOREM BanSettlesHolds == Spec => BanSettles
<1> DEFINE A ==
      \A i \in Ids :
         /\ db[i] # NULL /\ db[i].status = "BANNED"
         /\ db'[i] # NULL /\ db'[i].status # "BANNED"
         /\ NoRuling
         => \E s \in Session : Own(s, i)
<1>1. IInv /\ [Next]_vars => [A]_vars
  <2> SUFFICES ASSUME IInv, [Next]_vars, ~UNCHANGED vars, NEW i \in Ids,
                      db[i] # NULL, db[i].status = "BANNED",
                      db'[i] # NULL, db'[i].status # "BANNED", NoRuling
               PROVE  \E s \in Session : Own(s, i)
    OBVIOUS
  <2>1. PICK s \in Session : Effect(s)
    BY NextKeeps DEF NoRuling
  <2> QED
    BY <2>1 DEF Effect
<1>2. [A]_vars => [\A i \in Ids :
         /\ db[i] # NULL /\ db[i].status = "BANNED"
         /\ db'[i] # NULL /\ db'[i].status # "BANNED"
         /\ NoRuling
         => \E s \in Session :
              /\ sess[s].game.sock # "none" /\ sess[s].entry # NULL
              /\ sess[s].entry.id = i /\ sess[s].entry.status \in Open]_vars
  BY DEF Own
<1> HIDE DEF A
<1> QED
  BY <1>1, <1>2, Always, PTL DEF Spec, BanSettles


=============================================================================
