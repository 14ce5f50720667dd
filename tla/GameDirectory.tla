--------------------------- MODULE GameDirectory ---------------------------
(***************************************************************************)
(* The directory of games that locid keeps (gamedb.c), and those who read   *)
(* and write it: sessions that suggest a game and connect to it             *)
(* (connect.c, game.c, proxy.c), the site scanner (scan.c), and an          *)
(* administrator, who runs locid --ban, --approve and the like beside the   *)
(* server on the same database.                                            *)
(*                                                                         *)
(* A session looks its game up when it connects and keeps that copy, with   *)
(* the status the game had then, in pc->game_db_entry.  What becomes of the *)
(* connection is decided by the copy and written to the row.  A session     *)
(* has here what those decisions depend on; its pointers, its sockets and   *)
(* its end are the matter of module ProxySession.                           *)
(***************************************************************************)
EXTENDS Naturals

CONSTANTS
    Session,     \* proxy_conn_t objects
    Address,     \* host, port and ssl
    Default,     \* the address of the configuration's own game
    Refused,     \* addresses with a banned port or a forbidden numeric host
    Unusable,    \* addresses whose port is not within 1..65535
    Configs,     \* what may be configured, see variable config
    MaxRows,     \* bound on the rows ever inserted
    MaxRulings,  \* bound on the administrator's commands
    NULL

ASSUME AddressAssumption == Default \in Address \ Unusable
ASSUME BoundAssumption == MaxRows \in Nat \ {0} /\ MaxRulings \in Nat
ASSUME ConfigsAssumption ==
    Configs \subseteq [suggestions : {"APPROVED", "NO_ANSWER", "BANNED"},
                       minProtocol : BOOLEAN]

VARIABLES
    config,     \* suggestions are open (the code says APPROVED), queued
                \* (NO_ANSWER) or closed (BANNED); is there a min_protocol?
    db,         \* db[i]: the row of GAMEDB with ID i, NULL if there is none
    last,       \* the last ID that AUTOINCREMENT gave away
    sess,       \* sess[s]: a proxy_conn_t
    tbd,        \* scanner_main's list of addresses still to be scanned
    rulings     \* how many commands the administrator has given

vars == <<config, db, last, sess, tbd, rulings>>

-----------------------------------------------------------------------------
(* Data *)

Status == {"APPROVED", "NOT_CHECKED", "NO_ANSWER", "BAD_PROTOCOL", "BANNED",
           "REDACTED"}

\* "It has not been decided": connecting decides it.
Open == {"NOT_CHECKED", "NO_ANSWER"}
\* "Redacted is approved, it doesn't show up in the main list."
Trusted == {"APPROVED", "REDACTED"}

Ids   == 1..MaxRows
Row   == [addr : Address, status : Status]
Entry == [id : Ids, status : Status]

ASSUME NullAssumption == NULL \notin Address \cup Row \cup Entry

(* st       game->game_state; NULL, INIT and DOWN are IDLE                 *)
(* sock     the game's socket, game->wsi_game                              *)
(* check    game->check_protocol is not zero                               *)
(* addr     game->hostname, port and ssl                                   *)
Game ==
    [st : {"IDLE", "CONNECTING", "BLOCKING", "UP", "CLOSING", "RECONNECTING"},
     sock : {"none", "connecting", "open"}, check : BOOLEAN,
     addr : Address \cup {NULL}]

(* here     the browser's websocket is there (client_state beyond DOWN)    *)
(* scan     "none" for a browser's session; a scanner's is "running" while *)
(*          pc->scanner is set, and "done" once scanner_finalize was there *)
(* entry    pc->game_db_entry, as it was read when the session connected   *)
SessionRecord ==
    [live : BOOLEAN, here : BOOLEAN, scan : {"none", "running", "done"},
     entry : Entry \cup {NULL}, game : Game]

NewGame == [st |-> "IDLE", sock |-> "none", check |-> FALSE, addr |-> NULL]
FreeSession == [live |-> FALSE, here |-> FALSE, scan |-> "none", entry |-> NULL,
                game |-> NewGame]
NewSession(here, scan) ==
    [FreeSession EXCEPT !.live = TRUE, !.here = here, !.scan = scan]

TypeOK ==
    /\ config \in Configs
    /\ db \in [Ids -> Row \cup {NULL}]
    /\ last \in Ids
    /\ sess \in [Session -> SessionRecord]
    /\ tbd \subseteq Address
    /\ rulings \in 0..MaxRulings

Becomes(S, D, n) == sess' = S /\ db' = D /\ last' = n

-----------------------------------------------------------------------------
(* gamedb.c: the database as functions of a table D *)

\* game_db_gamelookup, and game_db_get_status of what it returned.
Rows(D, a) == {i \in Ids : D[i] # NULL /\ D[i].addr = a}
Lookup(D, a) ==
    IF Rows(D, a) = {} THEN NULL
    ELSE LET i == CHOOSE i \in Rows(D, a) : TRUE
         IN  [id |-> i, status |-> D[i].status]
StatusOf(entry) == IF entry = NULL THEN "NULL" ELSE entry.status

\* game_db_update_status: nothing without an entry, or when its row is gone.
UpdateStatus_Upsert(D, entry, status) ==
    IF entry = NULL THEN D
    ELSE [D EXCEPT ![entry.id] =
            [addr |-> IF @ = NULL THEN NULL ELSE @.addr, status |-> status]]
UpdateStatus(D, entry, status) ==
    IF entry = NULL THEN D
    ELSE [D EXCEPT ![entry.id] =
            IF @ = NULL THEN NULL ELSE [@ EXCEPT !.status = status]]

\* game_db_suggest's verdict on an address that has no row.
NewStatus(a) ==
    IF a \in Refused THEN "BANNED"
    ELSE IF config.suggestions = "APPROVED" /\ config.minProtocol
         THEN "NOT_CHECKED" ELSE config.suggestions

\* The ID of a new row: AUTOINCREMENT never gives an ID twice.
NewId_Reused(D, n) ==
    IF \E i \in 1..n : D[i] = NULL THEN CHOOSE i \in 1..n : D[i] = NULL ELSE n + 1
NewId(D, n) == n + 1

-----------------------------------------------------------------------------
(* Sessions: functions of the sessions S *)

(* loci_proxy_shutdown: finish the scan, then close the game's socket if   *)
(* there is one, else the websocket, else free the session.                *)
Shutdown(S, s) ==
    LET T == [S EXCEPT ![s].scan = IF @ = "running" THEN "done" ELSE @] IN
    IF S[s].game.sock # "none" THEN [T EXCEPT ![s].game.st = "CLOSING"]
    ELSE IF S[s].here THEN T ELSE [T EXCEPT ![s] = FreeSession]

(* LWS_CALLBACK_CLIENT_CONNECTION_ERROR: only a game that was not checked   *)
(* yet is recorded as silent.                                              *)
Unanswered(D, entry) ==
    IF StatusOf(entry) = "NOT_CHECKED" THEN UpdateStatus(D, entry, "NO_ANSWER") ELSE D

NoSocket(S, s) == [S EXCEPT ![s].game.sock = "none", ![s].game.st = "IDLE"]

ConnectFailed_NoShutdown(S, D, n, s) ==
    Becomes(NoSocket(S, s), Unanswered(D, S[s].entry), n)
ConnectFailed(S, D, n, s) ==
    Becomes(Shutdown(NoSocket(S, s), s), Unanswered(D, S[s].entry), n)

(* loci_connect_to_game_host, for a session without a socket.  A port out  *)
(* of range is refused before anything is looked up; a connection may fail *)
(* at once, or be under way.                                               *)
ConnectHost(S, D, n, s, a) ==
    LET T == [S EXCEPT ![s].entry = Lookup(D, a), ![s].game.addr = a] IN
    \/ a \in Unusable /\ Becomes(S, D, n)
    \/ a \notin Unusable /\ ConnectFailed(T, D, n, s)
    \/ /\ a \notin Unusable
       /\ Becomes([T EXCEPT ![s].game.sock = "connecting",
                            ![s].game.st = "CONNECTING"], D, n)

SecurityRequire(S, s, check) == [S EXCEPT ![s].game.check = check]

(* loci_connect_requested_game on the status of the address asked for: a   *)
(* trusted game is joined, an open one is joined on approval, and for any  *)
(* other the browser gets the default game instead.                        *)
Admit_BadOnesChecked(S, D, n, s, a, status) ==
    IF status \in Trusted
    THEN ConnectHost(SecurityRequire(S, s, FALSE), D, n, s, a)
    ELSE ConnectHost(SecurityRequire(S, s, config.minProtocol), D, n, s, a)
Admit(S, D, n, s, a, status) ==
    IF status \in Trusted
    THEN ConnectHost(SecurityRequire(S, s, FALSE), D, n, s, a)
    ELSE IF status \in Open
    THEN ConnectHost(SecurityRequire(S, s, config.minProtocol), D, n, s, a)
    ELSE ConnectHost(SecurityRequire(S, s, FALSE), D, n, s, Default)

\* game_db_suggest: an address with no row gets one, unless suggestions are
\* closed.
Suggest(S, s, a) ==
    LET i == NewId(db, last) IN
    IF Rows(db, a) # {} THEN Admit(S, db, last, s, a, Lookup(db, a).status)
    ELSE IF config.suggestions = "BANNED" THEN Admit(S, db, last, s, a, "BANNED")
    ELSE /\ i \in Ids
         /\ Admit(S, [db EXCEPT ![i] = [addr |-> a, status |-> NewStatus(a)]],
                  IF i > last THEN i ELSE last, s, a, NewStatus(a))

(* loci_connect_to_game_uuid: the sessions swap games.  The entries follow *)
(* only if the old session had one.  (The old one has a socket: without it *)
(* the code would not survive, see ProxySession.)                          *)
SwapEntries_Kept(S, s, old) == S
SwapEntries(S, s, old) ==
    IF S[old].entry = NULL THEN S
    ELSE [S EXCEPT ![s].entry = S[old].entry, ![old].entry = S[s].entry]

TakeGame(S, s, old) ==
    LET T == [S EXCEPT ![s].game = S[old].game, ![old].game = S[s].game] IN
    /\ S[old].live /\ S[old].scan = "none" /\ S[old].game.sock # "none"
    /\ Becomes(Shutdown(SwapEntries(T, s, old), old), db, last)

\* loci_connect_requested_game, whatever the request asks for; the last is a
\* host name that does not look valid.
ConnectRequested(S, s) ==
    \/ \E old \in Session \ {s} : TakeGame(S, s, old)
    \/ \E a \in Address : Suggest(S, s, a)
    \/ ConnectHost(SecurityRequire(S, s, FALSE), db, last, s, Default)
    \/ Becomes(S, db, last)

-----------------------------------------------------------------------------
(* Callbacks.  A check that is overdue is enforced at the start of every   *)
(* callback; SERVER_WRITEABLE, which comes every three seconds, does        *)
(* nothing else here.  It is one action, Deadline, since a callback that    *)
(* goes on afterwards is that action followed by its own.                   *)

\* LWS_CALLBACK_ESTABLISHED.
Arrive(s) ==
    /\ ~sess[s].live
    /\ Becomes([sess EXCEPT ![s] = NewSession(TRUE, "none")], db, last)
    /\ UNCHANGED <<config, tbd, rulings>>

(* A CONNECT message, which need not be the first.  The request itself is   *)
(* chosen when it is served: for a session with a game, when that closes.  *)
Connect(s) ==
    /\ sess[s].live /\ sess[s].here
    /\ IF sess[s].game.sock = "none" THEN ConnectRequested(sess, s)
       ELSE Becomes([sess EXCEPT ![s].game.st = "RECONNECTING"], db, last)
    /\ UNCHANGED <<config, tbd, rulings>>

\* A DISCONNECT message.
Disconnect(s) ==
    /\ sess[s].live /\ sess[s].here /\ sess[s].game.sock # "none"
    /\ Becomes([sess EXCEPT ![s].game.st = "CLOSING"], db, last)
    /\ UNCHANGED <<config, tbd, rulings>>

\* The browser's websocket goes away: a full close, or a half close.
Leave(s) ==
    LET S == [sess EXCEPT ![s].here = FALSE] IN
    /\ sess[s].live /\ sess[s].here
    /\ Becomes(IF sess[s].game.st = "IDLE" THEN Shutdown(S, s) ELSE S, db, last)
    /\ UNCHANGED <<config, tbd, rulings>>

ConnectionError(s) ==
    /\ sess[s].game.sock = "connecting"
    /\ ConnectFailed(sess, db, last, s)
    /\ UNCHANGED <<config, tbd, rulings>>

(* LWS_CALLBACK_RAW_CONNECTED, which may overtake a close.  With nothing to *)
(* check, a game that answers is approved, if the copy says it was open.    *)
Connected(s) ==
    LET g == sess[s].game IN
    /\ g.sock = "connecting"
    /\ Becomes([sess EXCEPT ![s].game.sock = "open",
                            ![s].game.st = IF g.check THEN "BLOCKING" ELSE "UP"],
               IF ~g.check /\ StatusOf(sess[s].entry) \in Open
               THEN UpdateStatus(db, sess[s].entry, "APPROVED") ELSE db,
               last)
    /\ UNCHANGED <<config, tbd, rulings>>

\* LWS_CALLBACK_RAW_RX with the last of the required options.
Passed(s) ==
    /\ sess[s].game.st = "BLOCKING"
    /\ Becomes([sess EXCEPT ![s].game.check = FALSE, ![s].game.st = "UP"],
               UpdateStatus(db, sess[s].entry, "APPROVED"), last)
    /\ UNCHANGED <<config, tbd, rulings>>

\* security_enforcement, after the deadline.
Deadline(s) ==
    /\ sess[s].game.st = "BLOCKING"
    /\ Becomes([sess EXCEPT ![s].game.st = "CLOSING"],
               UpdateStatus(db, sess[s].entry, "BAD_PROTOCOL"), last)
    /\ UNCHANGED <<config, tbd, rulings>>

(* LWS_CALLBACK_RAW_CLOSE.  Without a browser that is the session's end,   *)
(* and the directory is not told; a game that leaves while it is checked   *)
(* has failed the check; one that makes room is followed by the next.      *)
Closed(s) ==
    LET g == sess[s].game
        S == NoSocket(sess, s)
        D == IF g.st = "BLOCKING" /\ StatusOf(sess[s].entry) \in Open
             THEN UpdateStatus(db, sess[s].entry, "BAD_PROTOCOL") ELSE db
    IN  /\ g.sock = "open"
        /\ IF ~sess[s].here THEN Becomes(Shutdown(S, s), db, last)
           ELSE IF g.st = "RECONNECTING"
                THEN ConnectRequested([S EXCEPT ![s].game = NewGame], s)
                ELSE Becomes(S, D, last)
        /\ UNCHANGED <<config, tbd, rulings>>

\* LWS_CALLBACK_TIMER of a scanner's socket: it has seen enough.
ScanTimer(s) ==
    /\ sess[s].game.sock = "open" /\ sess[s].scan = "running"
    /\ Becomes(Shutdown(sess, s), db, last)
    /\ UNCHANGED <<config, tbd, rulings>>

\* A timer of either side that finds the watchdog expired.
Watchdog(s) ==
    /\ sess[s].live /\ (sess[s].here \/ sess[s].game.sock = "open")
    /\ ~(sess[s].here /\ sess[s].game.st = "UP")
    /\ Becomes(Shutdown(sess, s), db, last)
    /\ UNCHANGED <<config, tbd, rulings>>

(* scanner_main, with batches of one: when the list is empty it is filled   *)
(* anew (which of the rows have not been scanned for long enough is left    *)
(* open; --fix-scan asks for one row, whatever its status); then its next   *)
(* address is dispatched in a session of its own, and connected to with no  *)
(* check required.                                                         *)
Wanted == {i \in Ids : db[i] # NULL /\ db[i].status \in {"APPROVED", "NO_ANSWER"}}
ScanList ==
    (SUBSET {db[i].addr : i \in Wanted})
      \cup {{db[i].addr} : i \in {j \in Ids : db[j] # NULL}}

ScannerMain(s) ==
    \E L \in IF tbd = {} THEN ScanList ELSE {tbd} : \E a \in L :
        /\ ~sess[s].live
        /\ tbd' = L \ {a}
        /\ ConnectHost([sess EXCEPT ![s] = NewSession(FALSE, "running")],
                       db, last, s, a)
        /\ UNCHANGED <<config, rulings>>

(* game_db_update, run from a command line: --approve, --ban, --redact.     *)
Rule(i, status) ==
    /\ rulings < MaxRulings /\ db[i] # NULL
    /\ Becomes(sess, [db EXCEPT ![i].status = status], last)
    /\ rulings' = rulings + 1
    /\ UNCHANGED <<config, tbd>>

\* --delete.  That an administrator does not delete the server's own game is
\* an assumption: the statement has no such guard.
Delete(i) ==
    /\ rulings < MaxRulings /\ db[i] # NULL /\ db[i].addr # Default
    /\ Becomes(sess, [db EXCEPT ![i] = NULL], last)
    /\ rulings' = rulings + 1
    /\ UNCHANGED <<config, tbd>>

-----------------------------------------------------------------------------
\* game_db_init inserts the configuration's own game, approved.
Init ==
    /\ config \in Configs
    /\ db = [i \in Ids |-> IF i = 1 THEN [addr |-> Default, status |-> "APPROVED"]
                           ELSE NULL]
    /\ last = 1
    /\ sess = [s \in Session |-> FreeSession]
    /\ tbd = {}
    /\ rulings = 0

SessionStep(s) ==
    \/ Arrive(s)
    \/ Connect(s)
    \/ Disconnect(s)
    \/ Leave(s)
    \/ ConnectionError(s)
    \/ Connected(s)
    \/ Passed(s)
    \/ Deadline(s)
    \/ Closed(s)
    \/ ScanTimer(s)
    \/ Watchdog(s)
    \/ ScannerMain(s)

AdminStep(i) ==
    \/ \E status \in {"APPROVED", "BANNED", "REDACTED"} : Rule(i, status)
    \/ Delete(i)

Next ==
    \/ \E s \in Session : SessionStep(s)
    \/ \E i \in Ids : AdminStep(i)

Spec == Init /\ [][Next]_vars

-----------------------------------------------------------------------------
(* What must hold *)

(* The copy a session keeps is of the game it is connected to, whatever     *)
(* reconnects, new requests and deletions came before: the status, and the  *)
(* MSSP data and telnet options recorded through the copy's id, are never   *)
(* written to the row of another game.                                      *)
EntryMatches ==
    \A s \in Session :
        LET e == sess[s].entry IN
        sess[s].game.sock # "none" /\ e # NULL /\ db[e.id] # NULL
        => db[e.id].addr = sess[s].game.addr

\* No command of the administrator's.
NoRuling == rulings' = rulings

(* The program approves a game only from a connection to that very game:    *)
(* one that passed its check, if a check is configured, and otherwise the   *)
(* scanner's, or one to the server's own game.  (connect.c, game.c)         *)
ApprovalEarned ==
    [][\A i \in Ids :
         /\ db[i] # NULL /\ db[i].status # "APPROVED"
         /\ db'[i] # NULL /\ db'[i].status = "APPROVED"
         /\ NoRuling
         => \E s \in Session :
              /\ sess'[s].game.sock = "open" /\ sess'[s].game.st = "UP"
              /\ sess'[s].game.addr = db[i].addr
              /\ \/ ~config.minProtocol
                 \/ sess[s].game.st = "BLOCKING"
                 \/ sess[s].scan # "none"
                 \/ db[i].addr = Default]_vars

(* A ban, of the program or of the administrator, is never undone by        *)
(* anyone who has seen it: if the program changes the status of a banned    *)
(* row, then on behalf of a session that looked the game up while it was    *)
(* still open.                                                             *)
BanSettles ==
    [][\A i \in Ids :
         /\ db[i] # NULL /\ db[i].status = "BANNED"
         /\ db'[i] # NULL /\ db'[i].status # "BANNED"
         /\ NoRuling
         => \E s \in Session :
              /\ sess[s].game.sock # "none" /\ sess[s].entry # NULL
              /\ sess[s].entry.id = i /\ sess[s].entry.status \in Open]_vars

(* A scan that is counted as running (get_active_scan_count, for which a    *)
(* forced scan waits before it ends the process) has a socket whose         *)
(* callbacks will finalize it, or it is one that connect.c refused for its  *)
(* port.  Those wait for ever.                                             *)
ScanAttended ==
    \A s \in Session :
        sess[s].scan = "running" /\ sess[s].game.sock = "none"
        => Unusable # {} /\ sess[s].game.addr = NULL

(* What the documentation says, and the code does not do: README.md says of *)
(* --ban that it "prevents locid from connecting to this entry".  The ban   *)
(* at least stays until the administrator lifts it.                         *)
BanHolds ==
    [][\A i \in Ids :
         /\ db[i] # NULL /\ db[i].status = "BANNED"
         /\ db'[i] # NULL /\ NoRuling
         => db'[i].status = "BANNED"]_vars

=============================================================================
