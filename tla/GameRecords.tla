---------------------------- MODULE GameRecords ----------------------------
(***************************************************************************)
(* What locid records of a game, and who writes it: the MSSP data the game  *)
(* reports, the telnet options it was seen to use (gamedb.c, game.c), and    *)
(* how the site scanner finds it (scan.c).  The database is an SQLite file   *)
(* that two processes have open: the server, and an administrator's          *)
(* locid --force-scan or --fix-scan, which does not bind the port and so     *)
(* runs beside it (locid.c).  The code opens no transaction and sets no busy *)
(* timeout: each statement is a step, another process may come in between,   *)
(* any of them may fail, and a process may end before its next.             *)
(*                                                                         *)
(* The rows of different games do not depend on each other, so there is one *)
(* game here.  Its row's status, which decides whether it may be connected  *)
(* to, is the matter of module GameDirectory, and so are suggestions.  Nor   *)
(* do the kinds of records depend on each other, but for one: whether the    *)
(* options are recorded is decided by the age of the MSSP data.  A behaviour *)
(* follows some kinds, with some of the connections, and leaves the          *)
(* statements of the other kinds out.                                       *)
(***************************************************************************)
EXTENDS Naturals, Sequences, FiniteSets, SequencesExt

CONSTANTS
    User,         \* the connections of users to the game
    Data,         \* the values of what mssp_notable_fields names
    Option,       \* telnet options
    CrawlDelay,   \* mssp_crawl_delay
    Recent,       \* mssp_recently_updated
    Expired,      \* scan_expired: a scan so old is repeated
    Down,         \* scan_down: a game silent for so long is scanned no more
    Settings,     \* what a behaviour may be about, see variable setting
    Many,         \* bound on the rows counted of one telnet option
    MaxFaults,    \* bound on statements that fail and processes that crash
    NULL

ASSUME TimesAssumption ==
    {CrawlDelay, Recent, Expired, Down} \subseteq Nat
ASSUME BoundsAssumption == Many \in Nat \ {0} /\ MaxFaults \in Nat
ASSUME NullAssumption == NULL \notin Data \cup Nat
ASSUME OptionAssumption == IsFiniteSet(Option)
ASSUME SettingsAssumption ==
    Settings \subseteq [kinds : SUBSET {"mssp", "telopts", "scan"},
                       conns : SUBSET (User \cup {"scan", "forced"})]

VARIABLES
    db,         \* the database file, without its timestamps
    age,        \* age[s]: how old timestamp s is
    proc,       \* proc[p]: a running locid
    conn,       \* conn[c]: a connection to the game
    usable,     \* the row's port is one that can be connected to
    setting,    \* the kinds of records that this behaviour follows, and the
                \* connections that there are in it
    truth,      \* what was reported and found last, whatever became of it
    disturbed,  \* the kinds of records whose last writing was not undisturbed
    faults      \* how many statements failed or processes crashed

vars == <<db, age, proc, conn, usable, setting, truth, disturbed, faults>>

-----------------------------------------------------------------------------
(* Data *)

Process == {"server", "forced"}
Conn == User \cup {"scan", "forced"}
Owner(c) == IF c = "forced" THEN "forced" ELSE "server"
ScanOf(p) == IF p = "forced" THEN "forced" ELSE "scan"
IsScan(c) == c \in {"scan", "forced"}

\* SCAN.STATUS, "unknown" while the game has no row in SCAN.
ScanStatus == {"unknown", "NO_ANSWER", "APPROVED"}

(* The timestamps LAST_MSSP and GAME_UPDATED of GAMEDB, the newest CREATED  *)
(* of MSSP, LASTSCAN and SINCE of SCAN; and of what happened in fact: MSSP   *)
(* data that differed from those before, and a scan that was answered.      *)
Stamp == {"lastMssp", "updated", "created", "lastscan", "since",
          "differed", "answered"}

(* The age from which on none of the limits tells a timestamp's ages apart.   *)
Oldest(s) ==
    IF s \in {"lastMssp", "created"} THEN CrawlDelay
    ELSE IF s \in {"updated", "differed"} THEN Recent + 1
    ELSE IF s = "lastscan" THEN Expired
    ELSE Down
Never(s) == age[s] = NULL
Younger(s, limit) == ~Never(s) /\ age[s] < limit

Kind == {"file", "mssp", "telopts", "scan"}
Put == {"create", "tables", "home", "version", "insert", "lastMssp", "updated",
        "names", "clear", "telopt", "status", "since", "greeting"}
\* An SQL statement still to be executed.
Statement == [kind : Kind, put : Put, val : Data \cup Option \cup ScanStatus \cup {NULL}]
Sql(kind, put, val) == [kind |-> kind, put |-> put, val |-> val]

KindsIn(todo) == {todo[i].kind : i \in DOMAIN todo}

(* exists, tables, home, version   how far the file's creation has come      *)
(* name            NAME, ICON and WEBSITE of the game's row                 *)
(* newest          the rows of MSSP with the newest CREATED                 *)
(* telopts         how many rows TELOPTS has of each option                 *)
(* status, greeted what SCAN says, and is there a row in GREETING?          *)
Database ==
    [exists : BOOLEAN, tables : BOOLEAN, home : BOOLEAN, version : BOOLEAN,
     name : Data \cup {NULL}, newest : SUBSET Data, telopts : [Option -> 0..Many],
     status : ScanStatus, greeted : BOOLEAN]

(* todo    the statements that its current callback has yet to execute      *)
(* clean   of which kinds that will have been undisturbed                   *)
(* tbd     scanner_main's list: the game's last status, NULL if not on it   *)
(* listed  runcount is not 0, in the process that makes but one list        *)
ProcessRecord ==
    [run : {"off", "starting", "up"}, todo : Seq(Statement), clean : SUBSET Kind,
     tbd : ScanStatus \cup {NULL}, listed : BOOLEAN]

(* st      "lost" is a session that was never told to connect               *)
(* known   pc->game_db_entry is there                                       *)
(* request game->request_mssp                                               *)
(* was, is pc->scanner's laststatus and status                              *)
ConnRecord ==
    [st : {"free", "connecting", "open", "closing", "lost"}, known : BOOLEAN,
     request : BOOLEAN, was : ScanStatus, is : ScanStatus]

Off == [run |-> "off", todo |-> <<>>, clean |-> {}, tbd |-> NULL, listed |-> FALSE]
Free == [st |-> "free", known |-> FALSE, request |-> FALSE,
         was |-> "unknown", is |-> "unknown"]

TypeOK ==
    /\ db \in Database
    /\ \A s \in Stamp : age[s] \in 0..Oldest(s) \cup {NULL}
    /\ DOMAIN age = Stamp
    /\ proc \in [Process -> ProcessRecord]
    /\ conn \in [Conn -> ConnRecord]
    /\ usable \in BOOLEAN
    /\ setting \in Settings
    /\ truth \in [what : Data \cup {NULL}, opts : SUBSET Option]
    /\ disturbed \subseteq Kind
    /\ faults \in 0..MaxFaults

-----------------------------------------------------------------------------
(* Queries: what the SELECTs of gamedb.c and scan.c find in the database *)

\* game_db_should_request_mssp; either may be if the reports are not followed.
ShouldRequest ==
    IF "mssp" \in setting.kinds THEN {~Younger("lastMssp", CrawlDelay)}
    ELSE IF "telopts" \in setting.kinds THEN BOOLEAN ELSE {TRUE}

\* game_db_is_mssp_updated: if several rows are the newest, any is compared.
Updates_AfterInsert(what) == {FALSE}
Updates(what) ==
    IF db.newest = {} THEN {TRUE} ELSE {what # old : old \in db.newest}

\* game_db_get_server_list: the mark "updated" of a game on it.
MarkedUpdated == ~Never("updated") /\ age["updated"] <= Recent

\* game_db_mssplookup: what the browser shows about the game.
AboutGame ==
    [name |-> IF db.name = NULL THEN db.newest ELSE {db.name}, mssp |-> db.newest]

(* scanner_enabled_list, the games the server scans: none that was scanned   *)
(* lately, none that has been silent for long.                              *)
GivenUp == db.status = "NO_ANSWER" /\ ~Never("since") /\ age["since"] >= Down
Due == ~Younger("lastscan", Expired) /\ ~GivenUp

\* scanner_forced_list, and scanner_single_game_list for --fix-scan.
ForcedDue == db.status \in {"unknown", "NO_ANSWER"}

\* scanner_get_tbd: the status that the scan will be compared with.
LastStatus == db.status

\* game_db_get_version, with no row in DBVERSION, or no table, finds none.
VersionFound == db.tables /\ db.version

\* game_db_list_down: the games that --list-scan calls DOWN.
ListedDown ==
    /\ db.status \notin {"unknown", "APPROVED"}
    /\ ~Never("since") /\ age["since"] >= Down

-----------------------------------------------------------------------------
(* Processes and their statements *)

Idle(p) == proc[p].run = "up" /\ proc[p].todo = <<>>

(* Process p begins a callback that executes these statements; what another  *)
(* process is writing at the same time is not undisturbed any more.         *)
BeginSpoilt(P, p, work, spoilt) ==
    LET mixed == (UNION {KindsIn(P[q].todo) : q \in Process \ {p}}) \cap KindsIn(work)
    IN  /\ proc' = [q \in Process |->
               IF q = p THEN [P[q] EXCEPT !.todo = work,
                                          !.clean = KindsIn(work) \ (mixed \cup spoilt)]
               ELSE [P[q] EXCEPT !.clean = @ \ mixed]]
        /\ disturbed' = disturbed \cup (mixed \ {"file"}) \cup spoilt
Begin(p, work) == BeginSpoilt(proc, p, work, {})

Renew(stamps) == [s \in Stamp |-> IF s \in stamps THEN 0 ELSE age[s]]
Writes(D, stamps) == db' = D /\ age' = Renew(stamps)

(* The statement is done.  With the last of its kind the record is sound     *)
(* again, if nothing came between and it did not build on an unsound one.   *)
Done(p, heals) ==
    LET s == Head(proc[p].todo)
        rest == Tail(proc[p].todo)
    IN  /\ proc' = [proc EXCEPT ![p].todo = rest, ![p].clean = @ \cap KindsIn(rest)]
        /\ disturbed' = IF heals /\ s.kind \in proc[p].clean \ KindsIn(rest)
                        THEN disturbed \ {s.kind} ELSE disturbed

NextIs(p, put) == proc[p].todo # <<>> /\ Head(proc[p].todo).put = put
Val(p) == Head(proc[p].todo).val

\* Statements of a kind that this behaviour leaves out.
Followed(kind, todo) == IF kind \in setting.kinds THEN todo ELSE <<>>

\* game_db_init's statements, if there is no file.
Creation_VersionFirst ==
    <<Sql("file", "create", NULL), Sql("file", "tables", NULL),
      Sql("file", "version", NULL), Sql("file", "home", NULL)>>
Creation ==
    <<Sql("file", "create", NULL), Sql("file", "tables", NULL),
      Sql("file", "home", NULL), Sql("file", "version", NULL)>>

\* game_db_update_mssp, after it has looked whether the data are news.
Report_OnlyNews(what, news) ==
    <<Sql("mssp", "insert", what)>>
      \o (IF news THEN <<Sql("mssp", "lastMssp", NULL), Sql("mssp", "updated", NULL)>>
          ELSE <<>>)
      \o <<Sql("mssp", "names", what)>>
Report(what, news) ==
    <<Sql("mssp", "insert", what), Sql("mssp", "lastMssp", NULL)>>
      \o (IF news THEN <<Sql("mssp", "updated", NULL)>> ELSE <<>>)
      \o <<Sql("mssp", "names", what)>>

\* loci_game_update_telopts; seq lists the options that were negotiated.
Telopts_Added(seq) == [i \in DOMAIN seq |-> Sql("telopts", "telopt", seq[i])]
Telopts(seq) ==
    <<Sql("telopts", "clear", NULL)>>
      \o [i \in DOMAIN seq |-> Sql("telopts", "telopt", seq[i])]

\* scanner_finalize: SINCE is written if the status is not the one there was
\* when the list was made.
Finalize_SinceOnce(scanner) ==
    <<Sql("scan", IF scanner.was = "unknown" THEN "since" ELSE "status", scanner.is)>>
      \o (IF scanner.is = "APPROVED" THEN <<Sql("scan", "greeting", NULL)>> ELSE <<>>)
Finalize(scanner) ==
    <<Sql("scan", IF scanner.is # scanner.was THEN "since" ELSE "status", scanner.is)>>
      \o (IF scanner.is = "APPROVED" THEN <<Sql("scan", "greeting", NULL)>> ELSE <<>>)

(* If another scan has changed the status since the list was made, and this   *)
(* one changes it back, nothing says since when.                            *)
Outdated(scanner) ==
    IF scanner.is = scanner.was /\ db.status # scanner.was THEN {"scan"} ELSE {}

CreateFile(p) ==
    /\ NextIs(p, "create")
    /\ Writes([db EXCEPT !.exists = TRUE], {}) /\ Done(p, TRUE)
    /\ UNCHANGED <<conn, usable, setting, truth, faults>>

DefineTables(p) ==
    /\ NextIs(p, "tables")
    /\ Writes([db EXCEPT !.tables = TRUE], {}) /\ Done(p, TRUE)
    /\ UNCHANGED <<conn, usable, setting, truth, faults>>

InsertHome(p) ==
    /\ NextIs(p, "home") /\ ~db.home
    /\ Writes([db EXCEPT !.home = TRUE], {}) /\ Done(p, TRUE)
    /\ UNCHANGED <<conn, usable, setting, truth, faults>>

InsertVersion(p) ==
    /\ NextIs(p, "version")
    /\ Writes([db EXCEPT !.version = TRUE], {}) /\ Done(p, TRUE)
    /\ UNCHANGED <<conn, usable, setting, truth, faults>>

InsertMssp(p) ==
    LET tied == age["created"] = 0 IN
    /\ NextIs(p, "insert")
    /\ Writes([db EXCEPT !.newest = (IF tied THEN @ ELSE {}) \cup {Val(p)}],
              {"created"} \cup (IF Val(p) # truth.what THEN {"differed"} ELSE {}))
    /\ truth' = [truth EXCEPT !.what = Val(p)]
    /\ proc' = [proc EXCEPT ![p].todo = Tail(@),
                            ![p].clean = IF tied THEN @ \ {"mssp"} ELSE @]
    /\ disturbed' = IF tied THEN disturbed \cup {"mssp"} ELSE disturbed
    /\ UNCHANGED <<conn, usable, setting, faults>>

UpdateLastMssp(p) ==
    /\ NextIs(p, "lastMssp")
    /\ Writes(db, {"lastMssp"}) /\ Done(p, FALSE)
    /\ UNCHANGED <<conn, usable, setting, truth, faults>>

UpdateGameUpdated(p) ==
    /\ NextIs(p, "updated")
    /\ Writes(db, {"updated"}) /\ Done(p, FALSE)
    /\ UNCHANGED <<conn, usable, setting, truth, faults>>

\* Data that were no news do not make up for news that were missed.
UpdateNames(p) ==
    /\ NextIs(p, "names")
    /\ Writes([db EXCEPT !.name = Val(p)], {})
    /\ Done(p, Younger("updated", age["differed"] + 1))
    /\ UNCHANGED <<conn, usable, setting, truth, faults>>

ClearTelopts(p) ==
    /\ NextIs(p, "clear")
    /\ Writes([db EXCEPT !.telopts = [o \in Option |-> 0]], {}) /\ Done(p, TRUE)
    /\ UNCHANGED <<conn, usable, setting, truth, faults>>

UpdateTelopt(p) ==
    /\ NextIs(p, "telopt")
    /\ Writes([db EXCEPT !.telopts[Val(p)] = IF @ < Many THEN @ + 1 ELSE @], {})
    /\ Done(p, TRUE)
    /\ UNCHANGED <<conn, usable, setting, truth, faults>>

UpsertStatus(p) ==
    /\ NextIs(p, "status")
    /\ Writes([db EXCEPT !.status = Val(p)], {"lastscan"}) /\ Done(p, FALSE)
    /\ UNCHANGED <<conn, usable, setting, truth, faults>>

UpsertStatusSince(p) ==
    /\ NextIs(p, "since")
    /\ Writes([db EXCEPT !.status = Val(p)], {"lastscan", "since"}) /\ Done(p, TRUE)
    /\ UNCHANGED <<conn, usable, setting, truth, faults>>

UpsertGreeting(p) ==
    /\ NextIs(p, "greeting")
    /\ Writes([db EXCEPT !.greeted = TRUE], {}) /\ Done(p, TRUE)
    /\ UNCHANGED <<conn, usable, setting, truth, faults>>

(* A statement fails: the database is locked, say.  A report ends there,     *)
(* unless only the names were missing; a file whose tables cannot be defined *)
(* is an error, and without the home row the rest is not tried: InsertHome   *)
(* fails, too, where another process has inserted that row.  Everything else *)
(* goes on.                                                                 *)
FailStatement(p) ==
    LET s == Head(proc[p].todo)
        ends == s.kind = "mssp" \/ s.put \in {"create", "tables", "home"}
    IN  /\ proc[p].todo # <<>>
        /\ \/ /\ faults < MaxFaults
              /\ faults' = faults + 1
           \/ /\ s.put = "home" /\ db.home
              /\ UNCHANGED faults
        /\ proc' = [proc EXCEPT
               ![p] = IF s.put \in {"create", "tables"} THEN Off
                      ELSE [proc[p] EXCEPT !.todo = IF ends THEN <<>> ELSE Tail(@),
                                           !.clean = @ \ {s.kind}]]
        /\ disturbed' = disturbed \cup ({s.kind} \ {"file"})
        /\ UNCHANGED <<db, age, conn, usable, setting, truth>>

SqlStep(p) ==
    \/ CreateFile(p)
    \/ DefineTables(p)
    \/ InsertHome(p)
    \/ InsertVersion(p)
    \/ InsertMssp(p)
    \/ UpdateLastMssp(p)
    \/ UpdateGameUpdated(p)
    \/ UpdateNames(p)
    \/ ClearTelopts(p)
    \/ UpdateTelopt(p)
    \/ UpsertStatus(p)
    \/ UpsertStatusSince(p)
    \/ UpsertGreeting(p)
    \/ FailStatement(p)

-----------------------------------------------------------------------------
(* Starting and ending *)

\* game_db_init looks for the file; with the file it has nothing to do.
Start(p) ==
    /\ proc[p].run = "off"
    /\ BeginSpoilt([proc EXCEPT ![p].run = "starting"], p,
                   IF db.exists THEN <<>> ELSE Creation, {})
    /\ UNCHANGED <<db, age, conn, usable, setting, truth, faults>>

\* main goes on if game_db_get_version finds the version it was built for.
Open(p) ==
    /\ proc[p].run = "starting" /\ proc[p].todo = <<>>
    /\ proc' = [proc EXCEPT ![p] = IF VersionFound THEN [@ EXCEPT !.run = "up"] ELSE Off]
    /\ UNCHANGED <<db, age, conn, usable, setting, truth, disturbed, faults>>

(* A process ends without notice, between two statements or two callbacks.  *)
(* The answer of a scan that had not been recorded yet is lost with it.     *)
Crash(p) ==
    LET mine == {c \in Conn : Owner(c) = p}
        lost == (KindsIn(proc[p].todo) \ {"file"})
                  \cup (IF \E c \in mine : conn[c].st = "open" /\ IsScan(c)
                        THEN {"scan"} ELSE {})
    IN  /\ proc[p].run # "off" /\ faults < MaxFaults
        /\ faults' = faults + 1
        /\ proc' = [proc EXCEPT ![p] = Off]
        /\ conn' = [c \in Conn |-> IF c \in mine THEN Free ELSE conn[c]]
        /\ disturbed' = disturbed \cup lost
        /\ UNCHANGED <<db, age, usable, setting, truth>>

-----------------------------------------------------------------------------
(* Connections: the callbacks that concern the records *)

Connecting(known, request, was) ==
    [st |-> "connecting", known |-> known, request |-> request, was |-> was, is |-> was]

(* loci_connect_to_game_host: find the game, and whether to ask it for MSSP.  *)
(* What could not be found is asked for.  A port out of range ends it before *)
(* that, and nothing else ever becomes of the session.                       *)
ConnectHost(c, was) ==
    \/ /\ ~usable
       /\ conn' = [conn EXCEPT ![c] = [Free EXCEPT !.st = "lost"]]
       /\ UNCHANGED faults
    \/ /\ usable
       /\ \E request \in ShouldRequest :
            conn' = [conn EXCEPT ![c] = Connecting(TRUE, request, was)]
       /\ UNCHANGED faults
    \/ /\ usable /\ faults < MaxFaults /\ setting.kinds # {"scan"}
       /\ conn' = [conn EXCEPT ![c] = Connecting(FALSE, TRUE, was)]
       /\ faults' = faults + 1

\* A user connects.
Join(c) ==
    /\ c \in User \cap setting.conns /\ Idle("server") /\ usable /\ conn[c].st = "free"
    /\ ConnectHost(c, "unknown")
    /\ UNCHANGED <<db, age, proc, usable, setting, truth, disturbed>>

(* scanner_main with an empty list makes a new one, the process that was     *)
(* told to scan only once; its query may fail, and then the list is empty.   *)
List_Again(p) ==
    /\ Idle(p) /\ proc[p].tbd = NULL /\ ScanOf(p) \in setting.conns
    /\ \/ p = "server" /\ Due
       \/ p = "forced" /\ ForcedDue
    /\ proc' = [proc EXCEPT ![p].tbd = LastStatus, ![p].listed = (p = "forced")]
    /\ UNCHANGED <<db, age, conn, usable, setting, truth, disturbed, faults>>
List(p) ==
    /\ Idle(p) /\ proc[p].tbd = NULL /\ ScanOf(p) \in setting.conns
    /\ \/ p = "server" /\ Due
       \/ p = "forced" /\ ~proc[p].listed
    /\ \/ /\ proc' = [proc EXCEPT ![p].tbd = LastStatus, ![p].listed = (p = "forced")]
          /\ UNCHANGED faults
       \/ /\ p = "forced" /\ ~ForcedDue
          /\ proc' = [proc EXCEPT ![p].listed = (p = "forced")]
          /\ UNCHANGED faults
       \/ /\ faults < MaxFaults
          /\ proc' = [proc EXCEPT ![p].listed = (p = "forced")]
          /\ faults' = faults + 1
    /\ UNCHANGED <<db, age, conn, usable, setting, truth, disturbed>>

\* scanner_dispatch, when the game's turn has come.
Dispatch(p) ==
    /\ Idle(p) /\ proc[p].tbd # NULL /\ conn[ScanOf(p)].st \in {"free", "lost"}
    /\ proc' = [proc EXCEPT ![p].tbd = NULL]
    /\ ConnectHost(ScanOf(p), proc[p].tbd)
    /\ UNCHANGED <<db, age, usable, setting, truth, disturbed>>

\* scanner_main of the process that was told to scan: no list, no scans.
End ==
    /\ Idle("forced") /\ proc["forced"].listed /\ proc["forced"].tbd = NULL
    /\ conn["forced"].st \in {"free", "closing"}
    /\ proc' = [proc EXCEPT !["forced"] = Off]
    /\ conn' = [conn EXCEPT !["forced"] = Free]
    /\ UNCHANGED <<db, age, usable, setting, truth, disturbed, faults>>

\* LWS_CALLBACK_CLIENT_CONNECTION_ERROR.  (scanner_update_status is called
\* before loci_proxy_shutdown finalizes the scan.)
ConnectionError_BadProtocol(c) ==
    /\ Idle(Owner(c)) /\ conn[c].st = "connecting"
    /\ Begin(Owner(c),
             Followed("scan", IF IsScan(c) THEN Finalize([conn[c] EXCEPT !.is = "BAD_PROTOCOL"])
                              ELSE <<>>))
    /\ conn' = [conn EXCEPT ![c] = Free]
    /\ UNCHANGED <<db, age, usable, setting, truth, faults>>
ConnectionError_NotFinal(c) ==
    /\ Idle(Owner(c)) /\ conn[c].st = "connecting"
    /\ conn' = [conn EXCEPT ![c] = Free]
    /\ UNCHANGED <<db, age, proc, usable, setting, truth, disturbed, faults>>
ConnectionError(c) ==
    LET scanner == [conn[c] EXCEPT !.is = "NO_ANSWER"] IN
    /\ Idle(Owner(c)) /\ conn[c].st = "connecting"
    /\ IF IsScan(c)
       THEN BeginSpoilt(proc, Owner(c), Followed("scan", Finalize(scanner)), Outdated(scanner))
       ELSE UNCHANGED <<proc, disturbed>>
    /\ conn' = [conn EXCEPT ![c] = Free]
    /\ UNCHANGED <<db, age, usable, setting, truth, faults>>

\* LWS_CALLBACK_RAW_CONNECTED.  All that request_mssp still decides here is
\* whether the options will be recorded.
Connected(c) ==
    /\ Idle(Owner(c)) /\ conn[c].st = "connecting"
    /\ conn' = [conn EXCEPT ![c].st = "open",
                            ![c].request = @ /\ "telopts" \in setting.kinds,
                            ![c].is = IF IsScan(c) THEN "APPROVED" ELSE @]
    /\ age' = Renew(IF IsScan(c) /\ "scan" \in setting.kinds THEN {"answered"} ELSE {})
    /\ UNCHANGED <<db, proc, usable, setting, truth, disturbed, faults>>

(* TELNET_EV_MSSP: look whether the data are news, then write.  The look may  *)
(* fail, and then they are none.  Of a game that was not found the data go    *)
(* to a row of no game.                                                      *)
ReportMssp(c, what) ==
    /\ Idle(Owner(c)) /\ conn[c].st = "open" /\ "mssp" \in setting.kinds
    /\ IF ~conn[c].known THEN UNCHANGED <<proc, disturbed, faults>>
       ELSE \/ /\ \E news \in Updates(what) : Begin(Owner(c), Report(what, news))
               /\ UNCHANGED faults
            \/ /\ faults < MaxFaults
               /\ BeginSpoilt(proc, Owner(c), Report(what, FALSE), {"mssp"})
               /\ faults' = faults + 1
    /\ UNCHANGED <<db, age, conn, usable, setting, truth>>

\* LWS_CALLBACK_TIMER of a scan's socket: it is finalized, then closed.
ScanTimer(c) ==
    /\ Idle(Owner(c)) /\ conn[c].st = "open" /\ IsScan(c)
    /\ BeginSpoilt(proc, Owner(c), Followed("scan", Finalize(conn[c])), Outdated(conn[c]))
    /\ conn' = [conn EXCEPT ![c] = [Free EXCEPT !.st = "closing", !.known = conn[c].known,
                                               !.request = conn[c].request]]
    /\ UNCHANGED <<db, age, usable, setting, truth, faults>>

\* LWS_CALLBACK_RAW_CLOSE: the options that were seen, if the game was asked
\* for MSSP; then the end of a scan that was not finalized yet.
Closed(c, opts) ==
    LET records == conn[c].request /\ conn[c].known
        ends == IsScan(c) /\ conn[c].st = "open"
    IN  /\ Idle(Owner(c)) /\ conn[c].st \in {"open", "closing"}
        /\ BeginSpoilt(proc, Owner(c),
                       (IF records THEN Followed("telopts", Telopts(SetToSeq(opts))) ELSE <<>>)
                         \o (IF ends THEN Followed("scan", Finalize(conn[c])) ELSE <<>>),
                       IF ends THEN Outdated(conn[c]) ELSE {})
        /\ truth' = [truth EXCEPT !.opts =
                       IF records /\ "telopts" \in setting.kinds THEN opts ELSE @]
        /\ conn' = [conn EXCEPT ![c] = Free]
        /\ UNCHANGED <<db, age, usable, setting, faults>>

\* Time passes.  The statements of a callback take none that a limit can tell.
Tick ==
    /\ \A p \in Process : proc[p].todo = <<>>
    /\ age' = [s \in Stamp |-> IF Never(s) \/ age[s] = Oldest(s) THEN age[s] ELSE age[s] + 1]
    /\ age' # age
    /\ UNCHANGED <<db, proc, conn, usable, setting, truth, disturbed, faults>>

-----------------------------------------------------------------------------
Init ==
    /\ db = [exists |-> FALSE, tables |-> FALSE, home |-> FALSE, version |-> FALSE,
             name |-> NULL, newest |-> {}, telopts |-> [o \in Option |-> 0],
             status |-> "unknown", greeted |-> FALSE]
    /\ age = [s \in Stamp |-> NULL]
    /\ proc = [p \in Process |-> Off]
    /\ conn = [c \in Conn |-> Free]
    /\ usable \in BOOLEAN
    /\ setting \in Settings
    /\ truth = [what |-> NULL, opts |-> {}]
    /\ disturbed = {}
    /\ faults = 0

Ends(c) ==
    \/ ScanTimer(c)
    \/ \E opts \in SUBSET Option : Closed(c, opts)

Next ==
    \/ \E p \in Process : SqlStep(p) \/ Start(p) \/ Open(p) \/ Crash(p)
    \/ \E p \in Process : List(p) \/ Dispatch(p)
    \/ End
    \/ \E c \in Conn : Join(c) \/ ConnectionError(c) \/ Connected(c) \/ Ends(c)
    \/ \E c \in Conn, what \in Data : ReportMssp(c, what)
    \/ Tick

Spec == Init /\ [][Next]_vars

(* What a process does by itself: it executes the statements of a callback to *)
(* the end and gets through its start; libwebsockets gives every attempt to   *)
(* connect and every ordered close an end, and a scan's socket a timer, which *)
(* comes whatever the game sends in between; and so does the scanner's own.  *)
Promises ==
    \A p \in Process :
        /\ []<>(proc[p].todo = <<>> /\ proc[p].run # "starting")
        /\ []<>(conn[ScanOf(p)].st \notin {"connecting", "closing"})
        /\ []<>(conn[ScanOf(p)].st # "open")

Scanner(p) == List(p) \/ Dispatch(p) \/ (p = "forced" /\ End)

Fairness == Promises /\ \A p \in Process : WF_vars(Scanner(p))

FairSpec == Spec /\ Fairness

-----------------------------------------------------------------------------
(* What must hold *)

(* No process runs on a database that lacks its version or the server's own   *)
(* game: whenever the creation of the file was interrupted, by whichever of   *)
(* two processes, no later start gets beyond the version check (gamedb.c,     *)
(* locid.c).                                                                *)
RunsOnComplete ==
    \A p \in Process : proc[p].run = "up" => db.tables /\ db.home /\ db.version

Undisturbed(kind) ==
    kind \notin disturbed /\ \A p \in Process : kind \notin KindsIn(proc[p].todo)

(* What the browser shows of a game is the last report, under the name that   *)
(* was in it, and the game is marked as updated if any notable field changed  *)
(* lately (gamedb.c).  One undisturbed report makes up for those before that  *)
(* failed half way or met the other process's, or left two of one second.    *)
AboutIsLast ==
    Undisturbed("mssp") /\ truth.what # NULL
    => /\ AboutGame = [name |-> {truth.what}, mssp |-> {truth.what}]
       /\ age["differed"] <= Recent => MarkedUpdated

(* The rows of TELOPTS are one connection's, the last that asked the game for *)
(* MSSP: no option twice, none that this connection did not find.  A          *)
(* connection whose deletion and insertions met no other's puts that right.  *)
TeloptsOfOne ==
    Undisturbed("telopts")
    => db.telopts = [o \in Option |-> IF o \in truth.opts THEN 1 ELSE 0]

(* A game that the scanner has given up, and that --list-scan calls DOWN, has *)
(* not answered any scan for as long as scan_down; and one that the last scan *)
(* reached has a greeting (scan.c, gamedb.c).                                *)
GivenUpIsDown ==
    /\ Undisturbed("scan")
    /\ \A c \in Conn : IsScan(c) => conn[c].st # "open"
    => /\ GivenUp \/ ListedDown => ~Younger("answered", Down)
       /\ db.status = "APPROVED" => db.greeted

(* A game whose data were stored is not asked again before crawl_delay is over,   *)
(* though the data may have been no news, and though the user and the scanner *)
(* decide about it independently (gamedb.c, connect.c).                      *)
CrawlKept ==
    [][\A c \in Conn :
         /\ conn[c].st # "connecting" /\ conn'[c].st = "connecting"
         /\ conn'[c].known
         /\ Undisturbed("mssp") /\ Younger("created", CrawlDelay)
         => ~conn'[c].request]_vars

(* A game that is to be scanned is scanned, however often the server is in    *)
(* between connected to it and told news of it, unless that stops.           *)
Refreshed ==
    ("scan" \in setting.kinds /\ "scan" \in setting.conns
     /\ usable /\ Due /\ proc["server"].run = "up")
      ~> (~Due \/ proc["server"].run # "up")

(* "Running in Forced scan mode, will exit upon completion": it does, unless   *)
(* an entry has a port that cannot be connected to.  (scan.c)                *)
ForcedEnds ==
    ("forced" \in setting.conns /\ usable /\ proc["forced"].run = "up")
      ~> (proc["forced"].run = "off")

=============================================================================
