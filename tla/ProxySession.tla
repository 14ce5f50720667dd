---------------------------- MODULE ProxySession ----------------------------
(***************************************************************************)
(* The session core of locid, the LociTerm proxy server.                    *)
(*                                                                         *)
(* locid runs one libwebsockets event loop.  Each browser has a websocket,  *)
(* each game a raw telnet socket, and a proxy_conn_t joins the two:         *)
(*                                                                         *)
(*     client wsi -- client_conn_t -- proxy_conn_t -- game_conn_t -- wsi    *)
(*                                                                         *)
(* The links are raw pointers in both directions.  A browser that lost its  *)
(* websocket comes back with the uuid of its game, and the game_conn_t is   *)
(* moved from the old proxy_conn_t to the new one.  This module models every *)
(* callback that makes, moves or breaks one of these links, as one action   *)
(* per callback.  The queues' contents, the telnet layer and the database   *)
(* are left to other modules.                                               *)
(***************************************************************************)
EXTENDS Naturals, FiniteSets

CONSTANTS
    Proxy,      \* proxy_conn_t objects (memory that free/malloc may reuse)
    Game,       \* game_conn_t objects; one also stands for the uuid it holds
    Wsi,        \* libwebsockets sockets to a game
    Scanning,   \* does the configuration let the site scanner run?
    NULL        \* the null pointer, and a reconnect key that names no game

ASSUME NullAssumption == NULL \notin Proxy \cup Game \cup Wsi
ASSUME ScanningAssumption == Scanning \in BOOLEAN

VARIABLES
    up,         \* is the locid process running?
    proxy,      \* proxy[p]: a proxy_conn_t and the client_conn_t it owns
    game,       \* game[g]: a game_conn_t
    wsi         \* wsi[w]: what libwebsockets knows of a game socket

vars == <<up, proxy, game, wsi>>

-----------------------------------------------------------------------------
(* Data *)

\* proxy_state_t, without the two values nothing assigns.
State == {"NULL", "INIT", "DOWN", "CONNECTING", "UP", "BLOCKING",
          "RECONNECTING", "CLOSING"}

\* The code tests "state <= PRXY_DOWN" on the enumeration's order.
AtMostDown(st) == st \in {"NULL", "INIT", "DOWN"}

(* game     pc->game                                                       *)
(* cst      pc->client->client_state                                       *)
(* net      the websocket: "none" when wsi_client is NULL, "peerclosed"    *)
(*          between WS_PEER_INITIATED_CLOSE and CLOSED                     *)
(* key      the uuid in client->requested_game, while the request waits    *)
(*          for the old game to close; NULL once read, if there is none,   *)
(*          or if the game_conn_t it named is gone                         *)
(* scan     pc->scanner is set: the proxy belongs to the site scanner      *)
ProxyRecord ==
    [live : BOOLEAN, game : Game \cup {NULL}, cst : State,
     net : {"none", "open", "peerclosed"},
     key : Game \cup {NULL}, scan : BOOLEAN]

(* pc       game->pc                                                       *)
(* st       game->game_state                                               *)
(* wsi      game->wsi_game                                                 *)
(* tel      game->game_telnet is set                                       *)
(* check    game->check_protocol is not zero                               *)
(* known    a browser has been sent the uuid in a CONNECT message          *)
GameRecord ==
    [pc : Proxy \cup {NULL}, st : State, wsi : Wsi \cup {NULL}, tel : BOOLEAN,
     check : BOOLEAN, known : BOOLEAN]

(* pc       the wsi's opaque user data                                     *)
(* kill     a libwebsockets timeout will close the socket                  *)
(* want     a RAW_WRITEABLE callback has been asked for                    *)
WsiRecord ==
    [st : {"free", "connecting", "open"}, pc : Proxy \cup {NULL},
     kill : BOOLEAN, want : BOOLEAN]

FreeProxy == [live |-> FALSE, game |-> NULL, cst |-> "NULL", net |-> "none",
              key |-> NULL, scan |-> FALSE]
FreeGame  == [pc |-> NULL, st |-> "NULL", wsi |-> NULL, tel |-> FALSE,
              check |-> FALSE, known |-> FALSE]
FreeWsi   == [st |-> "free", pc |-> NULL, kill |-> FALSE, want |-> FALSE]

\* new_proxy_conn(), its client_conn_t included, and new_game_conn().
NewProxy(g) == [FreeProxy EXCEPT !.live = TRUE, !.game = g, !.cst = "INIT"]
NewGame(p)  == [FreeGame EXCEPT !.pc = p, !.st = "INIT"]
NewWsi(p)   == [FreeWsi EXCEPT !.st = "connecting", !.pc = p]

TypeOK ==
    /\ up \in BOOLEAN
    /\ proxy \in [Proxy -> ProxyRecord]
    /\ game \in [Game -> GameRecord]
    /\ wsi \in [Wsi -> WsiRecord]

-----------------------------------------------------------------------------
(* The C functions the callbacks share.  Each takes the proxies P, games G *)
(* and sockets W it finds and returns, or commits, what it leaves, so that *)
(* a handler is the composition of the calls it makes, in their order.     *)

Becomes(P, G, W) ==
    /\ proxy' = P
    /\ game' = G
    /\ wsi' = W
    /\ UNCHANGED up

\* lws_set_timeout or lws_wsi_close(ASYNC): libwebsockets closes w later.
KillWsi(W, w) == IF w = NULL THEN W ELSE [W EXCEPT ![w].kill = TRUE]

\* When a game_conn_t is freed, its uuid no longer names anything.
Forget(k, g) == IF k = g THEN NULL ELSE k

\* loci_client_shutdown, guarded by "wsi_client is set": CLOSING also means
\* that libwebsockets will close the websocket within a second.
ClientShutdown(P, p) ==
    IF P[p].net = "none" THEN P
    ELSE [P EXCEPT ![p].cst = "CLOSING"]

\* loci_game_shutdown, guarded by "wsi_game is set".
GameShutdownG(G, g) ==
    IF G[g].wsi = NULL THEN G ELSE [G EXCEPT ![g].st = "CLOSING"]
GameShutdownW_NoTimeout(G, W, g) == W
GameShutdownW(G, W, g) == KillWsi(W, G[g].wsi)

(* loci_proxy_shutdown: finish a scan, then close the game side if it is    *)
(* there, else the client side if it is there, else free the proxy with    *)
(* its client_conn_t and its game_conn_t.                                  *)
LastSideGone(P, G, p) == G[P[p].game].wsi = NULL /\ P[p].net = "none"

ProxyShutdownP(P, G, p) ==
    LET Q == [P EXCEPT ![p].scan = FALSE] IN
    IF LastSideGone(P, G, p)
    THEN [q \in Proxy |->
            IF q = p THEN FreeProxy
            ELSE [P[q] EXCEPT !.key = Forget(@, P[p].game)]]
    ELSE IF G[P[p].game].wsi = NULL THEN ClientShutdown(Q, p) ELSE Q

ProxyShutdownG(P, G, p) ==
    IF LastSideGone(P, G, p) THEN [G EXCEPT ![P[p].game] = FreeGame]
    ELSE GameShutdownG(G, P[p].game)

ProxyShutdownW(P, G, W, p) == GameShutdownW(G, W, P[p].game)

Shutdown(P, G, W, p) ==
    Becomes(ProxyShutdownP(P, G, p), ProxyShutdownG(P, G, p),
            ProxyShutdownW(P, G, W, p))

(* security_enforcement, which opens every callback of either side: a game *)
(* still BLOCKING with flags to pass when check_wait is over is sent to     *)
(* CLOSING and its socket killed.  There is no clock: a callback made in    *)
(* that state comes before the deadline or after it ("late").              *)
Lateness(g) ==
    IF game[g].st = "BLOCKING" /\ game[g].check THEN BOOLEAN ELSE {FALSE}

EnforcedG(g, late) ==
    IF late THEN [game EXCEPT ![g].st = "CLOSING"] ELSE game
EnforcedW(g, late) == IF late THEN KillWsi(wsi, game[g].wsi) ELSE wsi

\* The process dies on a null pointer; the kernel closes its sockets.
Crash ==
    /\ up' = FALSE
    /\ proxy' = [p \in Proxy |-> FreeProxy]
    /\ game' = [g \in Game |-> FreeGame]
    /\ wsi' = [w \in Wsi |-> FreeWsi]

-----------------------------------------------------------------------------
(* Connecting to a game *)

\* callback_loci_game's connection-error case, once libwebsockets has let go.
ConnectFailed_StateKept(P, G, W, p) ==
    Shutdown(P, [G EXCEPT ![P[p].game].wsi = NULL], W, p)
ConnectFailed(P, G, W, p) ==
    Shutdown(P, [G EXCEPT ![P[p].game].wsi = NULL, ![P[p].game].st = "INIT"],
             W, p)

(* loci_connect_to_game_host.  The name or port may be refused before any  *)
(* socket exists; lws_client_connect_via_info may fail at once, and the    *)
(* code then calls its own callback; or there is a new socket, whose       *)
(* LWS_CALLBACK_CONNECTING is made from inside the call.  A browser is     *)
(* sent the uuid only in the last case.                                    *)
ConnectHost(P, G, W, p) ==
    LET g  == P[p].game
        W0 == KillWsi(W, G[g].wsi)
    IN  \/ Becomes(P, G, W0)
        \/ ConnectFailed(P, G, W0, p)
        \/ \E w \in Wsi :
              /\ W0[w].st = "free"
              /\ Becomes(P,
                         [G EXCEPT ![g].wsi = w, ![g].st = "CONNECTING",
                                   ![g].known = @ \/ ~P[p].scan],
                         [W0 EXCEPT ![w] = NewWsi(p)])

(* loci_connect_to_game_uuid once the key has named proxy old: the two     *)
(* proxies swap game_conn_ts, the back pointers and the socket's opaque    *)
(* pointer follow, the old proxy is shut down, and the terminal's state is *)
(* sent to the game again.  The socket is used without a test for NULL.    *)
SwapGames_OldKeepsIts(P, p, old) == [P EXCEPT ![p].game = P[old].game]
SwapGames(P, p, old) ==
    [P EXCEPT ![p].game = P[old].game, ![old].game = P[p].game]
SwapBackPointers_OneSided(P, G, p, old) == [G EXCEPT ![P[old].game].pc = p]
SwapBackPointers(P, G, p, old) ==
    [G EXCEPT ![P[old].game].pc = p, ![P[p].game].pc = old]
SwapOpaque_Forgotten(P, G, W, p, old) == W
SwapOpaque_WrongPointer(P, G, W, p, old) ==
    [W EXCEPT ![G[P[old].game].wsi].pc = P[p].game]
SwapOpaque(P, G, W, p, old) ==
    [W EXCEPT ![G[P[old].game].wsi].pc = p]

TakeGame(P, G, W, p, old) ==
    LET g  == P[old].game
        w  == G[g].wsi
        P1 == SwapGames(P, p, old)
        G1 == SwapBackPointers(P, G, p, old)
        W1 == SwapOpaque(P, G, W, p, old)
        W2 == ProxyShutdownW(P1, G1, W1, old)
    IN  IF w = NULL THEN Crash
        ELSE Becomes(ProxyShutdownP(P1, G1, old),
                     [ProxyShutdownG(P1, G1, old) EXCEPT ![g].known = TRUE],
                     [W2 EXCEPT ![w].want = @ \/ G[g].tel])

\* security_require: flags to pass and a deadline, or neither.
SecurityRequire(G, g, check) == [G EXCEPT ![g].check = check]

(* loci_connect_requested_game: a uuid that still names a game is honoured *)
(* first.  Otherwise the request is refused for its host name, or a host   *)
(* (the one asked for, or the server's default) is tried: with no check    *)
(* for an approved, redacted or default game, with the configured one for  *)
(* a game nobody has approved yet.  What the database answers is not known *)
(* here, so any of these may happen.                                       *)
Found(P, k) == {q \in Proxy : P[q].live /\ P[q].game = k}

ConnectRequested(P, G, W, p, k) ==
    IF Found(P, k) # {}
    THEN \E old \in Found(P, k) : TakeGame(P, G, W, p, old)
    ELSE \/ Becomes(P, G, W)
         \/ \E check \in BOOLEAN :
               ConnectHost(P, SecurityRequire(G, P[p].game, check), W, p)

-----------------------------------------------------------------------------
(* Callbacks on the browser's websocket *)

\* What a browser can put in a CONNECT message.
KnownKeys == {NULL} \cup {g \in Game : game[g].known}

\* LWS_CALLBACK_ESTABLISHED.
ClientEstablished(p) ==
    /\ up /\ ~proxy[p].live
    /\ \E g \in Game :
         /\ game[g].pc = NULL
         /\ Becomes([proxy EXCEPT ![p] = [NewProxy(g) EXCEPT !.cst = "UP",
                                                            !.net = "open"]],
                    [game EXCEPT ![g] = NewGame(p)], wsi)

(* LWS_CALLBACK_RECEIVE of a CONNECT message: loci_connect_verbose.  k is  *)
(* the uuid in it, NULL standing for none, for "invalidate" and for any    *)
(* uuid that names no game; a browser knows only the uuids it was sent.    *)
(* A proxy with a game socket closes that first and saves the request.     *)
(* Its own game's uuid is ignored, but takes the place of a saved request,   *)
(* which is looked at again only while RECONNECTING.                        *)
Switch_NoClose(P, G, W, p, k) ==
    Becomes([P EXCEPT ![p].key = k],
            [G EXCEPT ![P[p].game].st = "RECONNECTING"], W)
Switch(P, G, W, p, k) ==
    LET g == P[p].game IN
    Becomes([P EXCEPT ![p].key = k], [G EXCEPT ![g].st = "RECONNECTING"],
            KillWsi(W, G[g].wsi))

ConnectVerbose(P, G, W, p, k) ==
    CASE k = P[p].game ->
            Becomes([P EXCEPT ![p].key = IF G[k].st = "RECONNECTING" THEN k ELSE @],
                    G, W)
      [] k # P[p].game /\ G[P[p].game].wsi # NULL -> Switch(P, G, W, p, k)
      [] OTHER -> ConnectRequested(P, G, W, p, k)

ClientConnect(p, k) ==
    LET g == proxy[p].game IN
    /\ up /\ proxy[p].net = "open"
    /\ k \in KnownKeys
    /\ \E late \in Lateness(g) :
         ConnectVerbose(proxy, EnforcedG(g, late), EnforcedW(g, late), p, k)

\* LWS_CALLBACK_RECEIVE of a DISCONNECT message: loci_game_shutdown.
ClientDisconnect(p) ==
    LET g == proxy[p].game IN
    /\ up /\ proxy[p].net = "open"
    /\ \E late \in Lateness(g) :
         Becomes(proxy, GameShutdownG(EnforcedG(g, late), g),
                 GameShutdownW(game, EnforcedW(g, late), g))

(* LWS_CALLBACK_RECEIVE of terminal data, GMCP, a resize or a charset: it  *)
(* goes through the telnet layer, if there is one, to the game's queue.    *)
AskWriteable(W, w) == IF w = NULL THEN W ELSE [W EXCEPT ![w].want = TRUE]

ClientData(p) ==
    LET g == proxy[p].game IN
    /\ up /\ proxy[p].net = "open"
    /\ game[g].tel
    /\ \E late \in Lateness(g) :
         Becomes(proxy, EnforcedG(g, late),
                 AskWriteable(EnforcedW(g, late), game[g].wsi))

(* LWS_CALLBACK_SERVER_WRITEABLE, and every other message: only the check  *)
(* of the deadline that opens the callback touches this module's state.    *)
ClientWriteable(p) ==
    LET g == proxy[p].game IN
    /\ up /\ proxy[p].net # "none"
    /\ TRUE \in Lateness(g)
    /\ Becomes(proxy, EnforcedG(g, TRUE), EnforcedW(g, TRUE))

\* LWS_CALLBACK_WS_PEER_INITIATED_CLOSE: wsi_client stays set.
ClientPeerClose(p) ==
    LET g == proxy[p].game IN
    /\ up /\ proxy[p].net = "open"
    /\ \E late \in Lateness(g) :
         Becomes([proxy EXCEPT ![p].net = "peerclosed", ![p].cst = "DOWN"],
                 EnforcedG(g, late), EnforcedW(g, late))

(* LWS_CALLBACK_CLOSED, for whatever reason the websocket went away: a     *)
(* full close if the game side is at most DOWN, else a half close.         *)
WebsocketGone_StateKept(P, p, cst) == [P EXCEPT ![p].net = "none"]
WebsocketGone(P, p, cst) == [P EXCEPT ![p].net = "none", ![p].cst = cst]

ClientClose(P, G, W, p) ==
    IF AtMostDown(G[P[p].game].st)
    THEN Shutdown(WebsocketGone(P, p, "INIT"), G, W, p)
    ELSE Becomes(WebsocketGone(P, p, "DOWN"), G, W)

ClientClosed(p) ==
    LET g == proxy[p].game IN
    /\ up /\ proxy[p].net # "none"
    /\ \E late \in Lateness(g) :
         ClientClose(proxy, EnforcedG(g, late), EnforcedW(g, late), p)

(* loci_proxy_watchdog: patted while both sides are UP; otherwise it may   *)
(* be more than idle_proxy_timeout since the last pat, and it barks.       *)
Watchdog(P, G, p) ==
    IF P[p].cst = "UP" /\ G[P[p].game].st = "UP" THEN {FALSE} ELSE BOOLEAN

\* LWS_CALLBACK_TIMER of the websocket, every ten seconds.
ClientTimer(p) ==
    LET g == proxy[p].game IN
    /\ up /\ proxy[p].net # "none"
    /\ \E late \in Lateness(g) :
         LET G0 == EnforcedG(g, late)
             W0 == EnforcedW(g, late)
         IN  \E bark \in Watchdog(proxy, G0, p) :
               IF bark THEN Shutdown(proxy, G0, W0, p)
               ELSE Becomes(proxy, G0, W0)

-----------------------------------------------------------------------------
(* Callbacks on a game's socket.  The proxy is the socket's opaque pointer, *)
(* and the game_conn_t is whichever that proxy holds now.                  *)

(* LWS_CALLBACK_CLIENT_CONNECTION_ERROR; a kill of a socket that has not   *)
(* connected yet ends here too.  libwebsockets destroys the socket.  (A    *)
(* connecting game is not BLOCKING: there is no deadline to enforce.)      *)
GameConnectError(w) ==
    /\ up /\ wsi[w].st = "connecting"
    /\ ConnectFailed(proxy, game, [wsi EXCEPT ![w] = FreeWsi], wsi[w].pc)

(* LWS_CALLBACK_RAW_CONNECTED.  libwebsockets replaces the timeout of a    *)
(* socket when it connects: a kill ordered before may be lost.             *)
GameConnected(w) ==
    LET g == proxy[wsi[w].pc].game IN
    /\ up /\ wsi[w].st = "connecting"
    /\ \E kill \in {FALSE, wsi[w].kill} :
         Becomes(proxy,
                 [game EXCEPT ![g].tel = TRUE,
                              ![g].st = IF game[g].check THEN "BLOCKING" ELSE "UP"],
                 [wsi EXCEPT ![w].st = "open", ![w].kill = kill])

\* free_game_conn, then new_game_conn for the same proxy.
NewGameP(P, p, g2) ==
    [q \in Proxy |->
        IF q = p THEN [P[q] EXCEPT !.game = g2, !.key = NULL]
        ELSE [P[q] EXCEPT !.key = Forget(@, P[p].game)]]
NewGameG(P, G, p, g2) == [G EXCEPT ![P[p].game] = FreeGame, ![g2] = NewGame(p)]

(* The body of LWS_CALLBACK_RAW_CLOSE for a socket that still has a proxy. *)
(* The first break comes before the game state is touched.                 *)
DropSocket(G, g) == [G EXCEPT ![g].wsi = NULL]

SwitchNow(P, G, W, p) ==
    \E g2 \in {x \in Game : G[x].pc = NULL} \cup {P[p].game} :
        ConnectRequested(NewGameP(P, p, g2), NewGameG(P, G, p, g2), W, p,
                         Forget(P[p].key, P[p].game))

RawClose(P, G, W, p) ==
    LET g == P[p].game IN
    CASE AtMostDown(P[p].cst) -> Shutdown(P, DropSocket(G, g), W, p)
      [] ~AtMostDown(P[p].cst) /\ G[g].st = "RECONNECTING" -> SwitchNow(P, G, W, p)
      [] OTHER -> Becomes(ClientShutdown(P, p),
                          [DropSocket(G, g) EXCEPT ![g].st = "DOWN"], W)

(* LWS_CALLBACK_RAW_CLOSE: the game hung up, or a kill has come due.  A    *)
(* socket whose opaque pointer was cleared has been dealt with before.     *)
GameClosed(w) ==
    LET p == wsi[w].pc
        g == proxy[p].game
    IN  /\ up /\ wsi[w].st = "open"
        /\ IF p = NULL
           THEN Becomes(proxy, game, [wsi EXCEPT ![w] = FreeWsi])
           ELSE \E late \in Lateness(g) :
                  RawClose(proxy, EnforcedG(g, late),
                           [EnforcedW(g, late) EXCEPT ![w] = FreeWsi], p)

(* LWS_CALLBACK_RAW_WRITEABLE.  While CLOSING or RECONNECTING it is        *)
(* handled as a RAW_CLOSE, although the socket itself stays open until the *)
(* kill; the game state is read before the test for a null proxy.          *)
Writeable(G, W, w, p) ==
    IF G[proxy[p].game].st \in {"CLOSING", "RECONNECTING"}
    THEN RawClose(proxy, G, [W EXCEPT ![w].pc = NULL, ![w].want = FALSE], p)
    ELSE \E more \in BOOLEAN : Becomes(proxy, G, [W EXCEPT ![w].want = more])

GameWriteable(w) ==
    LET p == wsi[w].pc
        g == proxy[p].game
    IN  /\ up /\ wsi[w].st = "open" /\ wsi[w].want
        /\ IF p = NULL THEN Crash
           ELSE \E late \in Lateness(g) :
                  Writeable(EnforcedG(g, late), EnforcedW(g, late), w, p)

(* LWS_CALLBACK_RAW_RX: unless CLOSING, the telnet layer reads the bytes;  *)
(* it may see the flags still required, and it may answer.  A BLOCKING     *)
(* game with no flag left is let through.                                  *)
Parsed_AnyByteUnblocks(G, g, passes) ==
    [G EXCEPT ![g].st = IF @ = "BLOCKING" THEN "UP" ELSE @]
Parsed(G, g, passes) ==
    LET check == G[g].check /\ ~(G[g].st # "CLOSING" /\ passes) IN
    [G EXCEPT ![g].check = check,
              ![g].st = IF @ = "BLOCKING" /\ ~check THEN "UP" ELSE @]

GameRx(w) ==
    LET g == proxy[wsi[w].pc].game IN
    /\ up /\ wsi[w].st = "open" /\ wsi[w].pc # NULL
    /\ \E late \in Lateness(g), passes, answers \in BOOLEAN :
         LET G0 == EnforcedG(g, late)
             W0 == EnforcedW(g, late)
         IN  Becomes(proxy, Parsed(G0, g, passes),
                     IF answers /\ G0[g].st # "CLOSING" THEN AskWriteable(W0, w)
                     ELSE W0)

(* LWS_CALLBACK_TIMER of the socket, every ten seconds.  A scanner's proxy *)
(* is shut down at the first one.                                          *)
GameTimer_OnlyWhenUp(w) ==
    LET p == wsi[w].pc IN
    /\ up /\ wsi[w].st = "open" /\ p # NULL
    /\ game[proxy[p].game].st = "UP"
    /\ \E bark \in Watchdog(proxy, game, p) :
         IF bark \/ proxy[p].scan THEN Shutdown(proxy, game, wsi, p)
         ELSE Becomes(proxy, game, wsi)
GameTimer(w) ==
    LET p == wsi[w].pc
        g == proxy[p].game
    IN  /\ up /\ wsi[w].st = "open" /\ p # NULL
        /\ \E late \in Lateness(g) :
             LET G0 == EnforcedG(g, late)
                 W0 == EnforcedW(g, late)
             IN  \E bark \in Watchdog(proxy, G0, p) :
                   IF bark \/ proxy[p].scan THEN Shutdown(proxy, G0, W0, p)
                   ELSE Becomes(proxy, G0, W0)

-----------------------------------------------------------------------------
(* The scanner and the supervisor *)

\* scanner_dispatch: a proxy with no browser connects to one listed game.
ScannerDispatch(p) ==
    /\ Scanning /\ up /\ ~proxy[p].live
    /\ \E g \in Game :
         /\ game[g].pc = NULL
         /\ ConnectHost([proxy EXCEPT ![p] = [NewProxy(g) EXCEPT !.scan = TRUE]],
                        [game EXCEPT ![g] = NewGame(p)], wsi, p)

\* systemd's Restart=always starts a new process with no sessions.
Restart == ~up /\ up' = TRUE /\ UNCHANGED <<proxy, game, wsi>>

Init ==
    /\ up = TRUE
    /\ proxy = [p \in Proxy |-> FreeProxy]
    /\ game = [g \in Game |-> FreeGame]
    /\ wsi = [w \in Wsi |-> FreeWsi]

ClientStep(p) ==
    \/ ClientEstablished(p)
    \/ \E k \in Game \cup {NULL} : ClientConnect(p, k)
    \/ ClientDisconnect(p)
    \/ ClientData(p)
    \/ ClientWriteable(p)
    \/ ClientPeerClose(p)
    \/ ClientClosed(p)
    \/ ClientTimer(p)

GameStep(w) ==
    \/ GameConnectError(w)
    \/ GameConnected(w)
    \/ GameClosed(w)
    \/ GameWriteable(w)
    \/ GameRx(w)
    \/ GameTimer(w)

Next ==
    \/ \E p \in Proxy : ClientStep(p) \/ ScannerDispatch(p)
    \/ \E w \in Wsi : GameStep(w)
    \/ Restart

Spec == Init /\ [][Next]_vars

(* What libwebsockets and the clock promise.  The library never leaves a   *)
(* kill pending, a connection attempt undecided or a closing websocket     *)
(* open for ever; and a socket's timer, which fires every ten seconds, in  *)
(* the end finds a passed deadline or an expired watchdog.  Nothing is     *)
(* promised of browsers and games: they may never send, read or close.     *)
LibraryPromises ==
    /\ \A w \in Wsi : []<>(~wsi[w].kill) /\ []<>(wsi[w].st # "connecting")
    /\ \A p \in Proxy :
         []<>(proxy[p].cst # "CLOSING" /\ proxy[p].net # "peerclosed")

Fairness == LibraryPromises /\ \A w \in Wsi : WF_vars(GameTimer(w))

FairSpec == Spec /\ Fairness

-----------------------------------------------------------------------------
(* What must hold *)

(* Every pointer has its counterpart.  A live proxy owns one game_conn_t,  *)
(* which points back to it; no two proxies own the same; nothing points to *)
(* a proxy or a game_conn_t that was freed.  find_proxy_conn_by_uuid,      *)
(* free_proxy_conn and every handler that writes pc->game->... rest on it. *)
Owns(P, G) ==
    /\ \A p \in Proxy :
         IF P[p].live THEN P[p].game \in Game /\ G[P[p].game].pc = p
         ELSE P[p].net = "none"
    /\ \A g \in Game :
         IF G[g].pc = NULL THEN G[g].wsi = NULL
         ELSE P[G[g].pc].live /\ P[G[g].pc].game = g

(* A socket's opaque pointer and game->wsi_game agree: a callback reaches  *)
(* the proxy whose game_conn_t holds that socket, or no proxy at all, also *)
(* after a reconnect moved the game_conn_t under the socket's feet.        *)
Wired(P, G, W) ==
    /\ \A g \in Game : G[g].wsi # NULL =>
         W[G[g].wsi].st # "free" /\ W[G[g].wsi].pc = G[g].pc
    /\ \A w \in Wsi : W[w].pc # NULL =>
         P[W[w].pc].live /\ G[P[W[w].pc].game].wsi = w

(* A browser that can still send has a client_conn_t that is UP or         *)
(* CLOSING, and its proxy never believes in a game connection that is not  *)
(* there: a game state beyond DOWN comes with a socket.  loci_connect_     *)
(* verbose chooses between "close first" and "connect now" on it.          *)
SidesAgree(P, G) ==
    \A p \in Proxy : P[p].live =>
        /\ P[p].net = "open" => P[p].cst \in {"UP", "CLOSING"}
        /\ P[p].net = "none" => AtMostDown(P[p].cst)
        /\ P[p].net = "open" /\ ~AtMostDown(G[P[p].game].st)
             => G[P[p].game].wsi # NULL

(* No socket outlives its proxy unattended: a socket whose opaque pointer  *)
(* was cleared has a kill under way, and has no callback pending that      *)
(* would follow the null pointer (game.c reads pc->game->game_state in     *)
(* RAW_WRITEABLE before it tests pc).                                      *)
Attended(G, W) ==
    /\ \A w \in Wsi : W[w].st # "free" /\ W[w].pc = NULL =>
         W[w].st = "open" /\ W[w].kill /\ ~W[w].want
    /\ \A g \in Game : G[g].wsi # NULL /\ G[g].st \in {"CLOSING", "RECONNECTING"}
         => W[G[g].wsi].kill

Ownership == Owns(proxy, game)
SocketWiring == Wired(proxy, game, wsi)
SidesConsistent == SidesAgree(proxy, game)
SocketsAttended == Attended(game, wsi)

(* A game whose protocol check is still outstanding is never UP, whatever  *)
(* reconnects, replaced requests and reused game_conn_ts came before.      *)
Gated(G) == \A g \in Game : G[g].st = "UP" => ~G[g].check

UncheckedNeverUp == Gated(game)

(* A reconnect moves a connection between proxies as it is: when a socket's *)
(* proxy changes, the game_conn_t moves along with its state, its telnet   *)
(* layer and its outstanding check, so a reconnect neither drops the game  *)
(* nor sheds the check, and the old proxy is left with another game_conn_t *)
(* or freed.                                                               *)
ReconnectKeepsGame ==
    [][\A w \in Wsi :
         LET p == wsi[w].pc
             q == wsi'[w].pc
             g == proxy[p].game
         IN  p # NULL /\ q # NULL /\ p # q =>
             /\ proxy'[q].game = g /\ proxy'[p].game # g
             /\ game'[g] = [game[g] EXCEPT !.pc = q, !.known = TRUE]]_vars

(* A proxy left by its browser does not wait for ever: while it has a game *)
(* connection, either a reconnect takes that over or it is closed in the   *)
(* end, and both free the proxy.                                           *)
HalfOpenReclaimed ==
    \A p \in Proxy :
        proxy[p].live /\ proxy[p].net = "none" /\ game[proxy[p].game].wsi # NULL
        ~> ~proxy[p].live

(* The security check decides: a connected game does not stay BLOCKING,    *)
(* even if it never sends a byte and reconnects keep moving it around.     *)
BlockResolves ==
    \A g \in Game :
        game[g].st = "BLOCKING" /\ game[g].wsi # NULL
        ~> game[g].st # "BLOCKING" \/ game[g].wsi = NULL

(* A game side told to close, or to make room for another game, does so,   *)
(* unless the connection it was still making overtakes the request.        *)
ClosingEnds ==
    \A g \in Game :
        game[g].st \in {"CLOSING", "RECONNECTING"} /\ game[g].wsi # NULL
        ~> game[g].st \notin {"CLOSING", "RECONNECTING"} \/ game[g].wsi = NULL

(* What the code's comments and documents say, and the code does not do.   *)

(* client.c says that a closing websocket whose game side "has closed and  *)
(* cleaned itself up" takes the proxy_conn_t with it: a proxy with neither *)
(* side left would never see another callback.                             *)
NoOrphan ==
    \A p \in Proxy :
        proxy[p].live /\ proxy[p].net = "none" /\ ~proxy[p].scan
        => game[proxy[p].game].wsi # NULL

(* README.md promises seamless roaming: a browser that comes back with the *)
(* uuid of its game never takes the server, and everybody's game, down.    *)
RoamingIsSafe == up

(* connect.c says of a request saved while a game socket was in the way    *)
(* that "the saved request needs to be handled" once that is closed: the   *)
(* step in which the socket goes away reads the request.                   *)
SavedRequestServed ==
    [][\A p \in Proxy :
         LET g == proxy[p].game IN
         /\ proxy[p].cst = "UP" /\ proxy[p].key # NULL
         /\ game[g].st = "RECONNECTING" /\ game[g].wsi # NULL
         /\ wsi'[game[g].wsi].st = "free" /\ up'
         => proxy'[p].key = NULL]_vars

=============================================================================
