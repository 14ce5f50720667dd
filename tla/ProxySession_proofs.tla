------------------------ MODULE ProxySession_proofs ------------------------
(***************************************************************************)
(* The safety invariants of ProxySession, for any sets of proxies,          *)
(* game_conn_ts and sockets.                                                *)
(*                                                                         *)
(* The handlers of ProxySession are compositions of operators over a triple *)
(* (P, G, W) of proxies, games and sockets, and so is the argument: Safe is *)
(* the invariant as a predicate of a triple, every operator has a lemma    *)
(* that it keeps a triple Safe, and the lemma of an action follows the     *)
(* calls the action makes.  The conjuncts of Safe only hold together: the   *)
(* owner of a game_conn_t is the proxy its socket points to, a shutdown    *)
(* frees only what has no socket left, and a socket given up must already  *)
(* be about to close.                                                      *)
(***************************************************************************)
EXTENDS ProxySession, TLAPS

\* TypeOK as a predicate of a triple, less the up flag.
Typed(P, G, W) ==
    /\ P \in [Proxy -> ProxyRecord]
    /\ G \in [Game -> GameRecord]
    /\ W \in [Wsi -> WsiRecord]

\* The conjunction that every handler keeps.
Safe(P, G, W) ==
    /\ Typed(P, G, W)
    /\ Owns(P, G)
    /\ Wired(P, G, W)
    /\ SidesAgree(P, G)
    /\ Attended(G, W)
    /\ Gated(G)

(* loci_game_shutdown sends any game side with a socket to CLOSING and     *)
(* orders the kill in the same step, which is what a closing game needs.   *)
LEMMA GameShutdownSafe ==
    ASSUME NEW P, NEW G, NEW W, NEW g \in Game, Safe(P, G, W)
    PROVE  Safe(P, GameShutdownG(G, g), GameShutdownW(G, W, g))
<1> DEFINE H == GameShutdownG(G, g)
           X == GameShutdownW(G, W, g)
<1>1. /\ P \in [Proxy -> ProxyRecord]
      /\ G \in [Game -> GameRecord]
      /\ W \in [Wsi -> WsiRecord]
  BY DEF Safe, Typed
<1>2. H \in [Game -> GameRecord]
  BY <1>1 DEF GameShutdownG, GameRecord, State
<1>3. X \in [Wsi -> WsiRecord]
  BY <1>1 DEF GameShutdownW, KillWsi, WsiRecord
<1>4. ASSUME NEW x \in Game
      PROVE  /\ H[x].pc = G[x].pc /\ H[x].wsi = G[x].wsi
             /\ H[x].check = G[x].check
             /\ x # g \/ G[x].wsi = NULL => H[x] = G[x]
             /\ x = g /\ G[x].wsi # NULL => H[x].st = "CLOSING"
  BY <1>1 DEF GameShutdownG, GameRecord
<1>5. ASSUME NEW x \in Wsi
      PROVE  /\ X[x].pc = W[x].pc /\ X[x].st = W[x].st /\ X[x].want = W[x].want
             /\ x # G[g].wsi => X[x] = W[x]
             /\ x = G[g].wsi \/ W[x].kill => X[x].kill
  BY <1>1, NullAssumption DEF GameShutdownW, KillWsi, WsiRecord
<1> HIDE DEF H, X
<1>o. Owns(P, H)
  BY <1>1, <1>4, NullAssumption DEF Safe, Owns, ProxyRecord, GameRecord
<1>w. Wired(P, H, X)
  BY <1>1, <1>4, <1>5, NullAssumption DEF Safe, Owns, Wired, GameRecord, WsiRecord, ProxyRecord
<1>s. SidesAgree(P, H)
  BY <1>1, <1>4, NullAssumption DEF Safe, Owns, SidesAgree
<1>a. Attended(H, X)
  BY <1>1, <1>4, <1>5, NullAssumption DEF Safe, Wired, Attended, GameRecord, WsiRecord
<1>g. Gated(H)
  BY <1>1, <1>4 DEF Safe, Gated
<1> QED
  BY <1>1, <1>2, <1>3, <1>o, <1>w, <1>s, <1>a, <1>g DEF Safe, Typed, H, X

\* Nothing the invariant speaks of depends on pc->scanner.
LEMMA ScanDropSafe ==
    ASSUME NEW P, NEW G, NEW W, NEW p \in Proxy, Safe(P, G, W)
    PROVE  Safe([P EXCEPT ![p].scan = FALSE], G, W)
<1> DEFINE Q == [P EXCEPT ![p].scan = FALSE]
<1>1. Typed(P, G, W)
  BY DEF Safe
<1>2. Q \in [Proxy -> ProxyRecord]
  BY <1>1 DEF Typed, ProxyRecord
<1>3. ASSUME NEW q \in Proxy
      PROVE  /\ Q[q].live = P[q].live /\ Q[q].game = P[q].game
             /\ Q[q].cst = P[q].cst /\ Q[q].net = P[q].net
             /\ Q[q].key = P[q].key
  BY <1>1 DEF Typed, ProxyRecord
<1> HIDE DEF Q
<1>o. Owns(Q, G)
  BY <1>1, <1>3, NullAssumption DEF Safe, Typed, Owns, ProxyRecord, GameRecord
<1>w. Wired(Q, G, W)
  BY <1>1, <1>3, NullAssumption DEF Safe, Typed, Wired, WsiRecord
<1>s. SidesAgree(Q, G)
  BY <1>1, <1>3 DEF Safe, SidesAgree
<1> QED
  BY <1>1, <1>2, <1>o, <1>w, <1>s DEF Safe, Typed, Q

\* loci_client_shutdown may start the close of any proxy's browser side.
LEMMA ClientShutdownSafe ==
    ASSUME NEW P, NEW G, NEW W, NEW p \in Proxy, Safe(P, G, W)
    PROVE  Safe(ClientShutdown(P, p), G, W)
<1> DEFINE Q == ClientShutdown(P, p)
<1>1. Typed(P, G, W)
  BY DEF Safe
<1>2. Q \in [Proxy -> ProxyRecord]
  BY <1>1 DEF Typed, ProxyRecord, ClientShutdown, State
<1>3. ASSUME NEW q \in Proxy
      PROVE  /\ Q[q].live = P[q].live /\ Q[q].game = P[q].game
             /\ Q[q].net = P[q].net /\ Q[q].key = P[q].key
             /\ \/ Q[q].cst = P[q].cst
                \/ Q[q].cst = "CLOSING" /\ Q[q].net # "none"
  BY <1>1 DEF Typed, ProxyRecord, ClientShutdown
<1> HIDE DEF Q
<1>o. Owns(Q, G)
  BY <1>1, <1>3, NullAssumption DEF Safe, Typed, Owns, ProxyRecord, GameRecord
<1>w. Wired(Q, G, W)
  BY <1>1, <1>3, NullAssumption DEF Safe, Typed, Wired, WsiRecord
<1>s. SidesAgree(Q, G)
  BY <1>1, <1>3 DEF Safe, SidesAgree
<1> QED
  BY <1>1, <1>2, <1>o, <1>w, <1>s DEF Safe, Typed, Q

(* free_proxy_conn, reached when neither side has a socket: the memory of  *)
(* the proxy and of its game_conn_t goes, with no pointer left to either.  *)
LEMMA FreeSafe ==
    ASSUME NEW P, NEW G, NEW W, NEW p \in Proxy, Safe(P, G, W),
           P[p].live, LastSideGone(P, G, p)
    PROVE  Safe(ProxyShutdownP(P, G, p), ProxyShutdownG(P, G, p), W)
<1> DEFINE Q == ProxyShutdownP(P, G, p)
           H == ProxyShutdownG(P, G, p)
           g == P[p].game
<1>1. Typed(P, G, W) /\ g \in Game /\ G[g].pc = p /\ G[g].wsi = NULL
  BY DEF Safe, Owns, LastSideGone
<1>2. Q \in [Proxy -> ProxyRecord]
  BY <1>1 DEF Typed, ProxyRecord, ProxyShutdownP, LastSideGone, Forget, FreeProxy, State
<1>3. H \in [Game -> GameRecord]
  BY <1>1 DEF Typed, GameRecord, ProxyShutdownG, LastSideGone, FreeGame, State
<1>4. ASSUME NEW q \in Proxy
      PROVE  IF q = p THEN Q[q] = FreeProxy
             ELSE /\ Q[q].live = P[q].live /\ Q[q].game = P[q].game
                  /\ Q[q].net = P[q].net /\ Q[q].cst = P[q].cst
                  /\ Q[q].key = Forget(P[q].key, g)
  BY <1>1 DEF Typed, ProxyRecord, ProxyShutdownP, LastSideGone
<1>5. ASSUME NEW x \in Game
      PROVE  H[x] = IF x = g THEN FreeGame ELSE G[x]
  BY <1>1 DEF Typed, ProxyShutdownG, LastSideGone
<1>6. /\ FreeProxy.live = FALSE /\ FreeProxy.net = "none" /\ FreeProxy.key = NULL
      /\ FreeGame.pc = NULL /\ FreeGame.wsi = NULL /\ FreeGame.st = "NULL"
  BY DEF FreeProxy, FreeGame
<1> HIDE DEF Q, H
<1>o. Owns(Q, H)
  BY <1>1, <1>4, <1>5, <1>6, NullAssumption
     DEF Safe, Typed, Owns, ProxyRecord, GameRecord, Forget
<1>w. Wired(Q, H, W)
  BY <1>1, <1>4, <1>5, <1>6, NullAssumption
     DEF Safe, Typed, Owns, Wired, WsiRecord, GameRecord
<1>s. SidesAgree(Q, H)
  BY <1>1, <1>4, <1>5, <1>6, NullAssumption DEF Safe, Typed, Owns, SidesAgree
<1>a. Attended(H, W) /\ Gated(H)
  BY <1>1, <1>5, <1>6 DEF Safe, Attended, Gated
<1> QED
  BY <1>1, <1>2, <1>3, <1>o, <1>w, <1>s, <1>a DEF Safe, Typed, Q, H

(* loci_proxy_shutdown of a live proxy, whichever of its three cases       *)
(* applies: it frees memory only when neither side has a socket.           *)
LEMMA ShutdownSafe ==
    ASSUME NEW P, NEW G, NEW W, NEW p \in Proxy, Safe(P, G, W), P[p].live
    PROVE  Safe(ProxyShutdownP(P, G, p), ProxyShutdownG(P, G, p),
                ProxyShutdownW(P, G, W, p))
<1> DEFINE Q == [P EXCEPT ![p].scan = FALSE]
           g == P[p].game
<1>1. g \in Game
  BY DEF Safe, Owns
<1>2. CASE LastSideGone(P, G, p)
  BY <1>2, FreeSafe DEF ProxyShutdownW, GameShutdownW, KillWsi, LastSideGone
<1>3. CASE ~LastSideGone(P, G, p) /\ G[g].wsi = NULL
  <2>1. Safe(ClientShutdown(Q, p), G, W)
    BY ScanDropSafe, ClientShutdownSafe
  <2> QED
    BY <1>3, <2>1 DEF ProxyShutdownP, ProxyShutdownG, GameShutdownG,
       ProxyShutdownW, GameShutdownW, KillWsi
<1>4. CASE ~LastSideGone(P, G, p) /\ G[g].wsi # NULL
  BY <1>1, <1>4, ScanDropSafe, GameShutdownSafe
     DEF ProxyShutdownP, ProxyShutdownG, ProxyShutdownW
<1> QED
  BY <1>2, <1>3, <1>4

(* A process that died leaves no object behind, so nothing dangles.        *)
LEMMA CrashSafe == Crash => Safe(proxy', game', wsi')
<1> SUFFICES ASSUME Crash PROVE Safe(proxy', game', wsi')
  OBVIOUS
<1>1. /\ FreeProxy \in ProxyRecord /\ FreeGame \in GameRecord /\ FreeWsi \in WsiRecord
      /\ FreeProxy.live = FALSE /\ FreeProxy.net = "none" /\ FreeProxy.key = NULL
      /\ FreeGame.pc = NULL /\ FreeGame.wsi = NULL /\ FreeGame.st = "NULL"
      /\ FreeWsi.pc = NULL /\ FreeWsi.st = "free"
  BY DEF FreeProxy, FreeGame, FreeWsi, ProxyRecord, GameRecord, WsiRecord, State
<1>2. /\ proxy' = [p \in Proxy |-> FreeProxy]
      /\ game' = [g \in Game |-> FreeGame]
      /\ wsi' = [w \in Wsi |-> FreeWsi]
  BY DEF Crash
<1> QED
  BY <1>1, <1>2 DEF Safe, Typed, Owns, Wired, SidesAgree, Attended, Gated

\* Whether a browser knows the uuid of its game matters to no invariant.
LEMMA KnownSafe ==
    ASSUME NEW P, NEW G, NEW W, NEW g \in Game, NEW b \in BOOLEAN, Safe(P, G, W)
    PROVE  Safe(P, [G EXCEPT ![g].known = b], W)
<1> DEFINE H == [G EXCEPT ![g].known = b]
<1>1. Typed(P, G, W)
  BY DEF Safe
<1>2. H \in [Game -> GameRecord]
  BY <1>1 DEF Typed, GameRecord
<1>3. ASSUME NEW x \in Game
      PROVE  /\ H[x].pc = G[x].pc /\ H[x].st = G[x].st
             /\ H[x].wsi = G[x].wsi /\ H[x].check = G[x].check
  BY <1>1 DEF Typed, GameRecord
<1> HIDE DEF H
<1>o. Owns(P, H)
  BY <1>1, <1>3, NullAssumption DEF Safe, Typed, Owns, ProxyRecord, GameRecord
<1>w. Wired(P, H, W)
  BY <1>1, <1>3, NullAssumption DEF Safe, Typed, Owns, Wired, WsiRecord
<1>s. SidesAgree(P, H)
  BY <1>1, <1>3 DEF Safe, Owns, SidesAgree
<1>a. Attended(H, W) /\ Gated(H)
  BY <1>1, <1>3 DEF Safe, Attended, Gated
<1> QED
  BY <1>1, <1>2, <1>o, <1>w, <1>s, <1>a DEF Safe, Typed, H

\* A callback may be asked for on any socket that still has its proxy.
LEMMA WantSafe ==
    ASSUME NEW P, NEW G, NEW W, NEW w \in Wsi, NEW b \in BOOLEAN,
           Safe(P, G, W), W[w].pc # NULL
    PROVE  Safe(P, G, [W EXCEPT ![w].want = b])
<1> DEFINE X == [W EXCEPT ![w].want = b]
<1>1. Typed(P, G, W)
  BY DEF Safe
<1>2. X \in [Wsi -> WsiRecord]
  BY <1>1 DEF Typed, WsiRecord
<1>3. ASSUME NEW x \in Wsi
      PROVE  /\ X[x].pc = W[x].pc /\ X[x].st = W[x].st /\ X[x].kill = W[x].kill
             /\ X[x].pc = NULL => X[x].want = W[x].want
  BY <1>1 DEF Typed, WsiRecord
<1> HIDE DEF X
<1>w. Wired(P, G, X)
  BY <1>1, <1>3, NullAssumption DEF Safe, Typed, Wired, GameRecord
<1>a. Attended(G, X)
  BY <1>1, <1>3, NullAssumption DEF Safe, Typed, Attended, GameRecord
<1> QED
  BY <1>1, <1>2, <1>w, <1>a DEF Safe, Typed, X

(* Every way a socket and its game_conn_t part: the game forgets the        *)
(* socket, and the socket is destroyed or left, without its proxy, to the   *)
(* kill that is under way.                                                  *)
LEMMA DetachSafe ==
    ASSUME NEW P, NEW G, NEW W, Safe(P, G, W),
           NEW w \in Wsi, NEW p \in Proxy, NEW g \in Game,
           W[w].pc = p, P[p].game = g,
           NEW H \in [Game -> GameRecord], NEW X \in [Wsi -> WsiRecord],
           \A x \in Game : x # g => H[x] = G[x],
           H[g].pc = p, H[g].wsi = NULL, H[g].st = "UP" => ~H[g].check,
           P[p].net = "open" => AtMostDown(H[g].st),
           \A x \in Wsi : x # w => X[x] = W[x],
           X[w].pc = NULL,
           X[w].st # "free" => X[w].st = "open" /\ X[w].kill /\ ~X[w].want
    PROVE  Safe(P, H, X)
<1>1. Typed(P, G, W) /\ P[p].live /\ G[g].wsi = w /\ G[g].pc = p
  BY NullAssumption DEF Safe, Wired, Owns
<1>2. \A x \in Game : H[x].pc = G[x].pc /\ (x # g => H[x] = G[x])
  BY <1>1
<1>3. \A x \in Wsi : x # w => G[g].wsi # x /\ X[x] = W[x]
  BY <1>1
<1>4. \A x \in Game : x # g => G[x].wsi # w
  BY <1>1, NullAssumption DEF Safe, Typed, Wired, Owns, GameRecord
<1>o. Owns(P, H)
  BY <1>1, <1>2, NullAssumption DEF Safe, Typed, Owns, ProxyRecord, GameRecord
<1>w. Wired(P, H, X)
  <2>1. ASSUME NEW x \in Game, H[x].wsi # NULL
        PROVE  X[H[x].wsi].st # "free" /\ X[H[x].wsi].pc = H[x].pc
    BY <1>1, <1>2, <1>3, <1>4, <2>1 DEF Safe, Typed, Wired, GameRecord
  <2>2. ASSUME NEW x \in Wsi, X[x].pc # NULL
        PROVE  P[X[x].pc].live /\ H[P[X[x].pc].game].wsi = x
    <3>1. x # w /\ X[x].pc = W[x].pc /\ W[x].pc \in Proxy
      BY <1>1, <1>3, <2>2 DEF Typed, WsiRecord
    <3>2. P[W[x].pc].live /\ G[P[W[x].pc].game].wsi = x /\ P[W[x].pc].game \in Game
      BY <2>2, <3>1 DEF Safe, Wired, Owns
    <3> QED
      BY <1>1, <1>2, <3>1, <3>2
  <2> QED
    BY <2>1, <2>2 DEF Wired
<1>s. SidesAgree(P, H)
  BY <1>1, NullAssumption DEF Safe, Typed, Owns, SidesAgree
<1>a. Attended(H, X)
  <2>1. ASSUME NEW x \in Wsi, X[x].st # "free", X[x].pc = NULL
        PROVE  X[x].st = "open" /\ X[x].kill /\ ~X[x].want
    BY <1>3, <2>1 DEF Safe, Attended
  <2>2. ASSUME NEW x \in Game, H[x].wsi # NULL,
               H[x].st \in {"CLOSING", "RECONNECTING"}
        PROVE  X[H[x].wsi].kill
    BY <1>1, <1>2, <1>3, <1>4, <2>2 DEF Safe, Typed, Attended, GameRecord
  <2> QED
    BY <2>1, <2>2 DEF Attended
<1>g. Gated(H)
  BY <1>1 DEF Safe, Gated
<1> QED
  BY <1>1, <1>o, <1>w, <1>s, <1>a, <1>g DEF Safe, Typed

(* The same for a step that ends with loci_proxy_shutdown.                 *)
LEMMA ShutdownStepSafe ==
    ASSUME NEW P, NEW G, NEW W, NEW p \in Proxy, Safe(P, G, W), P[p].live,
           Shutdown(P, G, W, p)
    PROVE  Safe(proxy', game', wsi')
  BY ShutdownSafe DEF Shutdown, Becomes

(* security_require only ever touches a game_conn_t that has not connected. *)
LEMMA RequireSafe ==
    ASSUME NEW P, NEW G, NEW W, NEW g \in Game, NEW check \in BOOLEAN,
           Safe(P, G, W), G[g].st # "UP"
    PROVE  Safe(P, SecurityRequire(G, g, check), W)
<1> DEFINE H == SecurityRequire(G, g, check)
<1>1. Typed(P, G, W)
  BY DEF Safe
<1>2. H \in [Game -> GameRecord]
  BY <1>1 DEF Typed, GameRecord, SecurityRequire
<1>3. ASSUME NEW x \in Game
      PROVE  /\ H[x].pc = G[x].pc /\ H[x].st = G[x].st
             /\ H[x].wsi = G[x].wsi /\ (x # g => H[x].check = G[x].check)
  BY <1>1 DEF Typed, GameRecord, SecurityRequire
<1> HIDE DEF H
<1>o. Owns(P, H)
  BY <1>1, <1>3, NullAssumption DEF Safe, Typed, Owns, ProxyRecord, GameRecord
<1>w. Wired(P, H, W)
  BY <1>1, <1>3, NullAssumption DEF Safe, Typed, Owns, Wired, WsiRecord
<1>s. SidesAgree(P, H)
  BY <1>1, <1>3 DEF Safe, Owns, SidesAgree
<1>a. Attended(H, W) /\ Gated(H)
  BY <1>1, <1>3 DEF Safe, Attended, Gated
<1> QED
  BY <1>1, <1>2, <1>o, <1>w, <1>s, <1>a DEF Safe, Typed, H

\* loci_connect_to_game_host for a game_conn_t without a socket.
LEMMA ConnectHostSafe ==
    ASSUME NEW P, NEW G, NEW W, NEW p \in Proxy, Safe(P, G, W), P[p].live,
           G[P[p].game].wsi = NULL, ConnectHost(P, G, W, p)
    PROVE  Safe(proxy', game', wsi')
<1> DEFINE g == P[p].game
<1>1. Typed(P, G, W) /\ g \in Game /\ G[g].pc = p /\ KillWsi(W, G[g].wsi) = W
  BY DEF Safe, Owns, KillWsi
<1>2. CASE Becomes(P, G, W)
  BY <1>2 DEF Becomes
<1>3. CASE ConnectFailed(P, G, W, p)
  <2> DEFINE H == [G EXCEPT ![g].wsi = NULL, ![g].st = "INIT"]
  <2>1. H \in [Game -> GameRecord]
    BY <1>1 DEF Typed, GameRecord, State
  <2>2. ASSUME NEW x \in Game
        PROVE  /\ H[x].pc = G[x].pc /\ H[x].wsi = G[x].wsi
               /\ H[x].check = G[x].check
               /\ H[x].st = IF x = g THEN "INIT" ELSE G[x].st
    BY <1>1 DEF Typed, GameRecord
  <2> HIDE DEF H
  <2>o. Owns(P, H)
    BY <1>1, <2>2, NullAssumption DEF Safe, Typed, Owns, ProxyRecord, GameRecord
  <2>w. Wired(P, H, W)
    BY <1>1, <2>2, NullAssumption DEF Safe, Typed, Owns, Wired, WsiRecord
  <2>s. SidesAgree(P, H)
    BY <1>1, <2>2 DEF Safe, Owns, SidesAgree, AtMostDown
  <2>a. Attended(H, W) /\ Gated(H)
    BY <1>1, <2>2 DEF Safe, Attended, Gated
  <2>3. Safe(P, H, W)
    BY <1>1, <2>1, <2>o, <2>w, <2>s, <2>a DEF Safe, Typed
  <2> QED
    BY <1>3, <2>3, ShutdownStepSafe DEF ConnectFailed, H
<1>4. CASE \E w \in Wsi :
              /\ W[w].st = "free"
              /\ Becomes(P,
                         [G EXCEPT ![g].wsi = w, ![g].st = "CONNECTING",
                                   ![g].known = @ \/ ~P[p].scan],
                         [W EXCEPT ![w] = NewWsi(p)])
  <2> PICK w \in Wsi :
              /\ W[w].st = "free"
              /\ Becomes(P,
                         [G EXCEPT ![g].wsi = w, ![g].st = "CONNECTING",
                                   ![g].known = @ \/ ~P[p].scan],
                         [W EXCEPT ![w] = NewWsi(p)])
    BY <1>4
  <2> DEFINE H == [G EXCEPT ![g].wsi = w, ![g].st = "CONNECTING",
                            ![g].known = @ \/ ~P[p].scan]
             X == [W EXCEPT ![w] = NewWsi(p)]
  <2>1. H \in [Game -> GameRecord]
    BY <1>1 DEF Typed, GameRecord, ProxyRecord, State
  <2>2. X \in [Wsi -> WsiRecord]
    BY <1>1 DEF Typed, WsiRecord, NewWsi, FreeWsi
  <2>3. ASSUME NEW x \in Game
        PROVE  /\ H[x].pc = G[x].pc /\ H[x].check = G[x].check
               /\ H[x].wsi = IF x = g THEN w ELSE G[x].wsi
               /\ H[x].st = IF x = g THEN "CONNECTING" ELSE G[x].st
    BY <1>1 DEF Typed, GameRecord
  <2>4. ASSUME NEW x \in Wsi
        PROVE  IF x = w THEN X[x].st = "connecting" /\ X[x].pc = p
               ELSE X[x] = W[x]
    BY <1>1 DEF Typed, WsiRecord, NewWsi, FreeWsi
  <2> HIDE DEF H, X
  <2>5. \A x \in Game : G[x].wsi # w
    BY <1>1, NullAssumption DEF Safe, Typed, Wired, GameRecord
  <2>6. \A x \in Wsi : x # w => W[x].pc # p
    BY <1>1, NullAssumption DEF Safe, Wired, Owns
  <2>o. Owns(P, H)
    BY <1>1, <2>3, NullAssumption DEF Safe, Typed, Owns, ProxyRecord, GameRecord
  <2>w. Wired(P, H, X)
    <3>1. ASSUME NEW x \in Game, H[x].wsi # NULL
          PROVE  X[H[x].wsi].st # "free" /\ X[H[x].wsi].pc = H[x].pc
      BY <1>1, <2>3, <2>4, <2>5, <3>1 DEF Safe, Typed, Wired, GameRecord
    <3>2. ASSUME NEW x \in Wsi, X[x].pc # NULL
          PROVE  P[X[x].pc].live /\ H[P[X[x].pc].game].wsi = x
      <4>1. CASE x = w
        BY <1>1, <2>3, <2>4, <4>1
      <4>2. CASE x # w
        <5>1. X[x] = W[x] /\ W[x].pc \in Proxy /\ W[x].pc # p
          BY <1>1, <2>4, <2>6, <3>2, <4>2 DEF Typed, WsiRecord
        <5>2. /\ P[W[x].pc].live /\ G[P[W[x].pc].game].wsi = x
              /\ P[W[x].pc].game \in Game /\ P[W[x].pc].game # g
          BY <1>1, <3>2, <5>1 DEF Safe, Wired, Owns
        <5> QED
          BY <2>3, <5>1, <5>2
      <4> QED
        BY <4>1, <4>2
    <3> QED
      BY <3>1, <3>2 DEF Wired
  <2>s. SidesAgree(P, H)
    BY <1>1, <2>3, NullAssumption DEF Safe, Owns, SidesAgree, AtMostDown
  <2>a. Attended(H, X)
    BY <1>1, <2>3, <2>4, <2>5, NullAssumption
       DEF Safe, Typed, Attended, GameRecord, WsiRecord
  <2>g. Gated(H)
    BY <1>1, <2>3 DEF Safe, Gated
  <2>7. Safe(P, H, X)
    BY <1>1, <2>1, <2>2, <2>o, <2>w, <2>s, <2>a, <2>g DEF Safe, Typed
  <2> QED
    BY <2>7 DEF Becomes, H, X
<1> QED
  BY <1>1, <1>2, <1>3, <1>4 DEF ConnectHost

(* The swap in loci_connect_to_game_uuid, before the old proxy is shut     *)
(* down: four pointers move, and every link still has its counterpart.     *)
LEMMA SwapSafe ==
    ASSUME NEW P, NEW G, NEW W, NEW p \in Proxy, NEW old \in Proxy,
           Safe(P, G, W), P[p].live, P[old].live,
           G[P[p].game].wsi = NULL, AtMostDown(G[P[p].game].st),
           G[P[old].game].wsi # NULL
    PROVE  Safe(SwapGames(P, p, old), SwapBackPointers(P, G, p, old),
                SwapOpaque(P, G, W, p, old))
<1> DEFINE a == P[p].game
           g == P[old].game
           w == G[g].wsi
           Q == SwapGames(P, p, old)
           H == SwapBackPointers(P, G, p, old)
           X == SwapOpaque(P, G, W, p, old)
<1>1. /\ Typed(P, G, W) /\ a \in Game /\ g \in Game /\ w \in Wsi
      /\ a # g /\ p # old /\ G[a].pc = p /\ G[g].pc = old
      /\ W[w].pc = old /\ W[w].st # "free"
  BY DEF Safe, Typed, Owns, Wired, GameRecord
<1>2. Typed(Q, H, X)
  <2>1. Q \in [Proxy -> ProxyRecord]
    BY <1>1 DEF Typed, ProxyRecord, SwapGames
  <2>2. H \in [Game -> GameRecord]
    BY <1>1 DEF Typed, GameRecord, SwapBackPointers
  <2>3. X \in [Wsi -> WsiRecord]
    BY <1>1 DEF Typed, WsiRecord, SwapOpaque
  <2> QED
    BY <2>1, <2>2, <2>3 DEF Typed
<1>3. ASSUME NEW q \in Proxy
      PROVE  /\ Q[q].live = P[q].live /\ Q[q].net = P[q].net
             /\ Q[q].cst = P[q].cst /\ Q[q].key = P[q].key
             /\ Q[q].game = IF q = p THEN g ELSE IF q = old THEN a ELSE P[q].game
  BY <1>1 DEF Typed, ProxyRecord, SwapGames
<1>4. ASSUME NEW x \in Game
      PROVE  /\ H[x].st = G[x].st /\ H[x].wsi = G[x].wsi /\ H[x].check = G[x].check
             /\ H[x].pc = IF x = g THEN p ELSE IF x = a THEN old ELSE G[x].pc
  BY <1>1 DEF Typed, GameRecord, SwapBackPointers
<1>5. ASSUME NEW x \in Wsi
      PROVE  /\ X[x].st = W[x].st /\ X[x].kill = W[x].kill /\ X[x].want = W[x].want
             /\ X[x].pc = IF x = w THEN p ELSE W[x].pc
  BY <1>1 DEF Typed, WsiRecord, SwapOpaque
<1> HIDE DEF Q, H, X
<1>o. Owns(Q, H)
  <2>1. ASSUME NEW q \in Proxy
        PROVE  IF Q[q].live THEN Q[q].game \in Game /\ H[Q[q].game].pc = q
               ELSE Q[q].net = "none"
    BY <1>1, <1>3, <1>4 DEF Safe, Owns
  <2>2. ASSUME NEW x \in Game
        PROVE  IF H[x].pc = NULL THEN H[x].wsi = NULL
               ELSE Q[H[x].pc].live /\ Q[H[x].pc].game = x
    BY <1>1, <1>3, <1>4, NullAssumption DEF Safe, Typed, Owns, GameRecord
  <2> QED
    BY <2>1, <2>2 DEF Owns
<1>w. Wired(Q, H, X)
  <2>1. ASSUME NEW x \in Game, H[x].wsi # NULL
        PROVE  X[H[x].wsi].st # "free" /\ X[H[x].wsi].pc = H[x].pc
    <3>1. x # a /\ G[x].wsi \in Wsi /\ W[G[x].wsi].pc = G[x].pc
          /\ W[G[x].wsi].st # "free"
      BY <1>1, <1>4, <2>1 DEF Safe, Typed, Wired, GameRecord
    <3>2. x # g => G[x].pc # old
      BY <1>1, <2>1, <1>4, NullAssumption DEF Safe, Owns
    <3> QED
      BY <1>1, <1>4, <1>5, <3>1, <3>2
  <2>2. ASSUME NEW x \in Wsi, X[x].pc # NULL
        PROVE  Q[X[x].pc].live /\ H[Q[X[x].pc].game].wsi = x
    <3>1. CASE x = w
      <4>1. X[w].pc = p
        BY <1>1, <1>5
      <4>2. Q[p].live /\ Q[p].game = g /\ H[g].wsi = w
        BY <1>1, <1>3, <1>4
      <4> QED
        BY <3>1, <4>1, <4>2
    <3>2. CASE x # w
      <4>1. X[x].pc = W[x].pc /\ W[x].pc \in Proxy
        BY <1>1, <1>5, <2>2, <3>2 DEF Typed, WsiRecord
      <4>2. /\ P[W[x].pc].live /\ G[P[W[x].pc].game].wsi = x
            /\ P[W[x].pc].game \in Game
        BY <2>2, <4>1 DEF Safe, Wired, Owns
      <4>3. W[x].pc # p /\ W[x].pc # old
        BY <1>1, <3>2, <4>2, NullAssumption
      <4>4. Q[W[x].pc].live /\ Q[W[x].pc].game = P[W[x].pc].game
        BY <1>3, <4>1, <4>2, <4>3
      <4>5. H[P[W[x].pc].game].wsi = G[P[W[x].pc].game].wsi
        BY <1>4, <4>2
      <4> QED
        BY <4>1, <4>2, <4>4, <4>5
    <3> QED
      BY <3>1, <3>2
  <2> QED
    BY <2>1, <2>2 DEF Wired
<1>s. SidesAgree(Q, H)
  BY <1>1, <1>3, <1>4 DEF Safe, Owns, SidesAgree
<1>a. Attended(H, X)
  BY <1>1, <1>4, <1>5, NullAssumption DEF Safe, Typed, Attended, GameRecord
<1>g. Gated(H)
  BY <1>1, <1>4 DEF Safe, Gated
<1> QED
  BY <1>2, <1>o, <1>w, <1>s, <1>a, <1>g DEF Safe, Q, H, X

(* A reconnect by uuid, with the shutdown of the old proxy that ends it.   *)
LEMMA TakeGameSafe ==
    ASSUME NEW P, NEW G, NEW W, NEW p \in Proxy, NEW old \in Proxy,
           Safe(P, G, W), P[p].live, P[old].live,
           G[P[p].game].wsi = NULL, AtMostDown(G[P[p].game].st),
           TakeGame(P, G, W, p, old)
    PROVE  Safe(proxy', game', wsi')
<1> DEFINE g  == P[old].game
           w  == G[g].wsi
           P1 == SwapGames(P, p, old)
           G1 == SwapBackPointers(P, G, p, old)
           W1 == SwapOpaque(P, G, W, p, old)
           P2 == ProxyShutdownP(P1, G1, old)
           G2 == ProxyShutdownG(P1, G1, old)
           W2 == ProxyShutdownW(P1, G1, W1, old)
<1>1. CASE w = NULL
  BY <1>1, CrashSafe DEF TakeGame
<1>2. CASE w # NULL
  <2>1. /\ Typed(P, G, W) /\ g \in Game /\ w \in Wsi /\ p # old
        /\ P1[old].live /\ P1[old].game = P[p].game
        /\ P[p].game \in Game /\ P[p].game # g
    BY <1>2 DEF Safe, Typed, Owns, GameRecord, ProxyRecord, SwapGames
  <2>2. Safe(P1, G1, W1)
    BY <1>2, SwapSafe
  <2>3. Safe(P2, G2, W2)
    BY <2>1, <2>2, ShutdownSafe
  <2>4. G1[P[p].game].wsi = NULL
    BY <2>1 DEF Typed, GameRecord, SwapBackPointers
  <2>5. W2 = W1 /\ W1[w].pc = p
    BY <1>2, <2>1, <2>4
       DEF Typed, WsiRecord, ProxyShutdownW, GameShutdownW, KillWsi, SwapOpaque
  <2> DEFINE G3 == [G2 EXCEPT ![g].known = TRUE]
             W3 == [W2 EXCEPT ![w].want = @ \/ G[g].tel]
  <2>6. Safe(P2, G3, W2)
    BY <2>1, <2>3, KnownSafe
  <2>7. PICK b \in BOOLEAN : b = (W2[w].want \/ G[g].tel)
    OBVIOUS
  <2>8. W3 = [W2 EXCEPT ![w].want = b]
    BY <2>7
  <2>9. W2[w].pc # NULL
    BY <2>5, NullAssumption
  <2> HIDE DEF P2, W2, G3, W3
  <2>10. Safe(P2, G3, W3)
    BY <2>1, <2>6, <2>8, <2>9, WantSafe
  <2> QED
    BY <1>2, <2>10 DEF TakeGame, Becomes, P2, W2, G3, W3
<1> QED
  BY <1>1, <1>2

(* loci_connect_requested_game, by uuid or by name, for a game_conn_t that *)
(* is fresh or has no socket.                                              *)
LEMMA ConnectRequestedSafe ==
    ASSUME NEW P, NEW G, NEW W, NEW p \in Proxy, NEW k, Safe(P, G, W),
           P[p].live, G[P[p].game].wsi = NULL, AtMostDown(G[P[p].game].st),
           ConnectRequested(P, G, W, p, k)
    PROVE  Safe(proxy', game', wsi')
<1> DEFINE g == P[p].game
<1>1. Typed(P, G, W) /\ g \in Game
  BY DEF Safe, Owns
<1>2. CASE Found(P, k) # {}
  BY <1>2, TakeGameSafe DEF ConnectRequested, Found
<1>3. CASE Found(P, k) = {} /\ Becomes(P, G, W)
  BY <1>3 DEF Becomes
<1>4. ASSUME NEW check \in BOOLEAN,
             ConnectHost(P, SecurityRequire(G, g, check), W, p)
      PROVE  Safe(proxy', game', wsi')
  <2>1. Safe(P, SecurityRequire(G, g, check), W)
    BY <1>1, RequireSafe DEF AtMostDown
  <2>2. SecurityRequire(G, g, check)[g].wsi = NULL
    BY <1>1 DEF Typed, GameRecord, SecurityRequire
  <2> QED
    BY <1>4, <2>1, <2>2, ConnectHostSafe
<1> QED
  BY <1>2, <1>3, <1>4 DEF ConnectRequested

(* free_game_conn and new_game_conn in RAW_CLOSE: the proxy gets a fresh   *)
(* game_conn_t, possibly in the memory of the one it had.                  *)
LEMMA NewGameSafe ==
    ASSUME NEW P, NEW G, NEW W, NEW p \in Proxy, NEW g2 \in Game,
           Safe(P, G, W), P[p].live, G[P[p].game].wsi = NULL,
           G[g2].pc = NULL \/ g2 = P[p].game
    PROVE  Safe(NewGameP(P, p, g2), NewGameG(P, G, p, g2), W)
<1> DEFINE a == P[p].game
           Q == NewGameP(P, p, g2)
           H == NewGameG(P, G, p, g2)
<1>1. Typed(P, G, W) /\ a \in Game /\ G[a].pc = p /\ G[g2].wsi = NULL
  BY DEF Safe, Owns
<1>2. Q \in [Proxy -> ProxyRecord]
  <2>1. [P[p] EXCEPT !.game = g2, !.key = NULL] \in ProxyRecord
    BY <1>1 DEF Typed, ProxyRecord
  <2>2. ASSUME NEW q \in Proxy
        PROVE  [P[q] EXCEPT !.key = Forget(@, a)] \in ProxyRecord
    BY <1>1 DEF Typed, ProxyRecord, Forget
  <2> QED
    BY <2>1, <2>2 DEF NewGameP
<1>3. H \in [Game -> GameRecord]
  BY <1>1 DEF Typed, GameRecord, NewGameG, NewGame, FreeGame, State
<1>4. ASSUME NEW q \in Proxy
      PROVE  /\ Q[q].live = P[q].live /\ Q[q].net = P[q].net /\ Q[q].cst = P[q].cst
             /\ Q[q].game = IF q = p THEN g2 ELSE P[q].game
             /\ Q[q].key = IF q = p THEN NULL ELSE Forget(P[q].key, a)
  BY <1>1 DEF Typed, ProxyRecord, NewGameP
<1>5. ASSUME NEW x \in Game
      PROVE  /\ x # a /\ x # g2 => H[x] = G[x]
             /\ x = g2 => H[x].pc = p /\ H[x].wsi = NULL /\ H[x].st = "INIT"
             /\ x = a /\ x # g2 =>
                   H[x].pc = NULL /\ H[x].wsi = NULL /\ H[x].st = "NULL"
  BY <1>1 DEF Typed, NewGameG, NewGame, FreeGame
<1> HIDE DEF Q, H
<1>o. Owns(Q, H)
  <2>1. ASSUME NEW q \in Proxy
        PROVE  IF Q[q].live THEN Q[q].game \in Game /\ H[Q[q].game].pc = q
               ELSE Q[q].net = "none"
    BY <1>1, <1>4, <1>5, NullAssumption DEF Safe, Owns
  <2>2. ASSUME NEW x \in Game
        PROVE  IF H[x].pc = NULL THEN H[x].wsi = NULL
               ELSE Q[H[x].pc].live /\ Q[H[x].pc].game = x
    BY <1>1, <1>4, <1>5, NullAssumption DEF Safe, Typed, Owns, GameRecord
  <2> QED
    BY <2>1, <2>2 DEF Owns
<1>w. Wired(Q, H, W)
  <2>1. ASSUME NEW x \in Game, H[x].wsi # NULL
        PROVE  W[H[x].wsi].st # "free" /\ W[H[x].wsi].pc = H[x].pc
    BY <1>1, <1>5, <2>1 DEF Safe, Wired
  <2>2. ASSUME NEW x \in Wsi, W[x].pc # NULL
        PROVE  Q[W[x].pc].live /\ H[Q[W[x].pc].game].wsi = x
    <3>1. /\ W[x].pc \in Proxy /\ P[W[x].pc].live /\ P[W[x].pc].game \in Game
          /\ G[P[W[x].pc].game].wsi = x
      BY <1>1, <2>2 DEF Safe, Typed, Wired, Owns, WsiRecord
    <3>2. P[W[x].pc].game # a /\ P[W[x].pc].game # g2 /\ W[x].pc # p
      BY <1>1, <3>1, NullAssumption
    <3> QED
      BY <1>4, <1>5, <3>1, <3>2
  <2> QED
    BY <2>1, <2>2 DEF Wired
<1>s. SidesAgree(Q, H)
  BY <1>1, <1>4, <1>5, NullAssumption DEF Safe, Owns, SidesAgree, AtMostDown
<1>a. Attended(H, W) /\ Gated(H)
  BY <1>1, <1>5 DEF Safe, Attended, Gated
<1> QED
  BY <1>1, <1>2, <1>3, <1>o, <1>w, <1>s, <1>a DEF Safe, Typed, Q, H

(* RAW_CLOSE of a proxy that is to switch games: its socket is gone or      *)
(* given up, and its game_conn_t is replaced by a fresh one.               *)
LEMMA SwitchedSafe ==
    ASSUME NEW P, NEW G, NEW W, Safe(P, G, W),
           NEW w \in Wsi, NEW p \in Proxy, W[w].pc = p,
           NEW X \in [Wsi -> WsiRecord],
           \A x \in Wsi : x # w => X[x] = W[x],
           X[w].pc = NULL,
           X[w].st # "free" => X[w].st = "open" /\ X[w].kill /\ ~X[w].want,
           G[P[p].game].st = "RECONNECTING",
           NEW g2 \in {x \in Game : G[x].pc = NULL} \cup {P[p].game}
    PROVE  /\ Safe(NewGameP(P, p, g2), NewGameG(P, G, p, g2), X)
           /\ NewGameP(P, p, g2)[p].live /\ NewGameP(P, p, g2)[p].game = g2
           /\ NewGameG(P, G, p, g2)[g2].wsi = NULL
           /\ AtMostDown(NewGameG(P, G, p, g2)[g2].st)
<1> DEFINE g == P[p].game
           I == [G EXCEPT ![g].wsi = NULL, ![g].st = "INIT"]
<1>1. /\ Typed(P, G, W) /\ P[p].live /\ g \in Game
      /\ G[g].pc = p /\ G[g].wsi = w
  BY NullAssumption DEF Safe, Wired, Owns
<1>2. /\ I \in [Game -> GameRecord] /\ I[g].pc = p /\ I[g].wsi = NULL
      /\ I[g].st = "INIT"
      /\ \A x \in Game : I[x].pc = G[x].pc /\ (x # g => I[x] = G[x])
  BY <1>1 DEF Typed, GameRecord, State
<1>3. NewGameG(P, I, p, g2) = NewGameG(P, G, p, g2)
  BY <1>1, <1>2 DEF Typed, NewGameG
<1> HIDE DEF I
<1>4. Safe(P, I, X)
  BY <1>1, <1>2, DetachSafe DEF AtMostDown
<1>5. g2 \in Game /\ (I[g2].pc = NULL \/ g2 = g)
  BY <1>1, <1>2
<1>6. Safe(NewGameP(P, p, g2), NewGameG(P, I, p, g2), X)
  BY <1>1, <1>2, <1>4, <1>5, NewGameSafe
<1>7. NewGameP(P, p, g2)[p].live /\ NewGameP(P, p, g2)[p].game = g2
  BY <1>1 DEF Typed, ProxyRecord, NewGameP
<1>8. NewGameG(P, G, p, g2)[g2] = NewGame(p)
  BY <1>1, <1>5 DEF Typed, NewGameG
<1>9. NewGame(p).wsi = NULL /\ NewGame(p).st = "INIT"
  BY DEF NewGame, FreeGame
<1> QED
  BY <1>3, <1>6, <1>7, <1>8, <1>9 DEF AtMostDown

(* The body of LWS_CALLBACK_RAW_CLOSE, reached because the socket is        *)
(* destroyed or because its proxy gives it up.                             *)
LEMMA RawCloseSafe ==
    ASSUME NEW P, NEW G, NEW W, Safe(P, G, W),
           NEW w \in Wsi, NEW p \in Proxy, W[w].pc = p,
           NEW X \in [Wsi -> WsiRecord],
           \A x \in Wsi : x # w => X[x] = W[x],
           X[w].pc = NULL,
           X[w].st # "free" => X[w].st = "open" /\ X[w].kill /\ ~X[w].want,
           RawClose(P, G, X, p)
    PROVE  Safe(proxy', game', wsi')
<1> DEFINE g == P[p].game
           H == DropSocket(G, g)
<1>1. /\ Typed(P, G, W) /\ P[p].live /\ g \in Game
      /\ G[g].pc = p /\ G[g].wsi = w
  BY NullAssumption DEF Safe, Wired, Owns
<1>2. CASE AtMostDown(P[p].cst)
  <2>1. /\ H \in [Game -> GameRecord] /\ H[g].pc = p /\ H[g].wsi = NULL
        /\ \A x \in Game : x # g => H[x] = G[x]
    BY <1>1 DEF Typed, GameRecord, DropSocket
  <2>2. H[g].st = G[g].st /\ H[g].check = G[g].check
    BY <1>1 DEF Typed, GameRecord, DropSocket
  <2>3. H[g].st = "UP" => ~H[g].check
    BY <1>1, <2>2 DEF Safe, Gated
  <2>4. P[p].net # "open"
    BY <1>1, <1>2 DEF Safe, SidesAgree, AtMostDown
  <2> HIDE DEF H
  <2>5. Safe(P, H, X)
    BY <1>1, <2>1, <2>3, <2>4, DetachSafe
  <2> QED
    BY <1>1, <1>2, <2>5, ShutdownStepSafe DEF RawClose, H
<1>3. CASE ~AtMostDown(P[p].cst) /\ G[g].st = "RECONNECTING"
  <2>1. PICK g2 \in {x \in Game : G[x].pc = NULL} \cup {g} :
          ConnectRequested(NewGameP(P, p, g2), NewGameG(P, G, p, g2), X, p,
                           Forget(P[p].key, g))
    BY <1>3 DEF RawClose, SwitchNow
  <2> DEFINE Q == NewGameP(P, p, g2)
             N == NewGameG(P, G, p, g2)
  <2>2. /\ Safe(Q, N, X) /\ Q[p].live
        /\ N[Q[p].game].wsi = NULL /\ AtMostDown(N[Q[p].game].st)
    BY <1>1, <1>3, <2>1, SwitchedSafe
  <2> HIDE DEF Q, N
  <2> QED
    BY <2>1, <2>2, ConnectRequestedSafe DEF Q, N
<1>4. CASE ~AtMostDown(P[p].cst) /\ G[g].st # "RECONNECTING"
  <2> DEFINE D == [H EXCEPT ![g].st = "DOWN"]
  <2>1. /\ D \in [Game -> GameRecord] /\ D[g].pc = p /\ D[g].wsi = NULL
        /\ D[g].st = "DOWN"
        /\ \A x \in Game : x # g => D[x] = G[x]
    BY <1>1 DEF Typed, GameRecord, State, DropSocket
  <2> HIDE DEF D
  <2>2. Safe(P, D, X)
    BY <1>1, <2>1, DetachSafe DEF AtMostDown
  <2>3. Safe(ClientShutdown(P, p), D, X)
    BY <2>2, ClientShutdownSafe
  <2> QED
    BY <1>4, <2>3 DEF RawClose, Becomes, D
<1> QED
  BY <1>2, <1>3, <1>4

-----------------------------------------------------------------------------
(* From here on the triple is the state itself: each callback keeps it safe. *)

\* security_enforcement, whether the deadline has passed or not.
LEMMA EnforcedSafe ==
    ASSUME Safe(proxy, game, wsi), NEW g \in Game, NEW late \in Lateness(g)
    PROVE  Safe(proxy, EnforcedG(g, late), EnforcedW(g, late))
<1>1. Typed(proxy, game, wsi)
  BY DEF Safe
<1>2. CASE ~late
  BY <1>2 DEF EnforcedG, EnforcedW
<1>3. CASE late /\ game[g].wsi # NULL
  BY <1>3, GameShutdownSafe
     DEF EnforcedG, EnforcedW, GameShutdownG, GameShutdownW
<1>4. CASE late /\ game[g].wsi = NULL
  <2> DEFINE H == [game EXCEPT ![g].st = "CLOSING"]
  <2>1. H \in [Game -> GameRecord]
    BY <1>1 DEF Typed, GameRecord, State
  <2>2. ASSUME NEW x \in Game
        PROVE  /\ H[x].pc = game[x].pc /\ H[x].wsi = game[x].wsi
               /\ H[x].check = game[x].check
               /\ H[x].st = IF x = g THEN "CLOSING" ELSE game[x].st
    BY <1>1 DEF Typed, GameRecord
  <2>3. game[g].st = "BLOCKING"
    BY <1>4 DEF Lateness
  <2> HIDE DEF H
  <2>o. Owns(proxy, H)
    BY <1>1, <2>2, NullAssumption DEF Safe, Typed, Owns, ProxyRecord, GameRecord
  <2>w. Wired(proxy, H, wsi)
    BY <1>1, <2>2, NullAssumption DEF Safe, Typed, Owns, Wired, WsiRecord
  <2>s. SidesAgree(proxy, H)
    BY <1>1, <1>4, <2>2, <2>3 DEF Safe, Owns, SidesAgree, AtMostDown
  <2>a. Attended(H, wsi) /\ Gated(H)
    BY <1>1, <1>4, <2>2 DEF Safe, Attended, Gated
  <2>4. Safe(proxy, H, wsi)
    BY <1>1, <2>1, <2>o, <2>w, <2>s, <2>a DEF Safe, Typed
  <2> QED
    BY <1>4, <2>4 DEF EnforcedG, EnforcedW, KillWsi, H
<1> QED
  BY <1>2, <1>3, <1>4 DEF Lateness

\* What security_enforcement leaves alone.
LEMMA EnforcedFrame ==
    ASSUME Typed(proxy, game, wsi), NEW g \in Game, NEW late \in Lateness(g)
    PROVE  /\ \A x \in Game : /\ EnforcedG(g, late)[x].wsi = game[x].wsi
                              /\ EnforcedG(g, late)[x].st \in {game[x].st, "CLOSING"}
           /\ \A w \in Wsi : /\ EnforcedW(g, late)[w].pc = wsi[w].pc
                             /\ EnforcedW(g, late)[w].st = wsi[w].st
                             /\ wsi[w].kill => EnforcedW(g, late)[w].kill
  BY DEF Typed, GameRecord, WsiRecord, EnforcedG, EnforcedW, KillWsi

\* new_proxy_conn, for a browser or for the scanner.
LEMMA NewProxySafe ==
    ASSUME Safe(proxy, game, wsi), NEW p \in Proxy, NEW g \in Game,
           ~proxy[p].live, game[g].pc = NULL,
           NEW R \in ProxyRecord, R.live, R.game = g,
           R.net = "open" => R.cst = "UP",
           R.net = "none" => AtMostDown(R.cst)
    PROVE  Safe([proxy EXCEPT ![p] = R], [game EXCEPT ![g] = NewGame(p)], wsi)
<1> DEFINE Q == [proxy EXCEPT ![p] = R]
           H == [game EXCEPT ![g] = NewGame(p)]
<1>1. Typed(proxy, game, wsi) /\ game[g].wsi = NULL
  BY DEF Safe, Owns
<1>2. /\ NewGame(p) \in GameRecord /\ NewGame(p).pc = p
      /\ NewGame(p).wsi = NULL /\ NewGame(p).st = "INIT"
  BY DEF NewGame, FreeGame, GameRecord, State
<1>3. /\ Q \in [Proxy -> ProxyRecord] /\ H \in [Game -> GameRecord]
      /\ \A q \in Proxy : Q[q] = IF q = p THEN R ELSE proxy[q]
      /\ \A x \in Game : H[x] = IF x = g THEN NewGame(p) ELSE game[x]
  BY <1>1, <1>2 DEF Typed
<1> HIDE DEF Q, H
<1>o. Owns(Q, H)
  BY <1>1, <1>2, <1>3, NullAssumption DEF Safe, Typed, Owns, GameRecord
<1>w. Wired(Q, H, wsi)
  <2>1. ASSUME NEW x \in Game, H[x].wsi # NULL
        PROVE  wsi[H[x].wsi].st # "free" /\ wsi[H[x].wsi].pc = H[x].pc
    BY <1>2, <1>3, <2>1 DEF Safe, Wired
  <2>2. ASSUME NEW x \in Wsi, wsi[x].pc # NULL
        PROVE  Q[wsi[x].pc].live /\ H[Q[wsi[x].pc].game].wsi = x
    BY <1>1, <1>3, <2>2, NullAssumption DEF Safe, Typed, Wired, Owns, WsiRecord
  <2> QED
    BY <2>1, <2>2 DEF Wired
<1>s. SidesAgree(Q, H)
  BY <1>1, <1>2, <1>3, NullAssumption DEF Safe, Owns, SidesAgree, AtMostDown
<1>a. Attended(H, wsi) /\ Gated(H)
  BY <1>2, <1>3 DEF Safe, Attended, Gated
<1> QED
  BY <1>1, <1>3, <1>o, <1>w, <1>s, <1>a DEF Safe, Typed, Q, H

(* A new browser gets a proxy and a game_conn_t of its own.                *)
LEMMA ClientEstablishedSafe ==
    ASSUME Safe(proxy, game, wsi), NEW p \in Proxy, ClientEstablished(p)
    PROVE  Safe(proxy', game', wsi')
<1> DEFINE R(g) == [NewProxy(g) EXCEPT !.cst = "UP", !.net = "open"]
<1>1. PICK g \in Game :
         /\ game[g].pc = NULL
         /\ Becomes([proxy EXCEPT ![p] = R(g)], [game EXCEPT ![g] = NewGame(p)], wsi)
  BY DEF ClientEstablished
<1>2. /\ R(g) \in ProxyRecord /\ R(g).live /\ R(g).game = g
      /\ R(g).cst = "UP" /\ R(g).net = "open"
  BY DEF NewProxy, FreeProxy, ProxyRecord, State
<1>3. ~proxy[p].live
  BY DEF ClientEstablished
<1> HIDE DEF R
<1>4. Safe([proxy EXCEPT ![p] = R(g)], [game EXCEPT ![g] = NewGame(p)], wsi)
  BY <1>1, <1>2, <1>3, NewProxySafe
<1> QED
  BY <1>1, <1>4 DEF Becomes

(* A scanner's proxy has no browser and at once tries to connect.          *)
LEMMA ScannerDispatchSafe ==
    ASSUME Safe(proxy, game, wsi), NEW p \in Proxy, ScannerDispatch(p)
    PROVE  Safe(proxy', game', wsi')
<1> DEFINE R(g) == [NewProxy(g) EXCEPT !.scan = TRUE]
           Q(g) == [proxy EXCEPT ![p] = R(g)]
           H(g) == [game EXCEPT ![g] = NewGame(p)]
<1>1. PICK g \in Game :
         game[g].pc = NULL /\ ConnectHost(Q(g), H(g), wsi, p)
  BY DEF ScannerDispatch
<1>2. /\ R(g) \in ProxyRecord /\ R(g).live /\ R(g).game = g
      /\ R(g).net = "none" /\ R(g).cst = "INIT"
  BY DEF NewProxy, FreeProxy, ProxyRecord, State
<1>3. ~proxy[p].live
  BY DEF ScannerDispatch
<1> HIDE DEF R
<1>4. Safe(Q(g), H(g), wsi)
  BY <1>1, <1>2, <1>3, NewProxySafe DEF AtMostDown
<1>5. Q(g)[p].live /\ Q(g)[p].game = g
  BY <1>2 DEF Safe, Typed
<1>6. H(g)[g] = NewGame(p) /\ NewGame(p).wsi = NULL
  BY DEF Safe, Typed, NewGame, FreeGame
<1> QED
  BY <1>1, <1>4, <1>5, <1>6, ConnectHostSafe

(* loci_connect_verbose.  With a live browser, no socket means that the     *)
(* game state is at most DOWN, so that the request starts afresh.          *)
LEMMA ClientConnectSafe ==
    ASSUME Safe(proxy, game, wsi), NEW p \in Proxy, NEW k \in Game \cup {NULL},
           ClientConnect(p, k)
    PROVE  Safe(proxy', game', wsi')
<1> DEFINE g == proxy[p].game
<1>1. proxy[p].net = "open" /\ proxy[p].live /\ g \in Game
  BY DEF ClientConnect, Safe, Owns
<1>2. PICK late \in Lateness(g) :
         ConnectVerbose(proxy, EnforcedG(g, late), EnforcedW(g, late), p, k)
  BY DEF ClientConnect
<1> DEFINE G == EnforcedG(g, late)
           W == EnforcedW(g, late)
<1>3. Safe(proxy, G, W)
  BY <1>1, EnforcedSafe
<1> HIDE DEF G, W
<1>4. CASE k = g
  <2> DEFINE r == IF G[k].st = "RECONNECTING" THEN k ELSE proxy[p].key
             Q == [proxy EXCEPT ![p].key = r]
  <2>1. Becomes(Q, G, W)
    BY <1>2, <1>4 DEF ConnectVerbose, G, W
  <2>2. Typed(proxy, G, W)
    BY <1>3 DEF Safe
  <2>3. r \in Game \cup {NULL}
    BY <2>2 DEF Typed, ProxyRecord
  <2> HIDE DEF r
  <2>4. ASSUME NEW q \in Proxy
        PROVE  /\ Q[q] \in ProxyRecord
               /\ Q[q].live = proxy[q].live /\ Q[q].net = proxy[q].net
               /\ Q[q].cst = proxy[q].cst /\ Q[q].game = proxy[q].game
    BY <2>2, <2>3 DEF Typed, ProxyRecord
  <2>5. Typed(Q, G, W)
    BY <2>2, <2>3 DEF Typed, ProxyRecord
  <2> HIDE DEF Q
  <2>6. Owns(Q, G)
    BY <1>3, <2>2, <2>4, NullAssumption DEF Safe, Typed, Owns, GameRecord
  <2>7. Wired(Q, G, W)
    BY <1>3, <2>2, <2>4 DEF Safe, Typed, Wired, WsiRecord
  <2>8. SidesAgree(Q, G)
    BY <1>3, <2>4 DEF Safe, SidesAgree, AtMostDown
  <2> QED
    BY <1>3, <2>1, <2>5, <2>6, <2>7, <2>8 DEF Safe, Becomes
<1>5. CASE k # g /\ G[g].wsi # NULL
  <2> DEFINE Q == [proxy EXCEPT ![p].key = k]
             H == [G EXCEPT ![g].st = "RECONNECTING"]
             X == KillWsi(W, G[g].wsi)
  <2>1. Becomes(Q, H, X)
    BY <1>2, <1>5 DEF ConnectVerbose, Switch, G, W
  <2>2. Typed(proxy, G, W)
    BY <1>3 DEF Safe
  <2>3. Typed(Q, H, X)
    <3>1. Q \in [Proxy -> ProxyRecord]
      BY <2>2 DEF Typed, ProxyRecord
    <3>2. H \in [Game -> GameRecord]
      BY <2>2 DEF Typed, GameRecord, State
    <3>3. X \in [Wsi -> WsiRecord]
      BY <2>2 DEF Typed, WsiRecord, KillWsi
    <3> QED
      BY <3>1, <3>2, <3>3 DEF Typed
  <2>4. ASSUME NEW q \in Proxy
        PROVE  /\ Q[q].live = proxy[q].live /\ Q[q].net = proxy[q].net
               /\ Q[q].cst = proxy[q].cst /\ Q[q].game = proxy[q].game
    BY <2>2 DEF Typed, ProxyRecord
  <2>5. ASSUME NEW x \in Game
        PROVE  /\ H[x].pc = G[x].pc /\ H[x].wsi = G[x].wsi
               /\ H[x].check = G[x].check
               /\ H[x].st = IF x = g THEN "RECONNECTING" ELSE G[x].st
    BY <2>2 DEF Typed, GameRecord
  <2>6. ASSUME NEW w \in Wsi
        PROVE  /\ X[w].pc = W[w].pc /\ X[w].st = W[w].st /\ X[w].want = W[w].want
               /\ w = G[g].wsi \/ W[w].kill => X[w].kill
    BY <1>5, <2>2 DEF Typed, WsiRecord, KillWsi
  <2> HIDE DEF Q, H, X
  <2>o. Owns(Q, H)
    BY <1>3, <2>2, <2>4, <2>5, NullAssumption DEF Safe, Typed, Owns, GameRecord
  <2>w. Wired(Q, H, X)
    <3>1. ASSUME NEW x \in Game, H[x].wsi # NULL
          PROVE  X[H[x].wsi].st # "free" /\ X[H[x].wsi].pc = H[x].pc
      BY <1>3, <2>2, <2>5, <2>6, <3>1 DEF Safe, Typed, Wired, GameRecord
    <3>2. ASSUME NEW w \in Wsi, X[w].pc # NULL
          PROVE  Q[X[w].pc].live /\ H[Q[X[w].pc].game].wsi = w
      <4>1. /\ X[w].pc = W[w].pc /\ W[w].pc \in Proxy
            /\ proxy[W[w].pc].live /\ proxy[W[w].pc].game \in Game
            /\ G[proxy[W[w].pc].game].wsi = w
        BY <1>3, <2>2, <2>6, <3>2 DEF Safe, Typed, Wired, Owns, WsiRecord
      <4> QED
        BY <2>4, <2>5, <4>1
    <3> QED
      BY <3>1, <3>2 DEF Wired
  <2>s. SidesAgree(Q, H)
    BY <1>3, <1>5, <2>4, <2>5 DEF Safe, Owns, SidesAgree, AtMostDown
  <2>a. Attended(H, X)
    <3>1. ASSUME NEW w \in Wsi, X[w].st # "free", X[w].pc = NULL
          PROVE  X[w].st = "open" /\ X[w].kill /\ ~X[w].want
      BY <1>3, <2>6, <3>1 DEF Safe, Attended
    <3>2. ASSUME NEW x \in Game, H[x].wsi # NULL,
                 H[x].st \in {"CLOSING", "RECONNECTING"}
          PROVE  X[H[x].wsi].kill
      <4>1. H[x].wsi = G[x].wsi /\ G[x].wsi \in Wsi
        BY <2>2, <2>5, <3>2 DEF Typed, GameRecord
      <4> QED
        BY <1>3, <2>5, <2>6, <3>2, <4>1 DEF Safe, Attended
    <3> QED
      BY <3>1, <3>2 DEF Attended
  <2>g. Gated(H)
    BY <1>3, <2>5 DEF Safe, Gated
  <2> QED
    BY <2>1, <2>3, <2>o, <2>w, <2>s, <2>a, <2>g DEF Safe, Becomes
<1>6. CASE k # g /\ G[g].wsi = NULL
  <2>1. ConnectRequested(proxy, G, W, p, k)
    BY <1>2, <1>6 DEF ConnectVerbose, G, W
  <2>2. AtMostDown(G[g].st)
    BY <1>1, <1>3, <1>6 DEF Safe, SidesAgree
  <2> QED
    BY <1>1, <1>3, <1>6, <2>1, <2>2, ConnectRequestedSafe
<1> QED
  BY <1>4, <1>5, <1>6

\* The browser's websocket closes: a live proxy loses its client side.
LEMMA BrowserGoneSafe ==
    ASSUME NEW P, NEW G, NEW W, NEW p \in Proxy, Safe(P, G, W), P[p].live,
           NEW net \in {"none", "peerclosed"}, NEW cst \in {"INIT", "DOWN"}
    PROVE  Safe([P EXCEPT ![p].net = net, ![p].cst = cst], G, W)
<1> DEFINE Q == [P EXCEPT ![p].net = net, ![p].cst = cst]
<1>1. Typed(P, G, W)
  BY DEF Safe
<1>2. Q \in [Proxy -> ProxyRecord]
  <2>1. cst \in State /\ net \in {"none", "open", "peerclosed"}
    BY DEF State
  <2> QED
    BY <1>1, <2>1 DEF Typed, ProxyRecord
<1>3. ASSUME NEW q \in Proxy
      PROVE  /\ Q[q].live = P[q].live /\ Q[q].game = P[q].game
             /\ q # p => Q[q] = P[q]
             /\ q = p => Q[q].net = net /\ Q[q].cst = cst
  BY <1>1 DEF Typed, ProxyRecord
<1> HIDE DEF Q
<1>o. Owns(Q, G)
  BY <1>1, <1>3, NullAssumption DEF Safe, Typed, Owns, ProxyRecord, GameRecord
<1>w. Wired(Q, G, W)
  BY <1>1, <1>3, NullAssumption DEF Safe, Typed, Wired, WsiRecord
<1>s. SidesAgree(Q, G)
  BY <1>1, <1>3 DEF Safe, SidesAgree, AtMostDown
<1> QED
  BY <1>1, <1>2, <1>o, <1>w, <1>s DEF Safe, Typed, Q

(* A DISCONNECT message closes the game side only.                         *)
LEMMA ClientDisconnectSafe ==
    ASSUME Safe(proxy, game, wsi), NEW p \in Proxy, ClientDisconnect(p)
    PROVE  Safe(proxy', game', wsi')
<1> DEFINE g == proxy[p].game
<1>1. g \in Game
  BY DEF ClientDisconnect, Safe, Owns
<1>2. PICK late \in Lateness(g) :
         Becomes(proxy, GameShutdownG(EnforcedG(g, late), g),
                 GameShutdownW(game, EnforcedW(g, late), g))
  BY DEF ClientDisconnect
<1>3. Safe(proxy, EnforcedG(g, late), EnforcedW(g, late))
  BY <1>1, EnforcedSafe
<1>4. EnforcedG(g, late)[g].wsi = game[g].wsi
  BY <1>1, EnforcedFrame DEF Safe
<1>5. GameShutdownW(game, EnforcedW(g, late), g)
        = GameShutdownW(EnforcedG(g, late), EnforcedW(g, late), g)
  BY <1>4 DEF GameShutdownW
<1>6. Safe(proxy, GameShutdownG(EnforcedG(g, late), g),
           GameShutdownW(game, EnforcedW(g, late), g))
  BY <1>1, <1>3, <1>5, GameShutdownSafe
<1> QED
  BY <1>2, <1>6 DEF Becomes

(* Data from the browser at most asks for a RAW_WRITEABLE.                 *)
LEMMA ClientDataSafe ==
    ASSUME Safe(proxy, game, wsi), NEW p \in Proxy, ClientData(p)
    PROVE  Safe(proxy', game', wsi')
<1> DEFINE g == proxy[p].game
           w == game[g].wsi
<1>1. Typed(proxy, game, wsi) /\ g \in Game /\ game[g].pc = p
  BY DEF ClientData, Safe, Owns
<1>2. PICK late \in Lateness(g) :
         Becomes(proxy, EnforcedG(g, late), AskWriteable(EnforcedW(g, late), w))
  BY DEF ClientData
<1> DEFINE G == EnforcedG(g, late)
           W == EnforcedW(g, late)
<1>3. Safe(proxy, G, W)
  BY <1>1, EnforcedSafe
<1>4. CASE w = NULL
  BY <1>2, <1>3, <1>4 DEF AskWriteable, Becomes
<1>5. CASE w # NULL
  <2>1. w \in Wsi /\ wsi[w].pc = p
    BY <1>1, <1>5 DEF Safe, Typed, Wired, GameRecord
  <2>2. W[w].pc # NULL
    BY <1>1, <2>1, EnforcedFrame, NullAssumption
  <2>3. Safe(proxy, G, [W EXCEPT ![w].want = TRUE])
    BY <1>3, <2>1, <2>2, WantSafe
  <2> QED
    BY <1>2, <1>5, <2>3 DEF AskWriteable, Becomes
<1> QED
  BY <1>4, <1>5

(* A callback that only enforces the deadline.                             *)
LEMMA ClientWriteableSafe ==
    ASSUME Safe(proxy, game, wsi), NEW p \in Proxy, ClientWriteable(p)
    PROVE  Safe(proxy', game', wsi')
<1>1. proxy[p].game \in Game
  BY DEF ClientWriteable, Safe, Owns
<1> QED
  BY <1>1, EnforcedSafe DEF ClientWriteable, Becomes

(* The browser announces its close: DOWN, with the websocket still set.    *)
LEMMA ClientPeerCloseSafe ==
    ASSUME Safe(proxy, game, wsi), NEW p \in Proxy, ClientPeerClose(p)
    PROVE  Safe(proxy', game', wsi')
<1> DEFINE g == proxy[p].game
           Q == [proxy EXCEPT ![p].net = "peerclosed", ![p].cst = "DOWN"]
<1>1. g \in Game /\ proxy[p].live
  BY DEF ClientPeerClose, Safe, Owns
<1>2. PICK late \in Lateness(g) :
         Becomes(Q, EnforcedG(g, late), EnforcedW(g, late))
  BY DEF ClientPeerClose
<1>3. Safe(proxy, EnforcedG(g, late), EnforcedW(g, late))
  BY <1>1, EnforcedSafe
<1>4. Safe(Q, EnforcedG(g, late), EnforcedW(g, late))
  BY <1>1, <1>3, BrowserGoneSafe
<1> QED
  BY <1>2, <1>4 DEF Becomes

(* The websocket is gone: a full close or a half close.                    *)
LEMMA ClientClosedSafe ==
    ASSUME Safe(proxy, game, wsi), NEW p \in Proxy, ClientClosed(p)
    PROVE  Safe(proxy', game', wsi')
<1> DEFINE g == proxy[p].game
<1>1. Typed(proxy, game, wsi) /\ g \in Game /\ proxy[p].live
  BY DEF ClientClosed, Safe, Owns
<1>2. PICK late \in Lateness(g) :
         ClientClose(proxy, EnforcedG(g, late), EnforcedW(g, late), p)
  BY DEF ClientClosed
<1>3. Safe(proxy, EnforcedG(g, late), EnforcedW(g, late))
  BY <1>1, EnforcedSafe
<1>4. ASSUME NEW cst \in {"INIT", "DOWN"}
      PROVE  /\ Safe(WebsocketGone(proxy, p, cst),
                     EnforcedG(g, late), EnforcedW(g, late))
             /\ WebsocketGone(proxy, p, cst)[p].live
  <2>1. WebsocketGone(proxy, p, cst)[p].live
    BY <1>1 DEF Typed, ProxyRecord, WebsocketGone
  <2> QED
    BY <1>1, <1>3, <2>1, BrowserGoneSafe DEF WebsocketGone
<1> QED
  BY <1>2, <1>4, ShutdownStepSafe DEF ClientClose, Becomes

(* The browser's timer, with or without a bark of the watchdog.            *)
LEMMA ClientTimerSafe ==
    ASSUME Safe(proxy, game, wsi), NEW p \in Proxy, ClientTimer(p)
    PROVE  Safe(proxy', game', wsi')
<1> DEFINE g == proxy[p].game
<1>1. g \in Game /\ proxy[p].live
  BY DEF ClientTimer, Safe, Owns
<1>2. PICK late \in Lateness(g) :
         \/ Shutdown(proxy, EnforcedG(g, late), EnforcedW(g, late), p)
         \/ Becomes(proxy, EnforcedG(g, late), EnforcedW(g, late))
  BY DEF ClientTimer
<1>3. Safe(proxy, EnforcedG(g, late), EnforcedW(g, late))
  BY <1>1, EnforcedSafe
<1> QED
  BY <1>1, <1>2, <1>3, ShutdownStepSafe DEF Becomes

(* What a callback on a game's socket can count on: a proxy behind the     *)
(* opaque pointer is live, and its game_conn_t holds this very socket.     *)
LEMMA SocketFacts ==
    ASSUME Safe(proxy, game, wsi), NEW w \in Wsi, wsi[w].pc # NULL
    PROVE  /\ Typed(proxy, game, wsi)
           /\ wsi[w].pc \in Proxy /\ proxy[wsi[w].pc].live
           /\ proxy[wsi[w].pc].game \in Game
           /\ game[proxy[wsi[w].pc].game].wsi = w
           /\ game[proxy[wsi[w].pc].game].pc = wsi[w].pc
  BY DEF Safe, Typed, Owns, Wired, WsiRecord

(* A connection attempt that fails takes its socket along.                 *)
LEMMA GameConnectErrorSafe ==
    ASSUME Safe(proxy, game, wsi), NEW w \in Wsi, GameConnectError(w)
    PROVE  Safe(proxy', game', wsi')
<1> DEFINE p == wsi[w].pc
           g == proxy[p].game
           H == [game EXCEPT ![g].wsi = NULL, ![g].st = "INIT"]
           X == [wsi EXCEPT ![w] = FreeWsi]
<1>1. p # NULL
  BY DEF GameConnectError, Safe, Attended
<1>2. /\ Typed(proxy, game, wsi) /\ p \in Proxy /\ proxy[p].live /\ g \in Game
      /\ game[g].wsi = w /\ game[g].pc = p
  BY <1>1, SocketFacts
<1>3. Shutdown(proxy, H, X, p)
  BY DEF GameConnectError, ConnectFailed
<1> HIDE DEF p, g
<1>4. /\ X \in [Wsi -> WsiRecord] /\ X[w].pc = NULL /\ X[w].st = "free"
      /\ \A x \in Wsi : x # w => X[x] = wsi[x]
  BY <1>2 DEF Typed, WsiRecord, FreeWsi
<1>5. H \in [Game -> GameRecord]
  <2>1. game \in [Game -> GameRecord] /\ "INIT" \in State
    BY <1>2 DEF Typed, State
  <2> QED
    BY <1>2, <2>1 DEF GameRecord
<1>6. /\ H[g].pc = p /\ H[g].wsi = NULL /\ H[g].st = "INIT"
      /\ \A x \in Game : x # g => H[x] = game[x]
  BY <1>2 DEF Typed, GameRecord
<1> HIDE DEF H, X
<1>7. Safe(proxy, H, X)
  BY <1>2, <1>4, <1>5, <1>6, DetachSafe DEF AtMostDown, p, g
<1> QED
  BY <1>2, <1>3, <1>7, ShutdownStepSafe

(* A connected game is UP only when nothing is left to check.              *)
LEMMA GameConnectedSafe ==
    ASSUME Safe(proxy, game, wsi), NEW w \in Wsi, GameConnected(w)
    PROVE  Safe(proxy', game', wsi')
<1> DEFINE p == wsi[w].pc
           g == proxy[p].game
           st == IF game[g].check THEN "BLOCKING" ELSE "UP"
           H == [game EXCEPT ![g].tel = TRUE, ![g].st = st]
<1>1. p # NULL
  BY DEF GameConnected, Safe, Attended
<1>2. /\ Typed(proxy, game, wsi) /\ p \in Proxy /\ proxy[p].live /\ g \in Game
      /\ game[g].wsi = w /\ game[g].pc = p
  BY <1>1, SocketFacts
<1>3. PICK kill \in {FALSE, wsi[w].kill} :
         Becomes(proxy, H, [wsi EXCEPT ![w].st = "open", ![w].kill = kill])
  BY DEF GameConnected
<1> DEFINE X == [wsi EXCEPT ![w].st = "open", ![w].kill = kill]
<1> HIDE DEF p, g
<1>4. H \in [Game -> GameRecord]
  <2>1. game \in [Game -> GameRecord] /\ st \in State
    BY <1>2 DEF Typed, State
  <2> HIDE DEF st
  <2> QED
    BY <1>2, <2>1 DEF GameRecord
<1>5. X \in [Wsi -> WsiRecord]
  <2>1. wsi \in [Wsi -> WsiRecord] /\ kill \in BOOLEAN
    BY <1>2 DEF Typed, WsiRecord
  <2> QED
    BY <2>1 DEF WsiRecord
<1>6. ASSUME NEW x \in Game
      PROVE  /\ H[x].pc = game[x].pc /\ H[x].wsi = game[x].wsi
             /\ H[x].check = game[x].check
             /\ H[x].st = IF x = g THEN st ELSE game[x].st
  BY <1>2 DEF Typed, GameRecord
<1>7. ASSUME NEW x \in Wsi
      PROVE  /\ X[x].pc = wsi[x].pc
             /\ x # w => X[x] = wsi[x]
             /\ x = w => X[x].st = "open"
  BY <1>2 DEF Typed, WsiRecord
<1>8. /\ st \in {"BLOCKING", "UP"} /\ (st = "UP" => ~game[g].check)
      /\ \A x \in Game : x # g => game[x].wsi # w
  BY <1>1, <1>2, NullAssumption DEF Safe, Wired, Typed, Owns, GameRecord
<1> HIDE DEF H, X, st
<1>o. Owns(proxy, H)
  BY <1>2, <1>6, NullAssumption DEF Safe, Typed, Owns, ProxyRecord, GameRecord
<1>w. Wired(proxy, H, X)
  <2>1. ASSUME NEW x \in Game, H[x].wsi # NULL
        PROVE  X[H[x].wsi].st # "free" /\ X[H[x].wsi].pc = H[x].pc
    <3>1. H[x].wsi = game[x].wsi /\ game[x].wsi \in Wsi
      BY <1>2, <1>6, <2>1 DEF Typed, GameRecord
    <3> QED
      BY <1>6, <1>7, <2>1, <3>1 DEF Safe, Wired
  <2>2. ASSUME NEW x \in Wsi, X[x].pc # NULL
        PROVE  proxy[X[x].pc].live /\ H[proxy[X[x].pc].game].wsi = x
    BY <1>6, <1>7, <2>2, SocketFacts
  <2> QED
    BY <2>1, <2>2 DEF Wired
<1>s. SidesAgree(proxy, H)
  BY <1>2, <1>6, <1>8, NullAssumption DEF Safe, Owns, SidesAgree
<1>a. Attended(H, X)
  <2>1. ASSUME NEW x \in Wsi, X[x].st # "free", X[x].pc = NULL
        PROVE  X[x].st = "open" /\ X[x].kill /\ ~X[x].want
    BY <1>1, <1>7, <2>1 DEF Safe, Attended, p
  <2>2. ASSUME NEW x \in Game, H[x].wsi # NULL,
               H[x].st \in {"CLOSING", "RECONNECTING"}
        PROVE  X[H[x].wsi].kill
    <3>1. x # g /\ H[x].wsi = game[x].wsi /\ game[x].wsi \in Wsi
      BY <1>2, <1>6, <1>8, <2>2 DEF Typed, GameRecord
    <3> QED
      BY <1>6, <1>7, <1>8, <2>2, <3>1 DEF Safe, Attended
  <2> QED
    BY <2>1, <2>2 DEF Attended
<1>g. Gated(H)
  BY <1>6, <1>8 DEF Safe, Gated
<1> QED
  BY <1>2, <1>3, <1>4, <1>5, <1>o, <1>w, <1>s, <1>a, <1>g
     DEF Safe, Typed, Becomes, H, X

(* The game's socket closes, with or without a proxy behind it.            *)
LEMMA GameClosedSafe ==
    ASSUME Safe(proxy, game, wsi), NEW w \in Wsi, GameClosed(w)
    PROVE  Safe(proxy', game', wsi')
<1> DEFINE p == wsi[w].pc
           g == proxy[p].game
<1>1. Typed(proxy, game, wsi)
  BY DEF Safe
<1>2. CASE p = NULL
  <2> DEFINE X == [wsi EXCEPT ![w] = FreeWsi]
  <2>1. X \in [Wsi -> WsiRecord] /\ X[w].pc = NULL /\ X[w].st = "free"
        /\ \A x \in Wsi : x # w => X[x] = wsi[x]
    BY <1>1 DEF Typed, WsiRecord, FreeWsi
  <2>2. \A x \in Game : game[x].wsi # NULL => game[x].wsi \in Wsi /\ game[x].wsi # w
    BY <1>1, <1>2 DEF Safe, Typed, Wired, Owns, GameRecord
  <2> HIDE DEF X
  <2>w. Wired(proxy, game, X)
    BY <2>1, <2>2 DEF Safe, Wired
  <2>a. Attended(game, X)
    BY <2>1, <2>2 DEF Safe, Attended
  <2>3. Safe(proxy, game, X)
    BY <1>1, <2>1, <2>w, <2>a DEF Safe, Typed
  <2> QED
    BY <1>2, <2>3 DEF GameClosed, Becomes, X
<1>3. CASE p # NULL
  <2>1. PICK late \in Lateness(g) :
           RawClose(proxy, EnforcedG(g, late),
                    [EnforcedW(g, late) EXCEPT ![w] = FreeWsi], p)
    BY <1>3 DEF GameClosed
  <2> DEFINE W == EnforcedW(g, late)
             X == [W EXCEPT ![w] = FreeWsi]
  <2>2. p \in Proxy /\ g \in Game
    BY <1>3, SocketFacts
  <2>3. Safe(proxy, EnforcedG(g, late), W)
    BY <2>2, EnforcedSafe
  <2>4. W[w].pc = p
    BY <1>1, <2>2, EnforcedFrame
  <2>5. /\ X \in [Wsi -> WsiRecord] /\ X[w].pc = NULL /\ X[w].st = "free"
        /\ \A x \in Wsi : x # w => X[x] = W[x]
    BY <2>3 DEF Safe, Typed, WsiRecord, FreeWsi
  <2> HIDE DEF W, X
  <2> QED
    BY <2>1, <2>2, <2>3, <2>4, <2>5, RawCloseSafe DEF W, X
<1> QED
  BY <1>2, <1>3

(* RAW_WRITEABLE finds a live proxy, since a socket given up asks for none.*)
LEMMA GameWriteableSafe ==
    ASSUME Safe(proxy, game, wsi), NEW w \in Wsi, GameWriteable(w)
    PROVE  Safe(proxy', game', wsi')
<1> DEFINE p == wsi[w].pc
           g == proxy[p].game
<1>1. p # NULL
  BY DEF GameWriteable, Safe, Attended
<1>2. /\ Typed(proxy, game, wsi) /\ p \in Proxy /\ g \in Game
      /\ game[g].wsi = w
  BY <1>1, SocketFacts
<1>3. PICK late \in Lateness(g) :
         Writeable(EnforcedG(g, late), EnforcedW(g, late), w, p)
  BY <1>1 DEF GameWriteable
<1> DEFINE G == EnforcedG(g, late)
           W == EnforcedW(g, late)
<1>4. Safe(proxy, G, W)
  BY <1>2, EnforcedSafe
<1>5. W[w].pc = p /\ W[w].st = "open" /\ G[g].wsi = w
  BY <1>2, EnforcedFrame DEF GameWriteable
<1> HIDE DEF G, W
<1>6. CASE G[g].st \in {"CLOSING", "RECONNECTING"}
  <2> DEFINE X == [W EXCEPT ![w].pc = NULL, ![w].want = FALSE]
  <2>1. W[w].kill
    BY <1>1, <1>2, <1>4, <1>5, <1>6, NullAssumption DEF Safe, Attended
  <2>2. X \in [Wsi -> WsiRecord]
    BY <1>4 DEF Safe, Typed, WsiRecord
  <2>3. /\ X[w].pc = NULL /\ X[w].st = "open" /\ X[w].kill /\ ~X[w].want
        /\ \A x \in Wsi : x # w => X[x] = W[x]
    BY <1>4, <1>5, <2>1 DEF Safe, Typed, WsiRecord
  <2>4. RawClose(proxy, G, X, p)
    BY <1>3, <1>6 DEF Writeable, G, W
  <2> HIDE DEF X
  <2> QED
    BY <1>2, <1>4, <1>5, <2>2, <2>3, <2>4, RawCloseSafe
<1>7. CASE G[g].st \notin {"CLOSING", "RECONNECTING"}
  <2>1. PICK more \in BOOLEAN : Becomes(proxy, G, [W EXCEPT ![w].want = more])
    BY <1>3, <1>7 DEF Writeable, G, W
  <2>2. Safe(proxy, G, [W EXCEPT ![w].want = more])
    BY <1>1, <1>4, <1>5, WantSafe
  <2> QED
    BY <2>1, <2>2 DEF Becomes
<1> QED
  BY <1>6, <1>7

(* Bytes from the game: the last outstanding flag lets a BLOCKING game     *)
(* through, and nothing else makes a game UP here.                         *)
LEMMA ParsedSafe ==
    ASSUME NEW P, NEW G, NEW W, NEW g \in Game, NEW passes \in BOOLEAN,
           Safe(P, G, W), G[g].wsi # NULL
    PROVE  Safe(P, Parsed(G, g, passes), W)
<1> DEFINE check == G[g].check /\ ~(G[g].st # "CLOSING" /\ passes)
           st == IF G[g].st = "BLOCKING" /\ ~check THEN "UP" ELSE G[g].st
           H == Parsed(G, g, passes)
<1>1. Typed(P, G, W)
  BY DEF Safe
<1>2. /\ H \in [Game -> GameRecord]
      /\ \A x \in Game : /\ H[x].pc = G[x].pc /\ H[x].wsi = G[x].wsi
                         /\ x # g => H[x] = G[x]
  <2>1. G \in [Game -> GameRecord] /\ G[g].st \in State /\ "UP" \in State
    BY <1>1 DEF Typed, GameRecord, State
  <2>2. PICK c \in BOOLEAN : c = check
    OBVIOUS
  <2>3. PICK s \in State : s = st
    BY <2>1
  <2>4. H = [G EXCEPT ![g].check = c, ![g].st = s]
    BY <2>1, <2>2, <2>3 DEF Parsed, GameRecord
  <2> HIDE DEF H, check, st
  <2> QED
    BY <2>1, <2>4 DEF GameRecord
<1>3. H[g].st = st /\ (H[g].check <=> check)
  BY <1>1 DEF Typed, GameRecord, Parsed
<1>4. /\ st # G[g].st => st = "UP" /\ ~check
      /\ check => G[g].check
      /\ st \in {"CLOSING", "RECONNECTING"} => st = G[g].st
  OBVIOUS
<1> HIDE DEF H, check, st
<1>o. Owns(P, H)
  BY <1>1, <1>2, NullAssumption DEF Safe, Typed, Owns, ProxyRecord, GameRecord
<1>w. Wired(P, H, W)
  BY <1>1, <1>2, NullAssumption DEF Safe, Typed, Owns, Wired, WsiRecord
<1>s. SidesAgree(P, H)
  BY <1>1, <1>2 DEF Safe, Owns, SidesAgree
<1>a. Attended(H, W)
  BY <1>1, <1>2, <1>3, <1>4 DEF Safe, Attended
<1>g. Gated(H)
  BY <1>1, <1>2, <1>3, <1>4 DEF Safe, Gated
<1> QED
  BY <1>1, <1>2, <1>o, <1>w, <1>s, <1>a, <1>g DEF Safe, Typed, H

(* Bytes from the game through the deadline, the parser and an answer.     *)
LEMMA GameRxSafe ==
    ASSUME Safe(proxy, game, wsi), NEW w \in Wsi, GameRx(w)
    PROVE  Safe(proxy', game', wsi')
<1> DEFINE p == wsi[w].pc
           g == proxy[p].game
<1>1. p # NULL
  BY DEF GameRx
<1>2. Typed(proxy, game, wsi) /\ p \in Proxy /\ g \in Game /\ game[g].wsi = w
  BY <1>1, SocketFacts
<1>3. PICK late \in Lateness(g), passes \in BOOLEAN :
         \/ Becomes(proxy, Parsed(EnforcedG(g, late), g, passes),
                    AskWriteable(EnforcedW(g, late), w))
         \/ Becomes(proxy, Parsed(EnforcedG(g, late), g, passes),
                    EnforcedW(g, late))
  BY DEF GameRx
<1> DEFINE G == EnforcedG(g, late)
           W == EnforcedW(g, late)
<1>4. Safe(proxy, G, W)
  BY <1>2, EnforcedSafe
<1>5. W[w].pc # NULL /\ G[g].wsi = w /\ w # NULL
  BY <1>1, <1>2, EnforcedFrame, NullAssumption
<1> HIDE DEF G, W
<1>6. Safe(proxy, Parsed(G, g, passes), W)
  BY <1>2, <1>4, <1>5, ParsedSafe
<1>7. Safe(proxy, Parsed(G, g, passes), AskWriteable(W, w))
  BY <1>5, <1>6, WantSafe DEF AskWriteable
<1> QED
  BY <1>3, <1>6, <1>7 DEF Becomes, G, W

(* The game socket's timer, with or without a bark of the watchdog.        *)
LEMMA GameTimerSafe ==
    ASSUME Safe(proxy, game, wsi), NEW w \in Wsi, GameTimer(w)
    PROVE  Safe(proxy', game', wsi')
<1> DEFINE p == wsi[w].pc
           g == proxy[p].game
<1>1. p \in Proxy /\ proxy[p].live /\ g \in Game
  BY SocketFacts DEF GameTimer
<1>2. PICK late \in Lateness(g) :
         \/ Shutdown(proxy, EnforcedG(g, late), EnforcedW(g, late), p)
         \/ Becomes(proxy, EnforcedG(g, late), EnforcedW(g, late))
  BY DEF GameTimer
<1>3. Safe(proxy, EnforcedG(g, late), EnforcedW(g, late))
  BY <1>1, EnforcedSafe
<1> QED
  BY <1>1, <1>2, <1>3, ShutdownStepSafe DEF Becomes

-----------------------------------------------------------------------------
(* The theorems *)

(* The inductive invariant.                                                *)
IInv == up \in BOOLEAN /\ Safe(proxy, game, wsi)

(* The process starts with no objects at all.                              *)
LEMMA InitSafe == Init => IInv
<1> SUFFICES ASSUME Init PROVE IInv
  OBVIOUS
<1>1. /\ FreeProxy \in ProxyRecord /\ FreeGame \in GameRecord /\ FreeWsi \in WsiRecord
      /\ FreeProxy.live = FALSE /\ FreeProxy.net = "none"
      /\ FreeGame.pc = NULL /\ FreeGame.wsi = NULL /\ FreeGame.st = "NULL"
      /\ FreeWsi.pc = NULL /\ FreeWsi.st = "free"
  BY DEF FreeProxy, FreeGame, FreeWsi, ProxyRecord, GameRecord, WsiRecord, State
<1> QED
  BY <1>1 DEF Init, IInv, Safe, Typed, Owns, Wired, SidesAgree, Attended, Gated

\* A callback leaves the process running or takes it down.
LEMMA ConnectUp ==
    ASSUME NEW P, NEW G, NEW W, NEW p, NEW k,
           ConnectHost(P, G, W, p) \/ ConnectRequested(P, G, W, p, k)
    PROVE  up' \in {up, FALSE}
<1>1. ASSUME NEW H, ConnectHost(P, H, W, p) PROVE up' = up
  BY <1>1 DEF ConnectHost, ConnectFailed, Shutdown, Becomes
<1>2. ASSUME NEW old, TakeGame(P, G, W, p, old) PROVE up' \in {up, FALSE}
  BY <1>2 DEF TakeGame, Crash, Becomes
<1> QED
  BY <1>1, <1>2 DEF ConnectRequested, Becomes

(* No action gives up anything but a Boolean.                              *)
LEMMA UpTyped ==
    ASSUME up \in BOOLEAN, Next PROVE up' \in BOOLEAN
<1>1. ASSUME NEW P, NEW G, NEW W, NEW p, RawClose(P, G, W, p)
      PROVE  up' \in {up, FALSE}
  BY <1>1, ConnectUp DEF RawClose, SwitchNow, Shutdown, Becomes
<1>2. ASSUME NEW p \in Proxy, ClientStep(p) PROVE up' \in {up, FALSE}
  <2>1. ASSUME NEW k \in Game \cup {NULL}, ClientConnect(p, k)
        PROVE  up' \in {up, FALSE}
    BY <2>1, ConnectUp DEF ClientConnect, ConnectVerbose, Switch, Becomes
  <2> QED
    BY <1>2, <2>1 DEF ClientStep, ClientEstablished, ClientDisconnect, ClientData,
       ClientWriteable, ClientPeerClose, ClientClosed, ClientClose, ClientTimer,
       Shutdown, Becomes
<1>3. ASSUME NEW w \in Wsi, GameStep(w) PROVE up' \in {up, FALSE}
  <2>1. GameConnectError(w) \/ GameConnected(w) \/ GameRx(w) \/ GameTimer(w)
        => up' = up
    BY DEF GameConnectError, GameConnected, GameRx, GameTimer, ConnectFailed,
       Shutdown, Becomes
  <2>2. GameClosed(w) => up' \in {up, FALSE}
    BY <1>1 DEF GameClosed, Becomes
  <2>3. GameWriteable(w) => up' \in {up, FALSE}
    BY <1>1 DEF GameWriteable, Writeable, Crash, Becomes
  <2> QED
    BY <1>3, <2>1, <2>2, <2>3 DEF GameStep
<1>4. ASSUME NEW p \in Proxy, ScannerDispatch(p) PROVE up' \in {up, FALSE}
  BY <1>4, ConnectUp DEF ScannerDispatch
<1> QED
  BY <1>2, <1>3, <1>4 DEF Next, Restart

(* Every callback, the scanner and the restart keep the invariant.         *)
LEMMA NextSafe == IInv /\ [Next]_vars => IInv'
<1> SUFFICES ASSUME IInv, [Next]_vars PROVE IInv'
  OBVIOUS
<1>1. Safe(proxy, game, wsi)
  BY DEF IInv
<1>2. ASSUME NEW p \in Proxy, ClientStep(p)
      PROVE  Safe(proxy', game', wsi')
  BY <1>1, <1>2, ClientEstablishedSafe, ClientConnectSafe, ClientDisconnectSafe,
     ClientDataSafe, ClientWriteableSafe, ClientPeerCloseSafe, ClientClosedSafe,
     ClientTimerSafe
     DEF ClientStep
<1>3. ASSUME NEW w \in Wsi, GameStep(w)
      PROVE  Safe(proxy', game', wsi')
  BY <1>1, <1>3, GameConnectErrorSafe, GameConnectedSafe, GameClosedSafe,
     GameWriteableSafe, GameRxSafe, GameTimerSafe
     DEF GameStep
<1>4. ASSUME NEW p \in Proxy, ScannerDispatch(p)
      PROVE  Safe(proxy', game', wsi')
  BY <1>1, <1>4, ScannerDispatchSafe
<1>5. ASSUME Restart \/ UNCHANGED vars
      PROVE  Safe(proxy', game', wsi')
  BY <1>1, <1>5 DEF Restart, vars
<1>6. Safe(proxy', game', wsi')
  BY <1>2, <1>3, <1>4, <1>5 DEF Next
<1> QED
  BY <1>6, UpTyped DEF IInv, vars

(* All safety invariants hold together in every reachable state, for any   *)
(* number of browsers, games and sockets.                                  *)
THEOREM Invariant == Spec => []IInv
  BY InitSafe, NextSafe, PTL DEF Spec

(* Every value stays in its type, also where a handler follows a pointer   *)
(* through a record that a null pointer would have no field of.            *)
THEOREM TypeCorrect == Spec => []TypeOK
<1>1. IInv => TypeOK
  BY DEF IInv, Safe, Typed, TypeOK
<1> QED
  BY <1>1, Invariant, PTL

(* No dangling and no shared pointer, for any number of browsers, games    *)
(* and sockets: proxies and game_conn_ts are paired off, always.           *)
THEOREM OwnershipHolds == Spec => []Ownership
<1>1. IInv => Ownership
  BY DEF IInv, Safe, Ownership
<1> QED
  BY <1>1, Invariant, PTL

(* A socket's opaque pointer and the game_conn_t that holds the socket     *)
(* name the same proxy, whatever reconnects took place.                    *)
THEOREM SocketWiringHolds == Spec => []SocketWiring
<1>1. IInv => SocketWiring
  BY DEF IInv, Safe, SocketWiring
<1> QED
  BY <1>1, Invariant, PTL

(* A browser that can send never has a proxy that believes in a game       *)
(* connection which is gone.                                               *)
THEOREM SidesConsistentHolds == Spec => []SidesConsistent
<1>1. IInv => SidesConsistent
  BY DEF IInv, Safe, SidesConsistent
<1> QED
  BY <1>1, Invariant, PTL

(* A socket given up by its proxy is about to be closed and asks for no    *)
(* callback: RAW_WRITEABLE never follows a null pc.                        *)
THEOREM SocketsAttendedHolds == Spec => []SocketsAttended
<1>1. IInv => SocketsAttended
  BY DEF IInv, Safe, SocketsAttended
<1> QED
  BY <1>1, Invariant, PTL

(* The protocol check cannot be shed on the way to UP.                     *)
THEOREM UncheckedNeverUpHolds == Spec => []UncheckedNeverUp
<1>1. IInv => UncheckedNeverUp
  BY DEF IInv, Safe, UncheckedNeverUp
<1> QED
  BY <1>1, Invariant, PTL

-----------------------------------------------------------------------------
(* What a step does to the opaque pointers: the argument for                *)
(* ReconnectKeepsGame.  Only loci_connect_to_game_uuid takes a socket from  *)
(* one proxy to another; everything else leaves the pointer, clears it, or  *)
(* sets it on a socket that had none.                                      *)

\* No socket changes its opaque pointer from W to X.
SamePc(W, X) == \A w \in Wsi : X[w].pc = W[w].pc

\* Socket w went with its whole game_conn_t from proxy old to proxy q.
Taken(P, G, W, q, old, w) ==
    LET g == P[old].game IN
    /\ P[old].live /\ old # q /\ g \in Game /\ W[w].pc = old
    /\ wsi'[w].pc = q
    /\ proxy'[q].game = g /\ proxy'[old].game # g
    /\ game'[g] = [G[g] EXCEPT !.pc = q, !.known = TRUE]

\* What a connection request of proxy q may do to socket w.
RequestEffect(P, G, W, q, w) ==
    \/ wsi'[w].pc \in {NULL, W[w].pc}
    \/ W[w].pc = NULL /\ wsi'[w].pc = q
    \/ \E old \in Proxy : Taken(P, G, W, q, old, w)

(* Ordering a kill or a RAW_WRITEABLE leaves every opaque pointer alone.   *)
LEMMA OrdersKeepPc ==
    ASSUME NEW W \in [Wsi -> WsiRecord], NEW v
    PROVE  SamePc(W, KillWsi(W, v)) /\ SamePc(W, AskWriteable(W, v))
  BY DEF SamePc, KillWsi, AskWriteable, WsiRecord

(* So does a shutdown of either side.                                      *)
LEMMA ShutdownKeepsPc ==
    ASSUME NEW P, NEW G, NEW W \in [Wsi -> WsiRecord], NEW p
    PROVE  SamePc(W, ProxyShutdownW(P, G, W, p))
  BY OrdersKeepPc DEF ProxyShutdownW, GameShutdownW

(* And a deadline enforced.                                                *)
LEMMA EnforcedKeepsPc ==
    ASSUME wsi \in [Wsi -> WsiRecord], NEW g, NEW late
    PROVE  SamePc(wsi, EnforcedW(g, late))
  BY OrdersKeepPc DEF EnforcedW, SamePc

(* The reconnect moves one socket, with the game_conn_t that holds it.     *)
LEMMA TakeGameMoves ==
    ASSUME NEW P, NEW G, NEW W, NEW p \in Proxy, NEW old \in Proxy,
           Safe(P, G, W), P[p].live, P[old].live, G[P[p].game].wsi = NULL,
           TakeGame(P, G, W, p, old), NEW w \in Wsi
    PROVE  wsi'[w].pc \in {NULL, W[w].pc} \/ Taken(P, G, W, p, old, w)
<1> DEFINE a  == P[p].game
           g  == P[old].game
           v  == G[g].wsi
           P1 == SwapGames(P, p, old)
           G1 == SwapBackPointers(P, G, p, old)
           W1 == SwapOpaque(P, G, W, p, old)
           P2 == ProxyShutdownP(P1, G1, old)
           G2 == ProxyShutdownG(P1, G1, old)
           W2 == ProxyShutdownW(P1, G1, W1, old)
<1>1. CASE v = NULL
  BY <1>1 DEF TakeGame, Crash, FreeWsi
<1>2. CASE v # NULL
  <2>1. /\ Typed(P, G, W) /\ a \in Game /\ g \in Game /\ v \in Wsi /\ a # g
        /\ p # old /\ W[v].pc = old
    BY <1>2 DEF Safe, Typed, Owns, Wired, GameRecord
  <2>2. /\ proxy' = P2
        /\ game' = [G2 EXCEPT ![g].known = TRUE]
        /\ wsi' = [W2 EXCEPT ![v].want = @ \/ G[g].tel]
    BY <1>2 DEF TakeGame, Becomes
  <2>3. /\ W1 \in [Wsi -> WsiRecord] /\ W1[v].pc = p
        /\ \A x \in Wsi : x # v => W1[x].pc = W[x].pc
    BY <2>1 DEF SwapOpaque, Typed, WsiRecord
  <2>4. W2 = W1
    BY <2>1 DEF ProxyShutdownW, GameShutdownW, KillWsi, SwapGames, SwapBackPointers,
       Typed, ProxyRecord, GameRecord
  <2>5. wsi'[v].pc = p /\ (w # v => wsi'[w].pc = W[w].pc)
    BY <2>1, <2>2, <2>3, <2>4 DEF WsiRecord
  <2>6. proxy'[p].game = g /\ proxy'[old].game # g
    <3>1. /\ P1 \in [Proxy -> ProxyRecord] /\ P1[p].game = g /\ P1[old].game = a
      BY <2>1 DEF SwapGames, Typed, ProxyRecord
    <3>2. /\ P2[p].game = P1[p].game /\ P2[old].game \in {NULL, P1[old].game}
      BY <2>1, <3>1 DEF ProxyShutdownP, ClientShutdown, FreeProxy, ProxyRecord
    <3> QED
      BY <2>1, <2>2, <3>1, <3>2, NullAssumption
  <2>7. game'[g] = [G[g] EXCEPT !.pc = p, !.known = TRUE]
    <3>1. /\ G1 \in [Game -> GameRecord] /\ G1[g] = [G[g] EXCEPT !.pc = p]
          /\ P1[old].game = a
      BY <2>1 DEF SwapBackPointers, SwapGames, Typed, GameRecord, ProxyRecord
    <3>2. G2[g] = G1[g] /\ DOMAIN G2 = Game
      BY <2>1, <3>1 DEF ProxyShutdownG, GameShutdownG
    <3>3. game'[g] = [G2[g] EXCEPT !.known = TRUE]
      BY <2>1, <2>2, <3>2
    <3> QED
      BY <2>1, <3>1, <3>2, <3>3 DEF Typed, GameRecord
  <2> QED
    BY <2>1, <2>5, <2>6, <2>7 DEF Taken
<1> QED
  BY <1>1, <1>2

(* A socket that does not exist has no opaque pointer.                     *)
LEMMA FreeHasNoPc ==
    ASSUME NEW P, NEW G, NEW W, Safe(P, G, W), NEW x \in Wsi, W[x].st = "free"
    PROVE  W[x].pc = NULL
<1> SUFFICES ASSUME W[x].pc # NULL PROVE FALSE
  OBVIOUS
<1>1. W[x].pc \in Proxy /\ P[W[x].pc].live /\ G[P[W[x].pc].game].wsi = x
  BY DEF Safe, Typed, Wired, WsiRecord
<1>2. P[W[x].pc].game \in Game /\ x # NULL
  BY <1>1, NullAssumption DEF Safe, Owns
<1> QED
  BY <1>1, <1>2 DEF Safe, Wired

(* A connection by host name gives the requesting proxy a new socket.      *)
LEMMA ConnectHostMoves ==
    ASSUME NEW P, NEW G, NEW W \in [Wsi -> WsiRecord], NEW p,
           \A x \in Wsi : W[x].st = "free" => W[x].pc = NULL,
           ConnectHost(P, G, W, p), NEW w \in Wsi
    PROVE  wsi'[w].pc = W[w].pc \/ (W[w].pc = NULL /\ wsi'[w].pc = p)
<1> DEFINE g  == P[p].game
           W0 == KillWsi(W, G[g].wsi)
<1>1. /\ W0 \in [Wsi -> WsiRecord] /\ SamePc(W, W0)
      /\ \A x \in Wsi : W0[x].st = W[x].st
  BY OrdersKeepPc DEF KillWsi, WsiRecord
<1> HIDE DEF W0
<1>2. CASE Becomes(P, G, W0)
  BY <1>1, <1>2 DEF Becomes, SamePc
<1>3. CASE ConnectFailed(P, G, W0, p)
  <2>1. PICK H : wsi' = ProxyShutdownW(P, H, W0, p)
    BY <1>3 DEF ConnectFailed, Shutdown, Becomes
  <2> QED
    BY <1>1, <2>1, ShutdownKeepsPc DEF SamePc
<1>4. ASSUME NEW x \in Wsi, W0[x].st = "free",
             wsi' = [W0 EXCEPT ![x] = NewWsi(p)]
      PROVE  wsi'[w].pc = W[w].pc \/ (W[w].pc = NULL /\ wsi'[w].pc = p)
  <2>1. NewWsi(p).pc = p
    BY DEF NewWsi, FreeWsi
  <2>2. wsi'[w] = IF w = x THEN NewWsi(p) ELSE W0[w]
    BY <1>1, <1>4
  <2> QED
    BY <1>1, <1>4, <2>1, <2>2 DEF SamePc
<1> QED
  BY <1>2, <1>3, <1>4 DEF ConnectHost, Becomes, W0

(* Moved or made: what a request, by uuid or by name, does to a socket.     *)
LEMMA ConnectRequestedMoves ==
    ASSUME NEW P, NEW G, NEW W, NEW p \in Proxy, NEW k, Safe(P, G, W),
           P[p].live, G[P[p].game].wsi = NULL,
           ConnectRequested(P, G, W, p, k), NEW w \in Wsi
    PROVE  RequestEffect(P, G, W, p, w)
<1>1. /\ W \in [Wsi -> WsiRecord]
      /\ \A x \in Wsi : W[x].st = "free" => W[x].pc = NULL
  BY FreeHasNoPc DEF Safe, Typed
<1>2. CASE Found(P, k) # {}
  <2>1. PICK old \in Found(P, k) : TakeGame(P, G, W, p, old)
    BY <1>2 DEF ConnectRequested
  <2>2. old \in Proxy /\ P[old].live
    BY DEF Found
  <2> QED
    BY <2>1, <2>2, TakeGameMoves DEF RequestEffect
<1>3. CASE Found(P, k) = {}
  <2>1. CASE Becomes(P, G, W)
    BY <2>1 DEF Becomes, RequestEffect
  <2>2. ASSUME NEW H, ConnectHost(P, H, W, p)
        PROVE  RequestEffect(P, G, W, p, w)
    BY <1>1, <2>2, ConnectHostMoves DEF RequestEffect
  <2> QED
    BY <1>3, <2>1, <2>2 DEF ConnectRequested
<1> QED
  BY <1>2, <1>3

\* ReconnectKeepsGame, of one socket.
MovedWhole(w) ==
    LET p == wsi[w].pc
        q == wsi'[w].pc
        g == proxy[p].game
    IN  p # NULL /\ q # NULL /\ p # q =>
        /\ proxy'[q].game = g /\ proxy'[p].game # g
        /\ game'[g] = [game[g] EXCEPT !.pc = q, !.known = TRUE]

\* The step takes no socket from one proxy to another.
StaysPut == \A w \in Wsi : wsi'[w].pc = NULL \/ wsi'[w].pc = wsi[w].pc

LEMMA StaysPutMoves == StaysPut => \A w \in Wsi : MovedWhole(w)
  BY DEF StaysPut, MovedWhole

(* A request made with a triple that differs from the state only where the *)
(* requesting proxy p is concerned moves sockets of other proxies whole.   *)
LEMMA RequestMoves ==
    ASSUME Safe(proxy, game, wsi), NEW p \in Proxy, NEW P, NEW G, NEW W,
           \A q \in Proxy : q # p =>
               P[q].live = proxy[q].live /\ P[q].game = proxy[q].game,
           \A x \in Game : game[x].pc \notin {NULL, p} => G[x] = game[x],
           NEW w \in Wsi,
           W[w].pc = wsi[w].pc \/ (W[w].pc = NULL /\ wsi[w].pc = p),
           RequestEffect(P, G, W, p, w)
    PROVE  MovedWhole(w)
<1>1. ASSUME NEW old \in Proxy, Taken(P, G, W, p, old, w)
      PROVE  MovedWhole(w)
  <2> DEFINE g == proxy[old].game
  <2>1. old # p /\ wsi[w].pc = old /\ wsi'[w].pc = p /\ P[old].game = g
    BY <1>1, NullAssumption DEF Taken
  <2>2. proxy[old].live /\ g \in Game /\ game[g].pc = old
    BY <1>1, <2>1 DEF Taken, Safe, Owns
  <2>3. G[g] = game[g]
    BY <2>1, <2>2, NullAssumption
  <2> QED
    BY <1>1, <2>1, <2>3 DEF Taken, MovedWhole
<1> QED
  BY <1>1 DEF RequestEffect, MovedWhole

(* A proxy that shuts down, having lost w or given it up, moves nothing.   *)
LEMMA ShutdownMoves ==
    ASSUME NEW P, NEW G, NEW W \in [Wsi -> WsiRecord], NEW p,
           \A x \in Wsi : W[x].pc \in {NULL, wsi[x].pc},
           Shutdown(P, G, W, p) \/ Becomes(P, G, W)
    PROVE  StaysPut
<1>1. CASE wsi' = ProxyShutdownW(P, G, W, p)
  BY <1>1, ShutdownKeepsPc DEF SamePc, StaysPut
<1> QED
  BY <1>1 DEF Shutdown, Becomes, StaysPut

(* RAW_CLOSE: only the request of a proxy that switches games can move a   *)
(* socket, and that is never the one it has just lost.                     *)
LEMMA RawCloseMoves ==
    ASSUME Safe(proxy, game, wsi), NEW w \in Wsi, wsi[w].pc # NULL,
           NEW late \in Lateness(proxy[wsi[w].pc].game),
           NEW X \in [Wsi -> WsiRecord],
           \A x \in Wsi : x # w =>
               X[x] = EnforcedW(proxy[wsi[w].pc].game, late)[x],
           X[w].pc = NULL,
           X[w].st # "free" => X[w].st = "open" /\ X[w].kill /\ ~X[w].want,
           RawClose(proxy, EnforcedG(proxy[wsi[w].pc].game, late), X, wsi[w].pc)
    PROVE  \A x \in Wsi : MovedWhole(x)
<1> DEFINE p == wsi[w].pc
           g == proxy[p].game
           G == EnforcedG(g, late)
           W == EnforcedW(g, late)
<1>1. /\ Typed(proxy, game, wsi) /\ p \in Proxy /\ proxy[p].live /\ g \in Game
      /\ game[g].wsi = w /\ game[g].pc = p
  BY SocketFacts
<1>2. Safe(proxy, G, W)
  BY <1>1, EnforcedSafe
<1>3. /\ \A x \in Wsi : W[x].pc = wsi[x].pc
      /\ \A x \in Game : x # g => G[x] = game[x]
  BY <1>1, EnforcedKeepsPc DEF Typed, SamePc, EnforcedG
<1>4. \A x \in Wsi : X[x].pc = IF x = w THEN NULL ELSE wsi[x].pc
  BY <1>3
<1> HIDE DEF G, W
<1>5. CASE \E P, H : Shutdown(P, H, X, p) \/ Becomes(P, H, X)
  <2>1. StaysPut
    BY <1>4, <1>5, ShutdownMoves
  <2> QED
    BY <2>1, StaysPutMoves
<1>6. CASE G[g].st = "RECONNECTING" /\ SwitchNow(proxy, G, X, p)
  <2>1. PICK g2 \in {x \in Game : G[x].pc = NULL} \cup {g} :
          ConnectRequested(NewGameP(proxy, p, g2), NewGameG(proxy, G, p, g2), X, p,
                           Forget(proxy[p].key, g))
    BY <1>6 DEF SwitchNow
  <2> DEFINE Q == NewGameP(proxy, p, g2)
             N == NewGameG(proxy, G, p, g2)
  <2>2. Safe(Q, N, X) /\ Q[p].live /\ N[Q[p].game].wsi = NULL
    <3>1. W[w].pc = p /\ \A x \in Wsi : x # w => X[x] = W[x]
      BY <1>3 DEF W
    <3>2. g2 \in {x \in Game : G[x].pc = NULL} \cup {proxy[p].game}
      BY <2>1
    <3>3. /\ Safe(Q, N, X) /\ Q[p].live /\ Q[p].game = g2
          /\ N[g2].wsi = NULL
      BY <1>1, <1>2, <1>6, <3>1, <3>2, SwitchedSafe
    <3> QED
      BY <3>3
  <2>3. ASSUME NEW x \in Wsi PROVE RequestEffect(Q, N, X, p, x)
    <3> HIDE DEF Q, N
    <3> QED
      BY <1>1, <2>1, <2>2, ConnectRequestedMoves DEF Q, N
  <2>4. \A q \in Proxy : q # p =>
            Q[q].live = proxy[q].live /\ Q[q].game = proxy[q].game
    BY <1>1 DEF Typed, ProxyRecord, NewGameP
  <2>5. ASSUME NEW x \in Game, game[x].pc \notin {NULL, p}
        PROVE  N[x] = game[x]
    <3>1. x # g /\ G[x] = game[x] /\ x # g2
      BY <1>1, <1>3, <2>1, <2>5
    <3> QED
      BY <1>2, <3>1 DEF NewGameG, Safe, Typed
  <2> HIDE DEF Q, N
  <2> QED
    BY <1>1, <1>4, <2>3, <2>4, <2>5, RequestMoves
<1> QED
  BY <1>5, <1>6 DEF RawClose, G

(* A callback of the browser's side: of all its messages only CONNECT can  *)
(* reach the reconnect.                                                    *)
LEMMA ClientConnectMoves ==
    ASSUME Safe(proxy, game, wsi), NEW p \in Proxy, NEW k \in Game \cup {NULL},
           ClientConnect(p, k), NEW w \in Wsi
    PROVE  MovedWhole(w)
<1> DEFINE g == proxy[p].game
<1>1. /\ Typed(proxy, game, wsi) /\ proxy[p].live /\ g \in Game
      /\ game[g].pc = p
  BY DEF ClientConnect, Safe, Owns
<1>2. PICK late \in Lateness(g) :
         ConnectVerbose(proxy, EnforcedG(g, late), EnforcedW(g, late), p, k)
  BY DEF ClientConnect
<1> DEFINE G == EnforcedG(g, late)
           W == EnforcedW(g, late)
<1>3. Safe(proxy, G, W)
  BY <1>1, EnforcedSafe
<1>4. /\ \A x \in Wsi : W[x].pc = wsi[x].pc
      /\ \A x \in Game : x # g => G[x] = game[x]
  BY <1>1, EnforcedKeepsPc DEF Typed, SamePc, EnforcedG
<1>5. ConnectVerbose(proxy, G, W, p, k)
  BY <1>2
<1> HIDE DEF G, W
<1>6. CASE wsi' = W \/ wsi' = KillWsi(W, G[g].wsi)
  <2>1. W \in [Wsi -> WsiRecord]
    BY <1>3 DEF Safe, Typed
  <2>2. SamePc(W, KillWsi(W, G[g].wsi))
    BY <2>1, OrdersKeepPc
  <2>3. StaysPut
    BY <1>4, <1>6, <2>2 DEF StaysPut, SamePc
  <2> QED
    BY <2>3, StaysPutMoves
<1>7. CASE G[g].wsi = NULL /\ ConnectRequested(proxy, G, W, p, k)
  <2>1. RequestEffect(proxy, G, W, p, w)
    BY <1>1, <1>3, <1>7, ConnectRequestedMoves
  <2>2. \A x \in Game : game[x].pc \notin {NULL, p} => G[x] = game[x]
    BY <1>1, <1>4
  <2> QED
    BY <1>4, <2>1, <2>2, RequestMoves
<1> QED
  BY <1>5, <1>6, <1>7 DEF ConnectVerbose, Switch, Becomes

LEMMA ClientStepMoves ==
    ASSUME Safe(proxy, game, wsi), NEW p \in Proxy, ClientStep(p)
    PROVE  \A w \in Wsi : MovedWhole(w)
<1> DEFINE g == proxy[p].game
<1>1. wsi \in [Wsi -> WsiRecord]
  BY DEF Safe, Typed
<1>2. ASSUME NEW late
      PROVE  /\ EnforcedW(g, late) \in [Wsi -> WsiRecord]
             /\ \A x \in Wsi : EnforcedW(g, late)[x].pc = wsi[x].pc
  <2>1. EnforcedW(g, late) \in [Wsi -> WsiRecord]
    BY <1>1 DEF EnforcedW, KillWsi, WsiRecord
  <2> QED
    BY <1>1, <2>1, EnforcedKeepsPc DEF SamePc
<1>3. ASSUME NEW late, NEW W, wsi' = W,
             \/ W = EnforcedW(g, late)
             \/ W = AskWriteable(EnforcedW(g, late), game[g].wsi)
             \/ W = GameShutdownW(game, EnforcedW(g, late), g)
      PROVE  StaysPut
  BY <1>2, <1>3, OrdersKeepPc DEF GameShutdownW, SamePc, StaysPut
<1>4. ASSUME NEW late, NEW P, NEW G, Shutdown(P, G, EnforcedW(g, late), p)
      PROVE  StaysPut
  BY <1>2, <1>4, ShutdownMoves
<1>5. CASE ClientEstablished(p)
  <2>1. StaysPut
    BY <1>5 DEF ClientEstablished, Becomes, StaysPut
  <2> QED
    BY <2>1, StaysPutMoves
<1>6. CASE \E k \in Game \cup {NULL} : ClientConnect(p, k)
  BY <1>6, ClientConnectMoves
<1>7. CASE ClientDisconnect(p) \/ ClientData(p)
  <2>1. StaysPut
    BY <1>3, <1>7 DEF ClientDisconnect, ClientData, Becomes
  <2> QED
    BY <2>1, StaysPutMoves
<1>8. CASE ClientWriteable(p) \/ ClientPeerClose(p)
  <2>1. StaysPut
    BY <1>3, <1>8 DEF ClientWriteable, ClientPeerClose, Becomes
  <2> QED
    BY <2>1, StaysPutMoves
<1>9. CASE ClientClosed(p) \/ ClientTimer(p)
  <2>1. StaysPut
    BY <1>3, <1>4, <1>9 DEF ClientClosed, ClientClose, ClientTimer, Becomes
  <2> QED
    BY <2>1, StaysPutMoves
<1> QED
  BY <1>5, <1>6, <1>7, <1>8, <1>9 DEF ClientStep

(* A callback of a game's socket: of these only the close of a socket      *)
(* whose proxy is to switch games can reach the reconnect.                 *)
LEMMA GameStepMoves ==
    ASSUME Safe(proxy, game, wsi), NEW w \in Wsi, GameStep(w)
    PROVE  \A x \in Wsi : MovedWhole(x)
<1> DEFINE p == wsi[w].pc
           g == proxy[p].game
<1>1. wsi \in [Wsi -> WsiRecord] /\ FreeWsi.pc = NULL /\ FreeWsi.st = "free"
  BY DEF Safe, Typed, FreeWsi
<1>2. ASSUME NEW late
      PROVE  /\ EnforcedW(g, late) \in [Wsi -> WsiRecord]
             /\ \A x \in Wsi : EnforcedW(g, late)[x].pc = wsi[x].pc
  <2>1. EnforcedW(g, late) \in [Wsi -> WsiRecord]
    BY <1>1 DEF EnforcedW, KillWsi, WsiRecord
  <2> QED
    BY <1>1, <2>1, EnforcedKeepsPc DEF SamePc
<1>3. ASSUME NEW late \in Lateness(g), p # NULL
      PROVE  p \in Proxy /\ g \in Game /\ Safe(proxy, EnforcedG(g, late), EnforcedW(g, late))
  BY <1>3, SocketFacts, EnforcedSafe
<1> HIDE DEF p, g
<1>4. CASE GameConnectError(w) \/ (p = NULL /\ GameClosed(w))
  <2> DEFINE X == [wsi EXCEPT ![w] = FreeWsi]
  <2>1. \A x \in Wsi : X[x].pc \in {NULL, wsi[x].pc}
    BY <1>1
  <2>2. X \in [Wsi -> WsiRecord]
    BY <1>1 DEF FreeWsi, WsiRecord
  <2>3. \E P, G, q : Shutdown(P, G, X, q) \/ Becomes(P, G, X)
    BY <1>4 DEF GameConnectError, ConnectFailed, GameClosed, p
  <2> HIDE DEF X
  <2>4. StaysPut
    BY <2>1, <2>2, <2>3, ShutdownMoves
  <2> QED
    BY <2>4, StaysPutMoves
<1>5. CASE GameConnected(w)
  <2>1. PICK kill : wsi' = [wsi EXCEPT ![w].st = "open", ![w].kill = kill]
    BY <1>5 DEF GameConnected, Becomes
  <2>2. StaysPut
    BY <1>1, <2>1 DEF StaysPut, WsiRecord
  <2> QED
    BY <2>2, StaysPutMoves
<1>6. CASE p # NULL /\ GameClosed(w)
  <2>1. PICK late \in Lateness(g) :
           RawClose(proxy, EnforcedG(g, late),
                    [EnforcedW(g, late) EXCEPT ![w] = FreeWsi], p)
    BY <1>6 DEF GameClosed, p, g
  <2> DEFINE X == [EnforcedW(g, late) EXCEPT ![w] = FreeWsi]
  <2>2. /\ X \in [Wsi -> WsiRecord] /\ X[w].pc = NULL /\ X[w].st = "free"
        /\ \A x \in Wsi : x # w => X[x] = EnforcedW(g, late)[x]
    BY <1>1, <1>2 DEF WsiRecord, FreeWsi
  <2> HIDE DEF X
  <2>3. RawClose(proxy, EnforcedG(g, late), X, p)
    BY <2>1 DEF X
  <2> QED
    BY <1>6, <2>2, <2>3, RawCloseMoves DEF p, g
<1>7. CASE GameWriteable(w)
  <2>1. p # NULL /\ wsi[w].st = "open"
    BY <1>7 DEF GameWriteable, Safe, Attended, p
  <2>2. PICK late \in Lateness(g) :
           Writeable(EnforcedG(g, late), EnforcedW(g, late), w, p)
    BY <1>7, <2>1 DEF GameWriteable, p, g
  <2> DEFINE G == EnforcedG(g, late)
             W == EnforcedW(g, late)
             X == [W EXCEPT ![w].pc = NULL, ![w].want = FALSE]
  <2>3. CASE RawClose(proxy, G, X, p) /\ G[g].st \in {"CLOSING", "RECONNECTING"}
    <3>1. Safe(proxy, G, W) /\ W[w].st = "open" /\ G[g].wsi = w /\ w # NULL
      <4>1. Typed(proxy, game, wsi) /\ game[g].wsi = w /\ g \in Game
        BY <2>1, SocketFacts DEF p, g
      <4> QED
        BY <1>3, <2>1, <4>1, EnforcedFrame, NullAssumption
    <3>2. W[w].kill /\ W \in [Wsi -> WsiRecord]
      <4> HIDE DEF G, W
      <4> QED
        BY <1>3, <2>1, <2>3, <3>1 DEF Safe, Typed, Attended
    <3>3. X \in [Wsi -> WsiRecord]
      <4> HIDE DEF W
      <4> QED
        BY <3>2 DEF WsiRecord
    <3>4. /\ X[w].pc = NULL /\ X[w].st = "open" /\ X[w].kill /\ ~X[w].want
          /\ \A x \in Wsi : x # w => X[x] = W[x]
      <4> HIDE DEF W
      <4> QED
        BY <3>1, <3>2 DEF WsiRecord
    <3> HIDE DEF X
    <3> QED
      BY <2>1, <2>3, <3>3, <3>4, RawCloseMoves DEF p, g
  <2>4. ASSUME NEW more \in BOOLEAN, wsi' = [W EXCEPT ![w].want = more]
        PROVE  StaysPut
    BY <1>2, <2>4 DEF StaysPut, WsiRecord
  <2> QED
    BY <2>2, <2>3, <2>4, StaysPutMoves DEF Writeable, Becomes, g
<1>8. CASE GameRx(w)
  <2>1. PICK late : wsi' = EnforcedW(g, late)
                    \/ wsi' = AskWriteable(EnforcedW(g, late), w)
    BY <1>8 DEF GameRx, Becomes, p, g
  <2>2. StaysPut
    BY <1>2, <2>1, OrdersKeepPc DEF StaysPut, SamePc
  <2> QED
    BY <2>2, StaysPutMoves
<1>9. CASE GameTimer(w)
  <2>1. PICK late, P, G, q : \/ Shutdown(P, G, EnforcedW(g, late), q)
                             \/ Becomes(P, G, EnforcedW(g, late))
    BY <1>9 DEF GameTimer, p, g
  <2>2. StaysPut
    BY <1>2, <2>1, ShutdownMoves
  <2> QED
    BY <2>2, StaysPutMoves
<1> QED
  BY <1>4, <1>5, <1>6, <1>7, <1>8, <1>9 DEF GameStep

LEMMA ScannerDispatchMoves ==
    ASSUME Safe(proxy, game, wsi), NEW p \in Proxy, ScannerDispatch(p)
    PROVE  \A w \in Wsi : MovedWhole(w)
<1>1. PICK P, G : ConnectHost(P, G, wsi, p)
  BY DEF ScannerDispatch
<1>2. /\ wsi \in [Wsi -> WsiRecord]
      /\ \A x \in Wsi : wsi[x].st = "free" => wsi[x].pc = NULL
  BY FreeHasNoPc DEF Safe, Typed
<1>3. ASSUME NEW w \in Wsi
      PROVE  wsi'[w].pc = wsi[w].pc \/ wsi[w].pc = NULL
  BY <1>1, <1>2, ConnectHostMoves
<1> QED
  BY <1>3 DEF MovedWhole

(* A reconnect hands over the game's connection as it is, with its telnet  *)
(* layer and its outstanding check, and leaves the old proxy another       *)
(* game_conn_t or none (connect.c), whatever callback it is made from.     *)
THEOREM ReconnectKeepsGameHolds == Spec => ReconnectKeepsGame
<1> DEFINE A == \A w \in Wsi : MovedWhole(w)
<1>1. IInv /\ [Next]_vars => [A]_vars
  <2> SUFFICES ASSUME IInv, Next PROVE A
    OBVIOUS
  <2>1. Safe(proxy, game, wsi)
    BY DEF IInv
  <2>2. CASE Restart
    BY <2>2 DEF Restart, MovedWhole
  <2> QED
    BY <2>1, <2>2, ClientStepMoves, GameStepMoves, ScannerDispatchMoves DEF Next
<1>2. [A]_vars => [\A w \in Wsi :
         LET p == wsi[w].pc
             q == wsi'[w].pc
             g == proxy[p].game
         IN  p # NULL /\ q # NULL /\ p # q =>
             /\ proxy'[q].game = g /\ proxy'[p].game # g
             /\ game'[g] = [game[g] EXCEPT !.pc = q, !.known = TRUE]]_vars
  BY DEF MovedWhole
<1> HIDE DEF A
<1> QED
  BY <1>1, <1>2, Invariant, PTL DEF Spec, ReconnectKeepsGame

=============================================================================
