# LociTerm in TLA+

This directory is a verification project for LociTerm: a terminal in the browser
(JavaScript, `src/client/src`) and `locid`, the server that joins browsers to
telnet games (C, `src/server/src`). The modules are translated from the source;
`PROJECT.json` names, for every definition, the lines it stands for.

## 1. The system

`locid` is one process with one event loop (libwebsockets over libuv). There are
no threads. What makes it hard is that every callback may come in any order with
every other one, and that a session is held together by raw pointers:

    browser == websocket == client_conn_t -- proxy_conn_t -- game_conn_t == raw socket == game
                                                                |
                                                             telnet_t

| Component | State | Operations | Talks to |
|---|---|---|---|
| Proxy sessions (`proxy.c client.c game.c connect.c`) | `proxy_conn_t` list; `client_state`, `game_state`; `wsi_client`, `wsi_game`; each socket's opaque pointer; `requested_game`; `check_protocol`, `check_wait`; two queues; `watchdog_time` | the callbacks of both sockets; connect by host, by uuid, by request; the shutdowns; the security deadline; the watchdog | browser by JSON messages; game through telnet; directory for approval |
| Telnet negotiation (`libtelnet.c`, `telnet.c`) | the q table (RFC 1143), the compression latch, the option tables | `_negotiate`, `telnet_negotiate`, `loci_telnet_handler` | called from `loci_game_parse`; tells the session through events |
| Telnet byte stream (`libtelnet.c`) | parser state, `sb_telopt`, the subnegotiation buffer | `telnet_recv`/`_process`, `telnet_send`, `telnet_send_text`, `telnet_subnegotiation` | the game's socket on one side, `loci_telnet_handler` on the other |
| Compression MCCPX (`libtelnet.c`, `libtelnet/mccpx_*.c`) | one stream per direction with its encoding | `mccpx_begin`, `mccpx_end`, subnegotiations | switches the byte stream's decoder |
| Game directory (`gamedb.c`) | an SQLite file: games and their status, MSSP reports, options seen, scans, greetings | create, look up, suggest, ban, approve, update | sessions, scanner, administrator's command line (a second process) |
| Site scanner (`scan.c`) | a list of games to visit, a schedule | init, main, dispatch, timer, finalize | sessions without a browser; directory |
| Charset (`charset.c`) | the charset of a session | REQUEST, ACCEPTED, REJECTED; the browser's choice | telnet handler, browser |
| Traffic counters (`iostats.c`) | three counters per connection | increment, checkpoint, average | netstat |
| Main (`locid.c`, `debug.c`) | configuration | start, signals, log | systemd restarts it |
| Browser connection (`lociterm.js`, `connect.js`) | socket, reconnect key, reconnect timer | connect, disconnect, reconnect, CONNECT, HELLO | session |
| Browser GMCP modules (`gmcp.js`, `gmcp/*`) | login form, media cache, menus, hot keys | one per GMCP package | game, through the session |
| Browser user interface | word history, macros, preferences | rendering and input | user |

How they interact: all server components share the event loop, so that a handler
is atomic and the interleavings are those of whole callbacks. Handlers call each
other synchronously (a telnet event is delivered from inside `telnet_recv`; a
failed `lws_client_connect_via_info` calls the session's own callback before it
returns), and libwebsockets works asynchronously (`lws_set_timeout`,
`lws_wsi_close(LWS_TO_KILL_ASYNC)` and `lws_callback_on_writable` only ask for a
later callback). The browser and the server share no state but the uuid of a
`game_conn_t`, by which a browser that lost its websocket finds its game again.

What is hard, and what makes each component correct:

* **Sessions.** Who frees the `proxy_conn_t`, when either side may go first and
  each handler trusts the other to do it; pointers that a reconnect moves between
  two live sessions; a close that is asked for and comes later; games that must
  not reach the browser before they have shown that they are what they claim.
  Correct: pointers stay paired; no callback meets a null pointer; what is given
  up gets freed; a check is never skipped; a reconnect moves a connection whole.
* **Negotiation.** Wishes cross on the wire; answers beget answers; the handler
  negotiates from inside an event. Correct: the answers die out, both ends end
  up agreeing, the program knows what the table says, one compression at a time.
* **Byte stream.** Reads end anywhere; a buffer has a limit; a subnegotiation may
  be broken off or switch the decoder. Correct: whatever the cuts, the program
  gets what was sent, once and in order, and nothing is kept back.
* **Compression.** Both ends must switch at the same byte, on and off, although a
  read may span the place.
* **From game to browser.** A queue that is held back until a check is passed, and
  thrown away if it is not; modes that belong to the game and are shown by a
  browser that may be replaced. Correct: nothing of an unchecked game is shown,
  what was read is shown in the end, and all agree about echo and charset.
* **Directory and scanner.** Cached copies of a status against an
  administrator's ban; a scan none of whose callbacks will ever come; and one file
  that two processes write, several statements for one fact, without a transaction.
  Correct: what is recorded is what was last reported and found, one complete
  report heals what an interrupted one left, and scans come and end.
* **Browser.** A timer that reconnects against a user who disconnects; a key that
  outlives the game it names.

`PROJECT.json` lists the components with what is modelled of each, and under
`hazards` each place in the code where one of these difficulties bites, with the
properties that speak of it.

## 2. The modules

| Module | Models | Role |
|---|---|---|
| `ProxySession` | proxy sessions | component |
| `MCProxySession` | | symmetry for TLC |
| `ProxySession_proofs` | | proofs of its safety invariants and its action property |
| `RFC1143` | the six-state Q method for one side of one option | pure transitions |
| `TelnetNegotiation` | two ends with their q tables, tables of options, latch and the commands under way | component, composes two ends |
| `MCTelnetNegotiation` | | tables of options for TLC |
| `TelnetNegotiation_proofs` | | proofs: what the program is told, the latch, and that the two ends agree |
| `TelnetPipe` | what a telnet connection promises | abstract specification |
| `TelnetStream` | libtelnet's encoder and its receive loop | component, implements `TelnetPipe` |
| `MCTelnetStream` | | alphabet for TLC |
| `TelnetStream_proofs` | | proofs: bounds, order, types |
| `Subnegotiations` | the contents of ENVIRON, MSSP, TERMINAL-TYPE and ZMP subnegotiations | pure functions, checked by assumptions in `MCTelnetStream` |
| `Mccpx` | one end of a connection as the compression code sees it | pure operators, extends `RFC1143` |
| `Charset` | the choice of a charset from a list | pure function |
| `GameLink` | everything between a game and a browser in one session: compressed stream, events, security gate, queue, websocket, charset, echo | component, composes two `Mccpx` ends, a session and a browser |
| `MCGameLink` | | thirteen workloads |
| `GameLink_proofs` | | proofs: types, the security gate, echo, the queue |
| `GameStream_proofs` | | proofs: text passes whole and in order; the charset is agreed on |
| `GameRecords` | the database's creation, MSSP data, options seen, the scanner and its tables; two processes, statement by statement | component |
| `MCGameRecords` | | three settings |
| `GameRecords_proofs` | | proofs: types, the file's creation |
| `RecordKeeping_proofs` | | proofs: what the records say |
| `GameDirectory` | the table of games, the sessions' copies of its rows, the scanner, the administrator | component |
| `MCGameDirectory` | | symmetry, three configurations |
| `GameDirectory_proofs` | | proofs |

### ProxySession

`proxy`, `game` and `wsi` are the heap: `proxy[p]` is a `proxy_conn_t` with its
`client_conn_t`, `game[g]` a `game_conn_t` (and the uuid it holds), `wsi[w]` what
libwebsockets knows of a game's socket. The memory is a fixed set of names that
are reused after a free, so that a dangling pointer is a pointer to a record that
is not live, or to somebody else's. Field names are explained above the record
sets in the module.

One action is one callback (`ClientConnect` is `LWS_CALLBACK_RECEIVE` of a CONNECT
message, `GameClosed` is `LWS_CALLBACK_RAW_CLOSE`, and so on), with every call the
handler makes in it. The shared C functions are operators on a triple (proxies,
games, sockets) so that a handler that calls `loci_proxy_shutdown` after
`security_enforcement` composes them in that order. Nondeterminism stands for

* the clock: a callback of a `BLOCKING` session comes before its deadline or
  after it, a watchdog that is not patted may have expired;
* the outside: a host that is refused, fails at once or is attempted; a game that
  shows the option it was required to show, or does not; what the directory says;
* libwebsockets: a kill ordered before a socket has connected may be lost when it
  connects, which replaces the socket's timeout.

A null pointer that is followed is the action `Crash`; `Restart` is systemd's
`Restart=always`. Left out: what the queues hold, the telnet layer (only whether it
exists), netstat, menus and preferences, which touch none of this state.

### RFC1143 and TelnetNegotiation

`RFC1143` has one operator for each of the four things that can happen to one side
of an option (the peer's yes and no, the program's wish for on and off). libtelnet
writes each of them out twice, for our side and for the peer's; the module has
them once. `TelnetNegotiation` gives each end two such sides per option, and adds
what the code adds to the Q method: the option tables (`_check_telopt`), the
compression latch, the reset of our own side when a WILL is refused
(`libtelnet.c:368`), and the requests that `loci_telnet_handler` makes from inside
an event (MCCPX is offered back; `mccpx_end` after MCCPX went off). A game is a
second libtelnet with tables and wishes of its own, because that is the
best-behaved peer the code can meet. Which game it is, `game`, is chosen at the start
from the constant `Games`; an unruly one also sends commands that follow from
nothing, and what is claimed of the outcome (`QuietAgree`, `Settles`) is claimed of
the others.

### TelnetPipe and TelnetStream

The sender's actions append the encoding of a text byte, a command, a negotiation
or a subnegotiation to `wire`, and what the receiver should make of it to `sent`.
`Read` hands the loop the next bytes, any number of them; then each action is one
iteration of the `for` loop in `_process`, with the names of its states, its index
`i` and the start of the text run, `start`. The four states of a negotiation are
one with the verb kept beside it. `got` is the list of events, text byte by byte.
`Run` is the text the loop has passed but not yet handed on, so that the program's
view is `got \o Texts(Run)`: with this mapping the loop implements `TelnetPipe`.

`eol` is chosen at the start: TRUE for a direction in which the sender is
`telnet_send_text` and the receiver has `TELNET_FLAG_NVT_EOL` (a game that uses
libtelnet), FALSE for one that translates nothing at either end (what locid
reads). `Restarts` are the options whose subnegotiation switches the decoder;
the receive loop starts again on the rest of the buffer, and the decoder is taken as
ideal: it gives back what was sent, whatever it is fed with. `InOrder` therefore
speaks of cuts, limits and subnegotiations that are broken off, not of what a restart
does to a buffer that was decoded already (`libtelnet.c:1116` after `libtelnet.c:1886`);
that is in `GameLink`, where streams are kept apart.

### Subnegotiations

The parsers (`_environ_telnet`, `_mssp_telnet`, `_ttype_telnet`, `_zmp_telnet`), the
calls that compose a payload, and what `telnet.c` does with the result, as functions
of a sequence of bytes in which a marker goes by its name. `MCTelnetStream` compares
them with what was meant, for all short contents, in assumptions that TLC evaluates
with the run `telnet_stream`. What they show besides the expected: an MSSP block that
ends with a VAL leaves an entry that nothing filled in, which explains the comment at
`telnet.c:664` about a game that "crashes"; the empty value that was meant there is
lost; of an array locid keeps the last value; and an ENVIRON subnegotiation whose last
byte is an escaped ESC is refused as a whole.

### Mccpx, Charset and GameLink

`lib[e]` is the libtelnet of an end: its q entry for MCCPX and the streams it
compresses and decompresses with. A stream is a number; an item on the wire carries
the number of the stream it was written through, and only a decoder of that stream
can read it. Both ends use the operators of `Mccpx`, which are libtelnet's with the
part of `loci_telnet_handler` that concerns MCCPX.

`rx` is a running `telnet_recv` with the number of items left in its read. While one
is running no other callback of locid does. A stream that begins in the middle of a
read takes over the rest of it, one that ends there leaves the call with a decoder
that has been freed (`freed`): what a read through freed memory gives is left open
only as far as that its text is lost (`RxFreed`), which `hist.spanned` remembers.
The decoder may also have failed in the same call that gave it what came before, which
is then lost too (`RxSpoilt`).

BEGIN and ACCEPT make the receive loop feed the rest of its buffer to `telnet_recv`
again. Of a read that is not compressed that is right for either: `CallOn` has the rest
go to the decoder that is set up by then, or to none. An ACCEPT that came compressed stands in
what the decoder gave, and the rest, which is text, goes into the running decoder a
second time (`RxAccept`, remembered by `hist.refed`). A decoder that is fed with anything
but its own stream (`Choke`) ends with an error, or takes the few bytes it got for the
beginning of a block and waits: `Garbled` is then its stream, one that nobody writes, so
that all it is fed from then on chokes it again. What a decoder that is out of step may
give as text before it notices is not modelled; nor is it of the game's, which takes one
item at a time and whose decoder just fails.
`sess` is the rest of the session: the game's state, what it has still to show
(`check`, `due`), the client's queue and whether a write callback was asked for,
`spoken`, echo and charset. `page` is the browser. `down` and `up` are the messages
on the websocket; they are lost with it.

`Charset` is the search in `loci_charset_recv_request`, whose two loops do not do what
its comment says: with another separator than a blank only the last name can match,
and with blanks a first name that does not match is followed by an empty one, which
matches the default. The function says so, and the module's constants give what the
comparison of characters would find in each name.

`hist` is what happened, and no part of the program: lines sent and received, the
evidence a game gave (`spoke`), and the circumstances that a property excepts. Each
of these is something the code does at a line that is listed among the hazards, and the
property says that in this model there is no other: `spanned` (a stream ends in the
middle of a read), `refed` (decoded bytes are fed to the decoder again after an ACCEPT),
`hushed` (a compressor ends without a WONT, since the q entry did not say the option
is on), `bypassed` (AYT is answered past the compressor), `strayed` (a DONT is taken
for something else, `telnet.c:494`), `stalled` (the write callback is spent while the
game is blocking, `game.c:359`), `disputed` (the game answered the last charset it was
asked for with another, or rejected it), `unsettled` (a websocket was lost, and with it
the session's charset, `connect.c:307`, or a choice of the user's met an offer of the
game's), and the plain facts `failed`, `dropped` and `closed`. `unsettled` is not for
ever: a choice that meets no offer puts right whatever went wrong before.

### GameRecords

One row of the directory with all that hangs on it. The rows of different games do
not depend on each other, so that one game is enough. Two processes have the file
open: `server` and `forced`, an administrator's `locid --force-scan`. A callback that
records something puts its SQL statements into the process's `todo`, and each
statement is a step (`InsertMssp`, `UpdateTelopt`, `UpsertStatus`, ...), which may
fail (`FailStatement`) with what the code then leaves out; a process may end between
any two (`Crash`). What is decided before the statements (is the report news? is the
status another than when the list was made?) is decided when the callback begins.

The kinds of records meet in one place only: the age of the MSSP data decides whether
the options will be recorded. `setting` therefore chooses which kinds and which
connections a behaviour follows; statements of other kinds are left out, and where one
kind depends on another that is not followed, either outcome is possible
(`ShouldRequest`). Timestamps are ages, capped where no limit can tell them apart
(`Oldest`). `Tick` lets time pass between callbacks: the statements of one callback
carry the second in which it runs, and the two ticks that matter to a limit, which are
hours and days, do not fall into it.

`truth` is what was reported and found last, and `disturbed` the kinds of records
whose last writing failed half way or met another process's; both are there for the
properties. A record of which nothing is under way and nothing was disturbed is
`Undisturbed`, and the properties say what it then is: also that one undisturbed
writing makes up for all earlier ones.

### GameDirectory

`db` is the table GAMEDB, from its ID to an address and a status; `last` is the last
ID of its AUTOINCREMENT. A session reads the row of its game when it begins to
connect (`loci_connect_to_game_host`) and keeps `entry`, the ID and the status of
that moment: whether the outcome of the attempt is recorded is decided by the copy's
status, and where by its ID. So what could go wrong lies between the two, while
others write: another session of the same game, one that takes the game over by its
uuid (`SwapEntries`), the scanner, and a second process, `locid --ban`, `--approve`,
`--redact` or `--delete` (`Rule`, `Delete`).

The actions are the callbacks of `ProxySession` again, seen from the directory: each
keeps the decisions and the writes it makes there, and of the session's own state
only what they depend on (whether the browser is there, the game's socket and state,
whether a check is required, whether it is a scan). Nothing is assumed of the rest.
A session here has one websocket flag where `ProxySession` tells the closing frame
from the end of the socket. `Deadline`, the enforcement at the start of every
callback, is an action by itself, and the callback's own follows or does not; it
only writes what the callback's write would then come after. The request of a
`RECONNECTING` session is chosen when it is served.

Assumed: the database is in use; a callback's reads and writes are not interleaved
with the second process (each is one SQL statement; a command between two of them
acts as if it came before or after the callback, except between the look-up in
`game_db_suggest` and the one in `loci_connect_to_game_host`, whose answers would
then differ); and the server's own game is in the table and is not deleted. Without
the last, a session can be without a copy, `connect.c:320` does not swap, and
`EntryMatches` fails: this is listed among the hazards. The configuration is one of
three: suggestions open with a check, queued without, closed. A queued suggestion
is stored as `NO_ANSWER`, a status to which the code connects: the model has it so,
although the comment at `locid.c:287` says that an administrator must allow it first.

## 3. What TLC checks

| Run | Instance | Shows |
|---|---|---|
| `session_safety` | 2 proxies, 2 games, 2 sockets, scanner on, symmetric | `TypeOK`; `Ownership`, `SocketWiring` (pointers paired, nothing dangles, callbacks reach the right session); `SidesConsistent`; `SocketsAttended` (no callback pending on a socket with a null pointer); `UncheckedNeverUp`; `ReconnectKeepsGame` |
| `session_liveness` | 2 proxies, 2 games, 1 socket, scanner off | `HalfOpenReclaimed`, `BlockResolves`, `ClosingEnds` |
| `session_orphan` | as above, symmetric | finding: `NoOrphan` fails |
| `session_roaming` | as above, symmetric | finding: `RoamingIsSafe` fails |
| `session_saved_request` | 2 of each | finding: `SavedRequestServed` fails |
| `telnet_negotiation` | 4 options of which 2 are compressions; an obedient game with 5 wishes, and one that offers everything with 3 wishes or commands out of turn | `TypeOK`, `ToldTheTruth`, `OneCompression`; of the first `QuietAgree`, `Settles` |
| `telnet_refused_will` | a game that offers NAWS as well as asking for it | finding: `QuietAgree` fails |
| `telnet_stream` | one plain byte, one command, one verb, two options (one switches the decoder), payloads up to 2, buffer limit 1, 2 items, 12 bytes on the wire | `TypeOK`, `RunsInBounds`, `InOrder` (`TelnetPipe` is implemented), `NothingKept` |
| `game_link` | thirteen workloads: compression both ways under text and input; typing while a websocket is lost; AYT; five combinations of checks with every kind of evidence; echo and roaming; two kinds of charset traffic, charsets while the checks are open, and beside compression and AYT; roaming with a charset | `TypeOK`, `Intact`, `GateHolds`, `ChecksWitnessed`, `EchoTold`, `CharsetAgree`, `QueueAttended`, `Delivered` |
| `game_records` | server and a forced scan, 1 user, 2 kinds of MSSP data, 2 options, limits of 1 and 2 units of time, 1 failure or crash, 3 settings | `TypeOK`, `RunsOnComplete`, `AboutIsLast`, `TeloptsOfOne`, `GivenUpIsDown`, `CrawlKept`, `Refreshed`, `ForcedEnds` |
| `directory` | 2 sessions, 3 addresses (the server's own, an ordinary one, one that is refused and has no usable port), 3 rows ever, 1 command, 3 configurations | `TypeOK`, `EntryMatches`, `ScanAttended`, `ApprovalEarned`, `BanSettles` |
| `directory_ban` | 2 sessions, 2 addresses | finding: `BanHolds` fails |

**Bounds.** Sessions: every step of the code concerns at most two proxies (the one
that reconnects and the one it takes from), two games (the ones they swap) and two
sockets (the one that is closing and its replacement), so that two of each show
every combination; no counter is bounded, the state space is finite. The liveness
run has one socket, since with fairness TLC cannot use symmetry; two browsers
contending for it are the interesting part. Negotiation: `MaxAsks` bounds the
wishes of both programs; five let an option be turned on, off and on again from
both ends with the commands crossing. Stream: two items are enough for the second
to meet whatever state the first left behind; a payload of two against a limit of
one has the byte that just fits, the one that does not, and either as an escaped
IAC; 12 bytes on the wire are the longest item, so that every pair
travels, the shorter ones also together. Directory: two sessions swap, compete for a
game, or are a browser and a scan; `MaxRows` is the number of addresses, so that a
game deleted and suggested again has a new row while the old copy lives on;
`MaxRulings` is one, since each command makes one row differ from the copies of it;
the scanner dispatches one address at a time, and any selection of the rows it may
select. Link: every kind of traffic has a workload of its own with what it interacts
with, since most kinds share no state; two lines of text and two wishes let a stream
begin and end with a line before, in and after it, both ways, and a second stream
begin; of three lines typed one may be lost with a websocket between two that are not;
reads of every size follow from the choice of the number of items. Records: a
second user would do what the forced scan's connection does in the other process; of
two kinds of data one is news after the other; two options are the fewest of which a
mixture of two connections' rows is neither's; `Many` is two, one more than there should
ever be; a limit of one unit has an age below and one above it, and `Down` is
longer than `Expired`, as in the code; with one failure or crash the next writing must
heal what it left. `CHECK_DEADLOCK FALSE` stands in every configuration: a server with
no browser, a connection on which all was said, or a process that waits for a scan
which was never begun, rests.

**Fairness.** Sessions: `LibraryPromises` says that libwebsockets carries out a
kill, decides a connection attempt and ends a closing websocket; a game socket's
`LWS_CALLBACK_TIMER`, which `game.c` sets again every ten seconds, in the end
fires after the deadline it is compared with. Nothing is promised of browsers or
games. Negotiation: TCP delivers and each event loop reads. Stream: the loop runs
to its end and the socket is read; senders may pause for ever. Link: the event loop
comes back to every socket that is ready and to its timers, a socket that was ordered
to close is closed, and the browser reads. Nothing is promised of the game, of the
user, or of a lost browser's return. Records: `Promises` says that a process executes
its statements to the end, that every attempt to connect and every ordered close of a
scan's socket ends, and that a scan's own timer ends it, whatever callbacks come in
between; the scanner's timer keeps firing (`Scanner`). That the timers keep firing is
libwebsockets' and libuv's promise, and all the code relies on.

**What each property would catch** is shown by the mutated operators that stand
beside the definitions they replace (`SwapOpaque_WrongPointer`,
`HearNo_Unanswered`, `Sb_KeepsBuffer`, `NewId_Reused`, ...; `PROJECT.json` pairs them with the
properties). They are no part of the model.

### What was found

1. `game.c:305`: a game that hangs up between the browser's close frame and the end
   of its websocket leaves a `proxy_conn_t` that nothing will ever free
   (`session_orphan`; the comment at `client.c:393` says otherwise).
2. `connect.c:318`: a reconnect to a game whose socket is already gone uses a NULL
   socket and ends the process (`session_roaming`; `README.md:83` promises roaming).
3. `game.c:190`: a saved request is lost when the connection attempt it waits for
   fails instead of closing (`session_saved_request`; comment at `connect.c:91`).
4. `libtelnet.c:368`: a refused WILL resets the other side of the option
   (`telnet_refused_will`; `libtelnet.h:513` claims the rules of RFC 1143).
5. `game.c:187`, `game.c:363`: a ban given while a game is being tried is overwritten
   by the outcome (`directory_ban`; `README.md:228` says that it prevents connecting).

`BanSettles` says what is left of finding 5: only a session that looked the game up
before the ban can overwrite it. `ScanAttended` excepts a scan whose port is out of
range, which `connect.c:208` refuses without ending the scan. `HalfOpenReclaimed`
speaks only of proxies that still have a game connection, and
`UncheckedNeverUp` and the invariants are stated so that they hold in spite of
findings 1 to 3. `QuietAgree` holds in `telnet_negotiation` because the tables of its
obedient game have no option of the kind of finding 4.

Where the code and what is said of it part without a run of its own (the properties
of the passing runs are stated so that they hold in spite of these, and name the case
they except):

* `README.md:234` says of a game that is DOWN that it "won't be rescanned until a
  successful manual connection is made": a user's connection never writes to the
  scanner's table, so that it is not rescanned then either; a forced scan does it.
* `locid.c:287` says of a queued suggestion that nobody may connect until an
  administrator allows it; it is stored as `NO_ANSWER`, a status to which
  `connect.c:157` connects.
* `telnet.c:494`: the case of a DONT runs on into that of a subnegotiation and reads
  an option that was not stored: it may count as evidence that a game is a MUD.
* `libtelnet.c:1800`: a stream that ends in the middle of a read takes the text behind
  it along; `libtelnet.c:906`: `telnet_free` returns after the first stream it frees.
* `libtelnet.c:1886`: `_mccpx_telnet` returns 1 for an ACCEPT_ENCODING as for a BEGIN,
  and `libtelnet.c:1110` takes the rest of the buffer for compressed. When the ACCEPT
  came compressed itself, that rest is what the decoder gave: it is fed to the decoder
  again, which fails, ends the stream and loses the text behind the ACCEPT. The workload
  `Compressing` has it when DO, ACCEPT and a line of text arrive in one read (`RxAccept`);
  `Intact` excepts it by `refed`, and is violated without that exception.
* `telnet.c:377`: AYT is answered in plain text into a compressed stream.
* `game.c:359`: text that was held back while a game was blocking waits for the next
  write, if the write callback was spent meanwhile. And `game.c:345`: a game that hangs
  up while it is blocking leaves its queue to be shown.
* `connect.c:208`: a port out of range ends a scan without finalizing it, so that a
  forced scan never exits (`ForcedEnds` excepts it).
* `gamedb.c:140`: a creation of the file that was interrupted leaves one that no later
  start completes or removes: no process runs on it (`RunsOnComplete`), and none will.
* `connect.c:307`: charset and queue go different ways when a browser returns: the
  queue moves with the game, the charset stays with the session.

## 4. What TLAPS proves

All theorems hold for any sets of proxies, games, sockets, options and bytes, under
the `ASSUME`s of the modules (constants do not overlap; bounds are naturals, and the
one on the rows counted of a telnet option, `Many`, leaves room for one). Where a
theorem needs more it says so; only `QuietAgreeHolds` does.

**ProxySession_proofs.** `TypeCorrect`, `OwnershipHolds`, `SocketWiringHolds`,
`SidesConsistentHolds`, `SocketsAttendedHolds`, `UncheckedNeverUpHolds` and
`ReconnectKeepsGameHolds`. The
inductive invariant is `Safe(proxy, game, wsi)`, the conjunction of all of them.
None is inductive alone: that a shutdown frees only what has no socket needs the
wiring; that a cleared opaque pointer is harmless needs that the socket was closing
and its kill ordered; that "close first" is chosen when there is a socket needs the
two states to agree. As the handlers are compositions of operators on triples, each
operator has a lemma that it keeps a triple `Safe`, and each action's lemma follows
its calls. `Crash` is covered: it leaves an empty heap. The action property is about
the opaque pointers only: each operator of the heap is shown to leave a socket's
pointer (`SamePc`), to clear it, or to set one that was null, and
`loci_connect_to_game_uuid` to take the socket with its whole game (`Taken`); that the
calls after the swap, which shut the old session down, do not touch what was taken
follows from the two sides of a swap being disjoint, which is part of `Safe`.

**TelnetNegotiation_proofs.** `TypeCorrect`, `ToldTheTruthHolds` and
`OneCompressionHolds`, for any tables and for an unruly game. Each transition of
`RFC1143` is shown to tell the program exactly what it changes; the strengthening
`NeverAsked` adds that locid never asks for a compression, so that the peer's side of
one is only ever `NO`, `YES` or `WANTNO`, and leaves `NO` only by a WILL that takes the
latch.

Its second part is `QuietAgreeHolds`: when nothing is under way the two ends
agree on every option. Each of the two sides of each option is a small protocol
between the end that performs it and the end that watches, and `Linked` says which two
q states go with which announcements under way: at most two one way, or the same
request crossing. The proof that the four transitions keep it is a case analysis of
`RFC1143`, symmetric in the ends. What makes it long is that the channels carry the
commands of all options and sides mixed, with the subnegotiations between them: `Sub`
relates a channel to what it carries of one side, and the lemmas on it say what becomes
of that when commands are appended or the first is taken off. The hypothesis
`Compatible(g)` on an obedient game is that neither end proposes to perform what it
also performs on request and would then refuse, for want of a table entry or of the
latch: libtelnet answers a refused WILL by resetting *its own* side, too (the finding
of `telnet_refused_will`), and with such a game the property is false. The game of the
run `telnet_negotiation` is compatible, the one of `telnet_refused_will` is not. Of an
unruly game nothing is claimed.

**TelnetStream_proofs.** `RunsInBoundsHolds`, `BufferFits`, `TypeCorrect` and
`InOrderHolds`, for any bytes, options, payloads and limit and for any cuts. For the two
bounds nothing is assumed of the peer: the invariant `IInv` says only that `chunk` and
`buffer` are sequences and where the indices stand: `start <= i` in state DATA, and every
way back to DATA sets `start` to the byte at hand or the next.

`InOrderHolds` is the refinement of `TelnetPipe`. It is proved by way of a simpler
receiver: `Step` is what one byte does to it, `Runs` what a word does, with no pieces,
indices or runs of text. The invariant `Reading` says that the loop, seen as that
receiver (`Here`: its `out` is `got` and the text run at hand, what the pipe calls
received), would understand the bytes it has not taken (`Rest`: what is left of the
buffer, and the wire) as the rest of what was `sent` (`Understood`), and would then be in
state DATA. That is inductive for three reasons. Whatever is put on the wire means what
it was sent for to any receiver in state DATA (`Says`), so that it may follow whatever is
under way; this is where escaping, translation of ends of line, subnegotiations that do
not fit and ones that are broken off come in. An iteration of the loop is `Step`
(`Consumes`), the run of text being the difference between the two. And a read or the end
of a buffer changes neither `Here` nor what is before it. A step of the loop then makes
`received` a longer prefix of `sent`, because nothing that the receiver has given is
taken back (`RunsExtend`). `TypeOK` needs the same invariant: that what is read as
an option or a verb is a byte of the stream says something of the wire.

`Escape` folds over its argument, and the provers have no induction theorem over
numbers that they can instantiate with a property. What they do have is that `<` is well
founded and that every nonempty set then has a minimal element: `SetInduction` says by
that of a *set* of numbers what the theorem says of a property, and `ChainExists` and
`EscapeInduction` unfold the recursion with it.

**GameDirectory_proofs.** `TypeCorrect`, `EntryMatchesHolds`, `ScanAttendedHolds`,
`ApprovalEarnedHolds` and `BanSettlesHolds`, for any sessions, addresses,
configurations, tables and numbers of commands. The inductive invariant `IInv` says
of each session that its copy has an ID that was given away (`Copied`: so that a new
row cannot take its place), that a browser's connection has a copy (so that a swap
moves it), that what is checked was open when looked up and what is open and not
checked is the server's own game or a scan (`Gated`), and that a running scan has a
socket (`Watched`). It is stated for any sessions and table, as `Inv(S, D, n)`, since
the handlers are compositions: the lemmas on `Shutdown`, `ConnectFailed`,
`ConnectHost`, `Admit`, `Suggest` and `TakeGame` are about whatever they are called
with. The two action properties follow from `Effect`: a step leaves a row as it is,
or turns NOT_CHECKED into NO_ANSWER, or writes to the row of the acting session's own
copy, which was open; and what it approves was earned.

**GameRecords_proofs.** `TypeCorrect` and `RunsOnCompleteHolds`, for any users, data,
options (finitely many), limits, settings and number of failures. The inductive
invariant is `Inv`: a starting process has of the creation's statements a rest that
agrees with what the file has (`OnTheWay`: before the version is inserted the tables
and the server's own game are there, whoever put them there); a process that runs, or
is off, has only records to write (`Recording`), whose values fit what they are put
into (`Fits`); and a version in the file means that all the rest is there. It is needed
because both processes may be creating the file, and either may fail or end after
any statement: that the version comes last is no property of one of them. The lemmas
`RestSafe` and `BeginSafe` are about one statement done and one callback begun, and
each action's lemma cites them.

**RecordKeeping_proofs.** `AboutIsLastHolds`, `TeloptsOfOneHolds`,
`GivenUpIsDownHolds` and `CrawlKeptHolds`, under the same assumptions. Each property
speaks of a record that nobody is writing, so none is inductive: `Keeping` says besides
what is true while a process writes. Its parts are

* `Callbacks`: the statements left of a callback are in the order in which the code
  executes them (`Precedes`), and those that must follow one do (`Followers`): LAST_MSSP
  after the data, a greeting after an approval, no row of an option twice;
* `Alone`: a process that believes itself undisturbed is the only one that writes this
  kind of record, and one that does not has marked the record;
* `KeptMssp`, `KeptTelopts`, `KeptScan`: a record that is not marked and that nobody
  writes is sound (`MsspSound`: LAST_MSSP is no older than the data, and GAME_UPDATED no
  older than the last change), and for one that is written undisturbed the statements
  that are left will make it so (`MsspOnTheWay`, `TeloptsOnTheWay`, `ScanOnTheWay`);
* what follows from the connections: a scan whose socket is open was answered, and
  a record that is not sound may wait for its end (`Answered`).

The invariant is about the *set* of statements left (`Left`), so that one lemma for each
kind covers a statement that is done, a callback that begins, and one that is dropped,
and the other kinds are untouched (`StatementKeeps`, `CallbackKeeps`). `CrawlKept` is the
first half of `MsspSound`: a LAST_MSSP no older than the data is young whenever the data
are. That the properties are proved with two processes, of which each may fail or end
anywhere, is what the marks in `disturbed` are worth: one undisturbed writing is enough.

**GameLink_proofs.** `TypeCorrect`, `GateHolding`, `Witnesses`, `EchoLearned` and
`QueueAttending`, for any workloads however long, any charsets and any way to cut the
stream into reads. The inductive invariant `Inv` has four parts. `TypeInv` says, per direction, what the
arguments of the items on a wire may be (`Wording`) and of the messages in a queue
(`Tidings`, `Wishes`), which the handlers rely on. `GateInv`: while the checks are open
no text is on the screen or on its way there, and after they fail none is in the queue
either; the first half is what makes the second hold when the deadline strikes, and that
nothing is being read then is why no handler can add to the queue. `CheckInv`: whatever
is no longer asked for was shown. `EchoInv`: what the browser has, or is told on the way
(`down`), or will be told by the queue, the last of them counting (`Settles`), is the
game's ECHO; `MoveSettles` and `ReadSettles` show that moving a message along changes
nothing of that. Each handler of an item is shown to hand on a session that `Follows`
the one it got, and `DoneInv` draws the conclusion for all of them; the other callbacks
go through `Sound` and `SoundInv`. `QueueAttended` is what liveness of the queue rests on:
a message waits only while a call of the websocket has been asked for, or one was spent
while the game was blocking. Given the types it is inductive alone; each handler hands on
a session that `Minds` the one it got, by adding to the queue only through `Push`. That
the call then comes is libwebsockets', and `Delivered` checks what follows from it.

**GameStream_proofs.** `IntactHolds`: for any workload, the game's lines reach locid
whole and in order and the user's reach the game, except those a lost websocket took
with it. Each end's MCCPX goes round: off, agreed to, in use, off again; the number of
such steps is a *place*. The state of each libtelnet shows up to which place it was
answered, which place it has announced, and in which place it has seen the other side
(`Own`, `Watch`, `Tuned`). A word on the way takes a place to the next (`Moves`), and
`Path` says that all the words of a wire, one by one, take what the receiver has seen to
what the sender announced, what it was answered to what the other has seen, its decoder
to the other's compressor, each item readable by the decoder it meets, and the lines
read to the lines sent (`Linked`, `Tied`, `Flow`). A handler takes the first word off one
path and appends its answers to the other, so each needs to be looked at for one word
only; what a whole path keeps (`PathKeeps`) is shown by a smallest counterexample, which
needs no induction theorem. Two things make `StreamInv` more than that. While a game is
`CLOSING` locid throws away what it reads, and the game goes on as if it were still on
its way: the invariant says that *some* words on the wire would fit. And once a websocket
was lost, lines of the user are missing, so that each is only a later one than the last
(`Skips`, `Leaps`, `Comes`). The four excuses of `Intact` (`Clean`: a stream that ended
within a read, or without its WONT, an answer past the compressor, and decoded bytes
fed to the decoder again) are exactly the steps at which the argument fails.

`CharsetsAgree`: for any lists, choices and workloads, browser, session and game use one
charset as soon as nothing about charsets is on its way. Three parties tell each other,
in queues that are read at any time, so the invariant says of each queue what its *last*
word about the charset is, since it is the last that counts (`Agreed`): the last CHARSET
on its way to the browser names the session's, or none is and the browser has it
(`Settles`, as for ECHO); the last REQUEST or ACCEPTED on its way to the game names the
session's, or none is and the game uses it, or wants another (`Heeds`). While a choice of
the user's is on its way this is replaced by its opposite: the last choice is what the
browser uses, and nothing else is on its way to the browser, nor an offer to locid. This
is where an offer that meets a choice breaks it, and why `hist.unsettled` is what it is.
For the game to act on the last word it must be able to read it, whatever becomes of the
compression (`Readable`). `Intact` has excuses for streams that end in the middle of a
read, for want of a WONT or because of an ACCEPT; none is needed here, because those are
streams to locid. Of
its own stream locid never withdraws the offer (`Willing`), so it never says WONT, so the
game, which follows (`Following`), never says the DONT that would make locid end it: four
statements that hold only together. The answer to AYT is the one word past the
compressor that is left, and the property names it (`bypassed`).

**Only model-checked.** All liveness: `Settles`, `NothingKept`, `Delivered`,
`Refreshed`, `ForcedEnds` and the three session liveness properties rest on fairness,
which the provers do not treat. What `MCTelnetStream` assumes of `Subnegotiations` is
evaluated for short contents. Every safety property of every passing run is proved.

## 5. Plan

Done, in this order: `ProxySession` (the core), `RFC1143` and `TelnetNegotiation`,
`TelnetPipe` and `TelnetStream`, `GameDirectory`, `Mccpx`, `Charset` and `GameLink`,
`GameRecords` with the scanner, `Subnegotiations`; and of all safety properties the
proofs. To come:

1. A second connection of one `game_conn_t`, which keeps the option states of its first
   (`telnet.c:611`): `TelnetNegotiation` with a peer that starts afresh.
2. `BrowserConnection`: the browser's socket, its reconnect timer and stored key
   against an abstract server that has what `ProxySession` promises.
3. Browser GMCP: the login exchange and the media cache.

## 6. Not modelled, and why

* MCCPv1 (option 85) in the byte stream. locid never agrees to that option;
  `libtelnet.c:1090` moves `start` beyond the byte at hand, so that `RunsInBounds` is
  claimed without it (see the hazards).
* The BINARY flags changing in mid-stream, PROXY mode of libtelnet (locid sets no
  such flag), and what GMCP messages say, which locid passes on unread.
* Of the directory LAST_CONNECTION, the tables of names (written once, and only
  printed), `--list` and `--info`; a database that cannot be opened at all; a dry run
  of the scanner, which connects to nothing.
* The traffic counters: floating point arithmetic on three numbers, read only to be
  printed; TLC has no such numbers.
* Memory exhaustion: every `malloc` succeeds.
* zlib, zstd, SQLite, libwebsockets and json-c, except for what the code relies on.
* Parsing of options and configuration, and logging: straight-line code without state.
* The browser's JavaScript. What locid sees of it (a websocket that is lost and comes
  back with a key, with or without its page; messages; a user who types, chooses and
  disconnects) is in `ProxySession` and `GameLink`; its own reconnect timer and its
  GMCP modules are planned. Styles and rendering hold no state a property would be
  about.
